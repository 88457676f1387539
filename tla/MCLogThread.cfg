SPECIFICATION Spec
CONSTANTS
  LOG_OUTSIZ = 4
  size = 2
  rotate = 2
  Lengths = {1, 3}
  MaxBytes = 8
INVARIANTS
  NoLineLost
  RecentKept
PROPERTIES
  FlushEnds
CHECK_DEADLOCK FALSE
