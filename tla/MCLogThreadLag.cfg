SPECIFICATION Spec
CONSTANTS
  LOG_OUTSIZ = 4
  size = 2
  rotate = 2
  Lengths = {1, 3}
  MaxBytes = 4
PROPERTIES
  LinesLeave
CHECK_DEADLOCK FALSE
