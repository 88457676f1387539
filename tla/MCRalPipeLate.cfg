SPECIFICATION Spec
CONSTANTS
  ReadMax = 2
  PipeCap = 4
  CcaRegions = {TRUE, FALSE}
  NoCca = {FALSE}
  MaxReqs = 2
  MaxSessions = 1
  MaxEvents = 3
  MaxCrashes = 0
INVARIANT LateIgnored
CHECK_DEADLOCK FALSE
