SPECIFICATION Spec
CONSTANTS
  ReadMax = 2
  PipeCap = 4
  CcaRegions = {TRUE, FALSE}
  NoCca = {FALSE}
  MaxReqs = 2
  MaxSessions = 2
  MaxEvents = 4
  MaxCrashes = 0
INVARIANT NoFragments
CHECK_DEADLOCK FALSE
