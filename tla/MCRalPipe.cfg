SPECIFICATION Spec
CONSTANTS
  ReadMax = 2
  PipeCap = 3
  CcaRegions = {TRUE}
  NoCca = {FALSE}
  MaxReqs = 2
  MaxSessions = 2
  MaxEvents = 3
  MaxCrashes = 1
INVARIANTS
  FramedRight
  OneLateIgnored
  ConfiguredFirst
PROPERTY Recovers
CHECK_DEADLOCK FALSE
