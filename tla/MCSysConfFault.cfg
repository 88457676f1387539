SPECIFICATION Spec
CONSTANTS
  CredExts = {"key"}
  Offers <- News
  MaxSessions = 2
  MaxFaults = 1
  MaxFailures = 2
  PowerCuts = FALSE
INVARIANT UpdMarksWholeSet
CHECK_DEADLOCK FALSE
