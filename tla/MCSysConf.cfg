SPECIFICATION Spec
CONSTANTS
  CredExts = {"key"}
  Offers <- News
  MaxSessions = 2
  MaxFaults = 1
  MaxFailures = 2
  PowerCuts = TRUE
INVARIANTS
  RegWhole
  BakProven
  NoStaleMarker
CHECK_DEADLOCK FALSE
