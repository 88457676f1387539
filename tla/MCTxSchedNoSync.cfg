SPECIFICATION Spec
CONSTANTS
  f1 = f1
  f2 = f2
  NumUnits = 2
  AltAntennas <- Both
  Chnls = {f1, f2}
  Airtime <- Frames
  Requests <- ClassA
  MaxJobs = 2
  MaxNow = 1
  MaxLate = 2
  Drift = {0}
  Region = "other"
  Band <- Bands
  BandRate <- Rates
  ChnlRate = 3
  UnsyncedAtStart = {1}
  TX_MIN_GAP = 1
  TX_AIM_GAP = 2
  TX_MAX_AHEAD = 20
  TXCHECK_FUDGE = 1
  CLASS_C_BACKOFF_BY = 2
  CLASS_C_BACKOFF_MAX = 0
  RX2_DELAY = 4
INVARIANT XtimeTrue
CHECK_DEADLOCK FALSE
