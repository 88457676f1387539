SPECIFICATION Spec
CONSTANTS
  f1 = f1
  f2 = f2
  NumUnits = 1
  AltAntennas <- None
  Chnls = {f1, f2}
  Airtime <- Frames
  Requests <- ClassC
  MaxJobs = 2
  MaxNow = 1
  MaxLate = 2
  Drift = {0}
  Region = "EU868"
  Band <- Bands
  BandRate <- Rates
  ChnlRate = 3
  UnsyncedAtStart = {0}
  TX_MIN_GAP = 1
  TX_AIM_GAP = 2
  TX_MAX_AHEAD = 20
  TXCHECK_FUDGE = 1
  CLASS_C_BACKOFF_BY = 2
  CLASS_C_BACKOFF_MAX = 2
  RX2_DELAY = 4
INVARIANT BandDutyCycle
CHECK_DEADLOCK FALSE
