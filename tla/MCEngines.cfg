SPECIFICATION Spec
CONSTANTS
  RetryLimit = 3
  MuxsRetries = 0
  FAIL_CNT_THRES = 0
  Options <- StartOptions
  MaxVersion = 1
INVARIANTS
  SomethingPends
  SessionUndisturbed
  TcCurrent
PROPERTIES
  TcReturns
  AllSetsTried
