SPECIFICATION Spec
CONSTANTS
  MaxJobs = 3
  MaxData = 4
  MaxLen = 2
  Byte = {0, 1}
  DataRates = {0}
  Signals = {1, 2}
INVARIANT FramesTiled
PROPERTY ImplementsFifo
