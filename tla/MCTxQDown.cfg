SPECIFICATION Spec
CONSTANTS
  Units = {u1, u2}
  MaxJobs = 3
  MaxData = 3
  MaxLen = 2
  U2 = 8
  Byte = {0, 1}
  Ascending = FALSE
PROPERTY FramesPreserved
