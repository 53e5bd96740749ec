CONSTANTS
  Durations = {1, 3, 10}
  Discretizations = {1, 2, 4}
  PointCounts = {89}
  SizeBits = 16
SPECIFICATION Spec
INVARIANT FreeRangeInBuffer
CHECK_DEADLOCK FALSE
