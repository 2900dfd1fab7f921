SPECIFICATION Spec
CONSTANTS
  Rows = 3
  Cols = 3
  Position <- MCPosition
  MaxDiff = 3
  MaxSample = 5
  MaxBoot = 3
  MaxFail = 1
  Cuts = TRUE
  HeapBools = {TRUE, FALSE}
INVARIANT TypeOK
INVARIANT GridIsOneTrace
INVARIANT NewestTraceKept
INVARIANT FirstTraceByLuck
CHECK_DEADLOCK FALSE
