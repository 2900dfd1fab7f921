SPECIFICATION Spec
CONSTANTS
  Rows = 3
  Cols = 2
  Position <- MCPosition
  MaxDiff = 3
  MaxSample = 3
  MaxBoot = 3
  MaxFail = 0
  Cuts = FALSE
  HeapBools = {TRUE, FALSE}
INVARIANT HistoryKept
CHECK_DEADLOCK FALSE
