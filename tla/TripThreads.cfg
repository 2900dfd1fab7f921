SPECIFICATION FairSpec
CONSTANTS
  Place <- MCTwoPlaces
  Near <- MCTwoNear
  Zero <- MCZero
  ShortMax = 0
  MaxFix = 3
  MaxBoot = 1
  MaxFail = 0
  Overlap = TRUE
  CutInSave = TRUE
  HeapPtrs <- MCAnyPtrs
  HeapInts <- MCZeroInts
INVARIANT TypeOK
INVARIANT NoFixForgotten
INVARIANT LastTimerCallsBack
PROPERTY FixTakenOver
CHECK_DEADLOCK FALSE
