SPECIFICATION Spec
CONSTANTS
  Place <- MCApartPlace
  Near <- MCApartNear
  Zero <- MCZero
  ShortMax = 32767
  MaxFix = 4
  MaxBoot = 3
  MaxFail = 0
  Overlap = FALSE
  CutInSave = FALSE
  HeapPtrs <- MCZeroPtrs
  HeapInts <- MCZeroInts
INVARIANT CodesSurviveRestart
CHECK_DEADLOCK FALSE
