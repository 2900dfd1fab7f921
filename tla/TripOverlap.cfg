SPECIFICATION Spec
CONSTANTS
  Place <- MCApartPlace
  Near <- MCApartNear
  Zero <- MCZero
  ShortMax = 32767
  MaxFix = 4
  MaxBoot = 2
  MaxFail = 0
  Overlap = TRUE
  CutInSave = TRUE
  HeapPtrs <- MCZeroPtrs
  HeapInts <- MCZeroInts
INVARIANT RecordsAreTripsAway
CHECK_DEADLOCK FALSE
