SPECIFICATION Spec
CONSTANTS
  Place <- MCWidePlace
  Near <- MCWideNear
  Zero <- MCZero
  ShortMax = 32767
  MaxFix = 4
  MaxBoot = 2
  MaxFail = 1
  Overlap = FALSE
  CutInSave = TRUE
  HeapPtrs <- MCZeroPtrs
  HeapInts <- MCAnyInts
INVARIANT RecordsAreTrips
INVARIANT TripsInOrder
INVARIANT CodeIsIndex
INVARIANT OneTimer
INVARIANT MemoryMirrorsDisk
PROPERTY ImplementsTripLog
CHECK_DEADLOCK FALSE
