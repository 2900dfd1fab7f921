SPECIFICATION FairSpec
CONSTANTS
  MaxFix = 3
  MaxReq = 1
  MaxFail = 1
  HeapPtrs <- MCHeapPtrs
INVARIANT TypeOK
INVARIANT OneInstance
INVARIANT LibraryCallsApart
INVARIANT LibraryDownAtExit
INVARIANT CrashCauses
PROPERTY HandsOutReady
PROPERTY SignalEndsProcess
CHECK_DEADLOCK FALSE
