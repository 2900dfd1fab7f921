SPECIFICATION Spec
CONSTANTS
  Epochs <- MCEpochs
  Days = 800
INVARIANT WeekdayCorrect
INVARIANT DayIndexCorrect
CHECK_DEADLOCK FALSE
