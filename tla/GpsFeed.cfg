SPECIFICATION FairSpec
CONSTANT MaxSignal = 5
INVARIANT TypeOK
INVARIANT NoTornSample
INVARIANT SamplesInOrder
INVARIANT AtMostTwice
PROPERTY LastSampleTaken
CHECK_DEADLOCK FALSE
