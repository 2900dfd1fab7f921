SPECIFICATION Spec
CONSTANTS
  Place <- MCPlace
  Near <- MCNear
  Zero <- MCZero
  ShortMax = 32767
  Coord <- MCCoord
  Stops <- MCStops
  Clocks <- MCClocks
  Arrivals <- MCArrivals
  HeapPlaces <- MCHeapPlaces
  Messages <- MCMessages
  PerDrawer = 2
  MaxTrip = 2
  MaxAsk = 1
  MaxBoot = 2
  HeapInts <- MCHeapInts
INVARIANT TypeOK
INVARIANT EveryTripCounted
INVARIANT FirstDestinationLeads
INVARIANT PredictsRecordedTrips
INVARIANT MissesOnlyForSpace
INVARIANT RatesTogetherAtMostOne
INVARIANT AskedStartFound
INVARIANT StartKeptUnlessAsked
CHECK_DEADLOCK FALSE
