SPECIFICATION Spec
CONSTANTS
  Place <- MCPlace
  Near <- MCNear
  Zero <- MCZero
  ShortMax = 32767
  Coord <- MCCoord
  Stops <- MCStops
  Clocks <- MCClocks
  Arrivals <- MCArrivals
  HeapPlaces <- MCHeapPlaces
  Messages <- MCMessages
  PerDrawer = 1
  MaxTrip = 3
  MaxAsk = 0
  MaxBoot = 1
  HeapInts <- MCHeapInts
INVARIANT FrequentDestinationLeads
CHECK_DEADLOCK FALSE
