SPECIFICATION LoopSpec
CONSTANTS
  o1 = o1
  o2 = o2
  d3 = d3
  d4 = d4
  f5 = f5
  x6 = x6
  Waypoints <- MCWaypoints
  StopType <- MCStopType
  Trips <- MCTrips
  Maps <- MCMaps
INVARIANT ComputesNearestOrder
CHECK_DEADLOCK FALSE
