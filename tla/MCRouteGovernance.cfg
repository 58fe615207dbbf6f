SPECIFICATION Spec
CONSTANTS
  o1 = o1
  f2 = f2
  d3 = d3
  x4 = x4
  e5 = e5
  Waypoints <- MCWaypoints
  StopType <- MCStopType
  Slots <- MCSlots
  InitialSeq <- MCInitialSeq
INVARIANTS
  DenseUnlessBeyond
PROPERTIES
  ImplementsList
CHECK_DEADLOCK FALSE
