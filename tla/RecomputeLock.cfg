SPECIFICATION Spec
CONSTANTS
  o1 = o1
  f2 = f2
  r3 = r3
  d4 = d4
  x5 = x5
  p1 = p1
  p2 = p2
  g1 = g1
  g2 = g2
  i1 = i1
  c1 = c1
  None = None
  Gestures = {g1}
  Pages = {p1}
  PageOf <- MCOneGesture
  Kinds = {"move"}
  Instances = {i1}
  Calls = {}
  MaxTurns = 1
  SiblingsTell = TRUE
  Waypoints <- MCWaypoints
  StopType <- MCStopType
  InitialSeq <- MCInitialSeq
  Miles <- MCMiles
PROPERTY ManualOrderKept
CHECK_DEADLOCK FALSE
