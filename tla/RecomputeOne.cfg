SPECIFICATION FairSpec
CONSTANTS
  o1 = o1
  f2 = f2
  r3 = r3
  d4 = d4
  x5 = x5
  p1 = p1
  p2 = p2
  g1 = g1
  g2 = g2
  i1 = i1
  c1 = c1
  None = None
  Gestures = {g1, g2}
  Pages = {p1}
  PageOf <- MCOnePage
  Kinds = {"add", "move", "remove", "unlock"}
  Instances = {i1}
  Calls = {c1}
  MaxTurns = 2
  SiblingsTell = FALSE
  Waypoints <- MCFewWaypoints
  StopType <- MCStopType
  InitialSeq <- MCShortTrip
  Miles <- MCMiles
INVARIANTS
  NumbersBounded
  OneRouteEach
  LateReordersBounded
PROPERTIES
  RouteIsWhatIsStored
  EventsAreHandled
CHECK_DEADLOCK FALSE
