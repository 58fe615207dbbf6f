SPECIFICATION FairSpec
CONSTANTS
  o1 = o1
  f2 = f2
  d3 = d3
  x4 = x4
  None = None
  Txns = {t1, t2, t3}
  Kinds = {"insert", "move", "delete", "optimize"}
  Waypoints <- MCWaypoints
  StopType <- MCStopType
  InitialSeq <- MCInitialSeq
INVARIANTS
  DenseUnlessDeleted
PROPERTIES
  DeleteHeals
  InsertLandsBeforeDestination
  EveryWriteEnds
CHECK_DEADLOCK FALSE
