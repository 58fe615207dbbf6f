SPECIFICATION FairSpec
CONSTANTS
  f1 = f1
  f2 = f2
  rig = rig
  Fixes = {f1, f2, f3}
  Rig <- MCRig
  At <- MCAt
  Maps = {m1}
  Huds = {h1}
  Session <- MCSession
  Consoles = {c1, c2}
  MaxCommands = 2
  None = None
INVARIANTS
  TypeOK
  FixesComparable
  HudsAgree
PROPERTIES
  NothingPostedLate
  StopEnds
  MapConverges
CHECK_DEADLOCK FALSE
