SPECIFICATION Spec
CONSTANTS
  Users = {u1, u2}
  d1 = d1
  Drivers = {d1}
  Loads = {1, 2, 3, 4, 5, 6, 7, 8, 9, 10, 11, 12}
  New = {11, 12}
  Driver <- MCDriver
  Pickup <- MCPickup
  Plans <- MCPlans
  WeekPlan <- MCWeekPlan
  ShortPlans <- MCShortPlans
  MaxGestures = 5
  MaxSubmits = 2
  None = None
  ToolPlan <- MCToolPlan
  c1 = c1
  c2 = c2
  m1 = m1
  m2 = m2
  t1 = t1
  t2 = t2
  Channels = {c1, c2}
  Broadcast = {c2}
  Nil = Nil
  Untils = {1, 2}
  LastTime = 2
  Midnights = {2}
  Stamps <- MCStamps
  Mine = mine
  Theirs = theirs
  Messages = {m1, m2, mine, theirs}
  Topics = {t1, t2}
  ChannelOf <- MCChannelOf
  Tools = {"none", "posting", "topics", "sending", "pinning", "attaching", "exporting"}
  MaxUses <- MCMaxUses
SYMMETRY MCSymmetry
INVARIANTS
  TypeOK
  FrameAgrees
  TokenOfUser
  WaitingIsSafe
  BoardShows
  ToolsKeepToTheirChannel
  GateMirrorsServer
  ChipsOnce
CHECK_DEADLOCK FALSE
