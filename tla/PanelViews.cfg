SPECIFICATION FairSpec
CONSTANTS
  f1 = f1
  m1 = m1
  m2 = m2
  p1 = p1
  p2 = p2
  c1 = c1
  c2 = c2
  f2 = f2
  Panels = {p1}
  Others = {p2}
  User <- MCUser
  Channels = {c1, c2}
  Messages = {m1, m2}
  Fetches <- MCFetches
  Posts <- MCPosts
  Mobile = Mobile
  None = None
INVARIANTS
  PanelTypeOK
  ShownTwiceOnlyByItsSender
  ForeignOnlyByItsSender
PROPERTY Converges
CHECK_DEADLOCK FALSE
