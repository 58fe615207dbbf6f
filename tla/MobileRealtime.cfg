SPECIFICATION FairSpec
CONSTANTS
  messages = messages
  channel = channel
  None = None
  Sockets = {s1, s2}
  Clients = {c1}
  Topics <- MCTopics
  LastEvent = 2
  KeysOf <- MCKeysOf
INVARIANTS
  OneConnectionEach
PROPERTIES
  ImplementsStream
  Resubscribes
  Delivers
CHECK_DEADLOCK FALSE
