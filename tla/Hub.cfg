\* Two clients, two broadcasts, a buffer of one: the second may find it full.
SPECIFICATION FairSpec
CHECK_DEADLOCK FALSE
CONSTANTS
  None = None
  Clients = {c1, c2}
  Events = {e1, e2}
  Buffer = 1
INVARIANTS
  AtMostOnce
  InOrder
  QuietHubLosesNothing
PROPERTIES
  BroadcastReturns
  BrokenIsForgotten
