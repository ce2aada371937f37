SPECIFICATION Spec
CONSTANTS
  a1 = a1
  a2 = a2
  None = None
  Addrs <- MCAddrs
  Flaky <- MCFlaky
  MaxRoutes = 2
  RemoveQueue = 1
  PendingCap = 1
  DeleteTries = 2
INVARIANTS
  PlayersAreServed
PROPERTIES
  LeftRoutesEnd
CHECK_DEADLOCK FALSE
