SPECIFICATION FairSpec
CONSTANTS
  p1 = p1  p2 = p2  p3 = p3  q1 = q1
  playerP = playerP  playerQ = playerQ
  None = None
  Packets = {p1, p2, q1}
  Players = {playerP, playerQ}
  SrcOf <- MCSrcOf
  Timeout = 1
  Transparent = FALSE
  Flaky = {q1}
CHECK_DEADLOCK FALSE
INVARIANTS UpstreamsAreOwned TableHolds
PROPERTY SessionsEnd
