SPECIFICATION Spec
CONSTANTS
  a1 = a1  a2 = a2  a3 = a3  b1 = b1
  playerA = playerA  playerB = playerB
  target1 = target1  target2 = target2
  NoEntry = NoEntry
  Sessions = {a1, a2, a3, b1}
  Keys = {playerA, playerB}
  Backends = {target1, target2}
  KeyOf <- MCKeyOf
  BackendOf <- MCBackendOf
  SocketsMayDie = TRUE
CHECK_DEADLOCK FALSE
INVARIANT NoLeak
