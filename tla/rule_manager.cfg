SPECIFICATION Spec
CONSTANTS
  r1 = r1  r2 = r2  u1 = u1  u2 = u2
  None = None
  Ids = {r1, r2}
  Owners = {u1, u2}
  Confs <- MCConfs
INVARIANT ManagerHolds
PROPERTY NoNeedlessRestart
