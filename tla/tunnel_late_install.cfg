SPECIFICATION Spec
CONSTANTS
  c1 = c1  c2 = c2  c3 = c3  a1 = a1  a2 = a2  a3 = a3  t1 = t1  t2 = t2
  d1 = d1  d2 = d2  fpA = fpA  fpB = fpB  user = user  j1 = j1  j2 = j2
  None = None  Gone = Gone
  Codes = {c1}
  Addrs = {a1, a2, a3}
  TunIPs = {t1, t2}
  PoolIPs = {t1, t2}
  Users = {user}
  UserOf <- MCUserOf
  TunIPOf <- MCTunIPOf
  Uses <- MCPrivate
  Devices = {d1}
  Fp <- MCFp
  Fp2 <- MCFp2
  MaxTunnels <- MCUnlimited
  Jobs = {j1}
  Kinds = {"disable"}
  QueueCap = 1
  MaxSecret = 0
CHECK_DEADLOCK FALSE
INVARIANT NoUnentitled
