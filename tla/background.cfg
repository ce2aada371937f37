SPECIFICATION MCSpec
CONSTANTS
  r1 = r1
  r2 = r2
  c1 = c1
  c2 = c2
  c3 = c3
  c4 = c4
  q1 = q1
  q2 = q2
  k1 = k1
  k2 = k2
  k3 = k3
  k4 = k4
  k5 = k5
  o = o
  a1 = a1
  a2 = a2
  player = player
  gateway = gateway
  stranger = stranger
  clientA = clientA
  clientB = clientB
  None = None
  Conns <- MCConns
  Clients <- MCClients
  ClientOf <- MCClientOf
  MaxRetries = 1
  Rules <- MCRules
  PoolConns <- MCPoolConns
  RuleOf <- MCRuleOf
  Brief <- MCBrief
  PoolSize = 2
  Mishaps = 2
  Lives = 2
  ChainLength = 3
  CertIds <- MCCertIds
  HttpCerts <- MCHttpCerts
  Keys <- MCKeys
  Orders <- MCOrders
  Requests <- MCRequests
  Scheduler = Scheduler
  GlobalKid = TRUE
  Works <- MCWorks
  TunnelClients <- MCTunnelClients
  Players <- MCPlayers
  Gateway = gateway
  Unused = Unused
  Datagrams <- MCDatagrams
  BatchSize = 2
  Link = 20
  Fec = TRUE
  MaxMTU = 14
  MinMTU = 5
  SealOverhead = 2
  IPOverhead = 3
  FECOverhead = 4
  Burst = 40
  SocketSize = 2
  MaxIn = 2
  MaxOut = 3
INVARIANTS
  
  HandlersEndBeforeTheStore
  KernelRulesHold
  OrdersHold
  AnswersLeadHome
PROPERTIES
  
  ShutdownPassesTheCollector
  Heals
  DueIsRenewed
  
CHECK_DEADLOCK FALSE
