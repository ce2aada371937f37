SPECIFICATION TrafficSpec
CONSTANTS
  Window = 4
  Group = 2
  Slots = 4
  PendingMax = 2
  RecoveredMax = 2
  MaxCounter = 10
  a1 = a1
  a2 = a2
  f1 = f1
  f2 = f2
  Clients <- MCClients
  Ufrags <- MCUfrags
  Answers <- MCAnswers
  Ids <- MCIds
  SignalPort = 80
  MaxJoins = 1
  MaxPackets = 1
  MaxGateways = 3
  Calls <- MCClients
  Bytes <- MCBytes
  Other = Other
  None = None
INVARIANTS
  SealedArrivesOnce
  NetherNetLeadsHome
  GatewaysLetGo
PROPERTIES
  ChannelImplementsFilter
CHECK_DEADLOCK FALSE
