SPECIFICATION PanelSpec
CONSTANTS
  root = root
  ann = ann
  bob = bob
  g1 = g1
  g2 = g2
  q1 = q1
  q2 = q2
  t1 = t1
  t2 = t2
  m1 = m1
  m2 = m2
  r1 = r1
  r2 = r2
  r3 = r3
  c1 = c1
  c2 = c2
  e1 = e1
  e2 = e2
  k1 = k1
  k2 = k2
  n1 = n1
  Admin = Admin
  Shared = Shared
  Public = Public
  Every = Every
  Nobody = Nobody
  None = None
  Users <- MCUsers
  FirstAdmin = root
  Groups <- MCGroups
  FirstGroup = g1
  Emails <- MCEmails
  Requests <- MCRequests
  Tokens <- MCTokens
  Works <- MCWorks
  DeskUsers <- MCDeskUsers
  DeskRules <- MCDeskRules
  Codes <- MCCodes
  Endpoints <- MCEndpoints
  PortOf <- MCPortOf
  Names <- MCNames
  Addresses <- MCAddresses
  MaxStarted = 4
  DeskWorks <- MCDeskWorks
  Ips <- MCTokens
  SignInNames <- MCNamesToSignIn
  Limit = 2
  Window = 3
  MaxKeys = 1
  MaxClock = 5
  Ids <- MCIds
  ListEntries <- MCEntries
  LogRules <- MCLogRules
  Sources <- MCSources
  Owner <- MCOwner
  Queued = 2
  TrimEvery = 2
  LogLimits <- MCLimits
  PageSizes <- MCPageSizes
  MaxEvents = 5
  MaxChanges <- MCMaxChanges
  MaxRestarts = 1
  People <- MCPeople
  LastPort = 5
  Defaults <- MCDefaults
  OldUsers <- MCOldUsers
  OldGroups <- MCOldGroups
  Shapes <- MCShapes
  Crashes = 2
  Values <- MCValues
SYMMETRY Symmetry
INVARIANTS
  LoginsEnd
  DirectoryHolds
  FirewallFollows
  RulesStayAllowed
  
  LogsHold
  MigrationKeeps
PROPERTIES
  ShapesHold
CHECK_DEADLOCK FALSE
