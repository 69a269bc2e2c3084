SPECIFICATION MCSpec
CONSTANTS
  Clients = {c1, c2}
  SendQueue = 1
  MaxLines = 2
  Bots = {b1, b2}
  Sends = {s1}
  Fires = {f1}
  Queries = {q1, q2}
  Binaries = {p1, p2}
  RetryAfter = 1
  MaxEdits = 1
  Policies <- MCPolicies
INVARIANTS
  StreamHolds
  BusSettles
  StoreOutlivesTurns
  EveryBotListed
  ToolsScoped
PROPERTIES
  DaemonExits
CHECK_DEADLOCK FALSE
