\* A reconnect after a crash, and a RestartCore meanwhile.
SPECIFICATION BridgeSpec
CONSTANTS
  Callers = {u1}
  Conns = {c1, c2}
  MaxDaemons = 2
  MaxEpoch = 2
  MaxAttempts = 1
  MaxRedials = 1
PROPERTY ReconnectSparesOthers
CHECK_DEADLOCK FALSE
