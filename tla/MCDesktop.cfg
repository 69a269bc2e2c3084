\* Two daemons and two connections; a bot and two editors; two jobs and two
\* releases.
SPECIFICATION MCSpec
CONSTANTS
  Callers = {u1}
  Conns = {c1, c2}
  MaxDaemons = 2
  MaxEpoch = 2
  MaxAttempts = 2
  MaxRedials = 1
  Bots = {b1}
  Editors = {e1, e2}
  MaxTools = 1
  MaxToken = 1
  Jobs = {j1, j2}
  MaxVersion = 2
SYMMETRY Alike
INVARIANTS InstallSafe ConfigSpared BridgeSafe SomeoneReconnects
CHECK_DEADLOCK FALSE
