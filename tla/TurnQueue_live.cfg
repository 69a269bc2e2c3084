\* One session: two messages, a Console turn, a store that may fail and
\* a worker that may panic; one crash.
SPECIFICATION FairSpec
CONSTANTS
  k1 = k1
  k2 = k2
  m1 = m1
  m2 = m2
  f1 = f1
  c1 = c1
  Keys = {k1}
  Messages = {m1, m2}
  Fires = {}
  Consoles = {c1}
  KeyOf <- OneKey
  Workers = {w1}
  None = None
  RingSize = 1
  MayPanic = TRUE
  StoreMayFail = TRUE
  MaxDeliveries = 1
  MaxCrashes = 1
CHECK_DEADLOCK FALSE
PROPERTIES QueueServed
