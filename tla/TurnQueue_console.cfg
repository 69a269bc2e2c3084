\* One session, a message and a Console turn for the same peer.
SPECIFICATION Spec
CONSTANTS
  k1 = k1
  k2 = k2
  m1 = m1
  m2 = m2
  f1 = f1
  c1 = c1
  Keys = {k1}
  Messages = {m1}
  Fires = {}
  Consoles = {c1}
  KeyOf <- OneKey
  Workers = {w1, w2}
  None = None
  RingSize = 1
  MayPanic = FALSE
  StoreMayFail = FALSE
  MaxDeliveries = 1
  MaxCrashes = 0
CHECK_DEADLOCK FALSE
INVARIANT RepliesToOwnTarget
