\* One session: two messages, delivered up to twice, a cron fire, a crash,
\* and a dedup ring of one entry, so that evictions happen.  Three edits of a
\* document, whose notices are lost, repeated or not decrypted, two refreshes, and
\* crashes.  A frame, once it came to its end, stays there.
SPECIFICATION MCSpec
CONSTANTS
  k1 = k1
  k2 = k2
  m1 = m1
  m2 = m2
  f1 = f1
  c1 = c1
  Keys = {k1}
  Messages = {m1, m2}
  Fires = {f1}
  Consoles = {}
  KeyOf <- OneKey
  Workers = {w1, w2}
  None = None
  RingSize = 1
  MayPanic = FALSE
  StoreMayFail = FALSE
  MaxDeliveries = 2
  MaxCrashes = 1
  Refreshes = {r1, r2}
  MaxEdits = 3
SYMMETRY Symm
CHECK_DEADLOCK FALSE
INVARIANTS InboundSafe WorkersMatchQueues RepliesToOwnTarget AtMostOnce
PROPERTIES ImplementsSerialTurns
