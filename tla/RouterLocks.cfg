\* Three goroutines over two sessions, a reaper, and time to go idle.
\* No symmetry: a liveness property is checked.
\* With Idle = 0 a lock is old at the first reap after its last use.
SPECIFICATION FairSpec
CONSTANTS
  Keys = {k1, k2}
  Turns = {t1, t2, t3}
  Entries = {e1, e2, e3}
  None = None
  Idle = 0
  MaxTime = 2
INVARIANTS SerialPerSession
PROPERTIES ImplementsSessionLock NoTurnStarves
