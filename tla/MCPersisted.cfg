\* Three messages of any kind, a window and a dedup scan they overflow, any budget,
\* one cron fire, one death of the daemon.  A task and the one that may take its
\* place, an owner change, an edit, a restart or a failing store.  The daemon stops
\* for good once it is closed.  Five minutes around a clock change and five at a leap
\* day, on a calendar of four-minute days.
SPECIFICATION MCSpec
CONSTANTS
  MaxWindow = 2
  DedupScan = 1
  BackfillLimit = 2
  LongTurns = FALSE
  MaxLog = 3
  MaxFires = 1
  MaxDeaths = 1
  Ids = {a, b}
  Owners = {o1, o2}
  Clients = {c1}
  None = None
  MaxTasks = 1
  MaxOcc = 1
  MaxFaults = 1
  PerHour = 2
  HoursPerDay = 2
  DaysPerWeek = 3
  MaxScan = 20
  Shift = 28
  Beginnings = {25, 33}
  Span = 5
SYMMETRY Alike
INVARIANTS
  CursorSane
  NothingSkipped
  AtMostOncePerOccurrence
  FiresUnderOwner
  FiresAsWritten
  ShutdownLosesNoFire
PROPERTIES
  CutoffNeverFalls
CHECK_DEADLOCK FALSE
