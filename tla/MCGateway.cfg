SPECIFICATION MCSpec
CONSTANTS
  Users = {u1, u2}
  Sessions = {s1}
  Global = Global
  Absent = Absent
  MaxPer = 1
  Multiplier = 2
  Window = 2
  ReapIdle = 0
  MaxTime = 6
  Turns = {t1, t2, t3}
  Threshold = 2
  Cooldown = 2
  Ids = {i1, i2, i3}
  MaxTurns = 2
INVARIANTS
  BreakerSane
  TurnSettles
  ResumeSafe
PROPERTIES
  ImplementsRateLimit
  CooldownEnds
  ClaudeVerdictTold
  HungTurnEnds
CHECK_DEADLOCK FALSE
