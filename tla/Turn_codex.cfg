SPECIFICATION TurnSpec
CONSTANTS
  Ids = {i1, i2}
  MaxTurns = 1
PROPERTY CodexVerdictTold
CHECK_DEADLOCK FALSE
