\* One editor and a keyring that comes and goes.
SPECIFICATION ConfigSpec
CONSTANTS
  Bots = {b1}
  Editors = {e1}
  MaxTools = 1
  MaxToken = 2
INVARIANTS NoStaleCopy
CHECK_DEADLOCK FALSE
