CONSTANTS
  Convs = {c1, c2, c3}
  Past = {c1, c2}
  None = None
  MaxClicks = 4
SPECIFICATION Spec
PROPERTY DeleteLeavesOthers
CHECK_DEADLOCK FALSE
