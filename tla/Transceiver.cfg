SPECIFICATION Spec
CONSTANTS
  Nics = {1, 2}
  Depths = {0, 1, 2}
  Targets = {"t1"}
  Bounds <- MCBounds
PROPERTIES HeardInOrder NewestPacketIsHeard
CHECK_DEADLOCK FALSE
