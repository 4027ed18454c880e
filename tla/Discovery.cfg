SPECIFICATION FairSpec
CONSTANTS
  Servers = {"s1"}
  SystemOf <- MCSystemOf
  Wanted = {"s1"}
  Interfaces = {1}
  Infos = {"a", "b"}
  Targets = {"t1"}
  Interval = 1
  Bounds <- MCBounds
INVARIANT
  TargetsAreUpToDate
PROPERTIES
  NobodyVanishesUnasked
  GoneSystemsAreReported
CHECK_DEADLOCK FALSE
