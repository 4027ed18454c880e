SPECIFICATION Spec
CONSTANTS
  Peers = {1, 2, 3}
  Sessions = {"s1", "s2", "s3"}
  Nodes = {"n"}
  Values = {"v"}
  Home <- MCHome
  Address <- MCAddress
  Workloads <- EveryWorkload
INVARIANTS
  PongMeansFlushed
  NoDataOfTheDead
  UploadsAreShared
CHECK_DEADLOCK FALSE
