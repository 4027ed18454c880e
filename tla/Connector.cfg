SPECIFICATION FairSpec
CONSTANTS
  a = a
  b = b
  Servers = {a, b}
  NoServer = NoServer
  Settings <- TwoSettings
  NotStarted = NotStarted
  TimeSync = TRUE
  Overdue = 2
  MaxOwnerCalls = 2
  MaxServerSends = 1
  MaxFaults = 1
INVARIANTS OwnerLearnsTheTruth MessagesBelongToConnection
PROPERTIES Reconnects StopReturns
CHECK_DEADLOCK FALSE
