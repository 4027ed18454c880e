SPECIFICATION Spec
CONSTANTS
  Peers = {1, 2}
  JuniorOnly = {}
  NoPeer = NoPeer
  HeartbeatsPerSecond = 2
  HeartbeatsBeforeFullyAttached = 2
  MaxMissingHeartbeats = 3
  MaxTime = 8
  MaxCrashes = 1
  MaxLosses = 2
INVARIANTS OfficialPeersAreCurrent SettledPeersAgree
PROPERTIES CalmOrderIsStable OnlyEndedPeersGoOffline
CHECK_DEADLOCK FALSE
CONSTRAINTS ShortQueues OneSenderAtATime
