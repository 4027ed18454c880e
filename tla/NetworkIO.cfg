SPECIFICATION Spec
CONSTANTS
  Self = me
  Others = {p, q}
  NoPeer = NoPeer
  None = None
  Interfaces = {1, 2}
  Loopback = Loopback
  Sessions = {s1, s2}
  MaxRecentlyReceived = 1
  Bounds <- MCBounds
INVARIANTS DeliveredOnce BackOrdersAreHeld
PROPERTIES SeniorIsHeard BeaconsFollowTheDatabase
CHECK_DEADLOCK FALSE
