SPECIFICATION FairReignSpec
CONSTANTS
  Peers = {1, 2}
  Contents = {c0, c1}
  DefaultContents = c0
  MaxPayloadBytesInLog = 1
  MaxStateID = 2
  NoPeer = NoPeer
  FirstSenior = 1
  FaultKinds = {"session", "request", "junior", "save", "senior"}
  MaxFaults = 1
  MaxBeaconsInFlight = 1
INVARIANTS NoByteCountUnderflow OneUpdatePerStateID LogsFitTheBudget
PROPERTIES ImplementsReplicatedDatabase Convergence
