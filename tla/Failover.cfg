SPECIFICATION EstablishedSpec
CONSTANTS
  Peers = {1, 2, 3}
  Contents = {c0, c1}
  DefaultContents = c0
  MaxPayloadBytesInLog = 1
  MaxStateID = 2
  NoPeer = NoPeer
  FirstSenior = 1
  FaultKinds = {"crash"}
  MaxFaults = 1
  MaxBeaconsInFlight = 1
INVARIANTS EverythingComesFromASenior BackOrdersAreUnderWay
PROPERTIES OnlyVerifiedStates
CONSTRAINT FewPackets
