SPECIFICATION Spec
CONSTANTS
  Subscribers = {s1, s2}
  Nodes = {n1}
  Patterns = {{n1}}
  Values = {v1, v2}
  NoValue = NoValue
  Filters = {{v1}, {v1, v2}}
  QuietFlags = {FALSE}
  BatchFlags = {TRUE, FALSE}
  Hasty = FALSE
  MaxCommands = 5
  MaxWrites = 1
  MaxConnects = 2
INVARIANTS  UpstreamMatchesDownstream RequestsAreUnderWay NobodyIsCutOff
CHECK_DEADLOCK FALSE
SYMMETRY Symmetry
