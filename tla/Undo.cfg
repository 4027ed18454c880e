SPECIFICATION Spec
CONSTANTS
  c1 = c1
  c2 = c2
  v1 = v1
  v2 = v2
  Clients = {c1, c2}
  Lists = {"list"}
  Values = {v1, v2}
  Workloads <- EveryWorkload
  NameSum <- MCNameSum
  PayloadSum <- MCPayloadSum
  MaxLog = 4
  MaxItems = 2
INVARIANT
  ChecksumIsCurrent
PROPERTIES
  ReplayReproduces
  UndoAndRedoLeadBack
  StacksAreUsable
CHECK_DEADLOCK FALSE
