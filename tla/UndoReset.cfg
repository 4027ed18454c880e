SPECIFICATION Spec
CONSTANTS
  c1 = c1
  c2 = c2
  v1 = v1
  v2 = v2
  Clients = {c1, c2}
  Lists = {"list"}
  Values = {v1, v2}
  Workloads <- AddingAndResetting
  NameSum <- MCNameSum
  PayloadSum <- MCPayloadSum
  MaxLog = 5
  MaxItems = 2
PROPERTY ReplayReproduces
CHECK_DEADLOCK FALSE
