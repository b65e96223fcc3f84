CONSTANTS
  Node = {1, 2}
  MaxSockets = 2
  MaxTries = 1
  MaxFaults = 2
SPECIFICATION MeshSpec
CHECK_DEADLOCK FALSE
INVARIANTS
  OneSocketPerPair
PROPERTIES
  LinkForms
  OneLeader
