CONSTANTS
  Task = {1, 2, 3}
  Ghost = Ghost
  NoTask = NoTask
  Concurrency = 2
  Low = 0
  MaxSpawnDepth = 1
SPECIFICATION MCSpec
CHECK_DEADLOCK FALSE
INVARIANTS
  DepthIsRealWhenAlone
PROPERTIES
  ReadyTaskLeaves
