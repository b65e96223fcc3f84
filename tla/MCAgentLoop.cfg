CONSTANTS
  a = a
  b = b
  c = c
  Call = {a, b, c}
  New = {b}
  Denied = {c}
  MaxBatch = 2
  MaxIterations = 3
  MaxBrainFailures = 2
  NoLimit = NoLimit
  ToolLimits = {3, NoLimit}
  Stuck = 3
  ConfirmBeforeAct = TRUE
SPECIFICATION FairSpec
CHECK_DEADLOCK FALSE
INVARIANTS
  StuckCallsStopped
  CancelStopsTools
  GivesUpInTime
  NotesReachNextIteration
PROPERTY
  RunEnds
