CONSTANTS
  MaxProcs = 2
  c1 = c1
  c2 = c2
  Call = {c1, c2}
  MaxStarts = 2
SPECIFICATION FairSpec
CHECK_DEADLOCK FALSE
INVARIANTS
  EngineOnRecordInOrder
  AnsweredByAskedInOrder
  DirectoryStaysGoneInOrder
PROPERTIES
  CallSettles
