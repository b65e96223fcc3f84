CONSTANTS
  Chunks = 2
  Tries = 2
  MaxAccepts = 2
  MaxTrouble = 3
SPECIFICATION MCSpec
CHECK_DEADLOCK FALSE
INVARIANTS
  SentMeansSaved
  SavedWholeOnce
  NoTokenAfterTheEnd
PROPERTIES
  Settles
