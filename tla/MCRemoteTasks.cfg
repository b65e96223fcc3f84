CONSTANTS
  t1 = t1
  t2 = t2
  t3 = t3
  c = c
  Tasks <- MCTasks
  Calls <- MCCalls
  Cap = 2
  MaxTurns = 1
  MaxTrouble = 1
SPECIFICATION MCSpec
CHECK_DEADLOCK FALSE
INVARIANTS
  AnswerKept
PROPERTIES
  AnswersLeave
