CONSTANTS
  a = a
  Messages = 2
  Member <- MCMember
  To <- MCTo
  MaxTurns = 2
  MaxTrouble = 1
SPECIFICATION MCSpec
CHECK_DEADLOCK FALSE
INVARIANTS
  ToldIsTrue
  WaitedInOrder
PROPERTIES
  WaitingLeaves
