CONSTANTS
  w1 = w1
  w2 = w2
  t1 = t1
  t2 = t2
  Task = {t1, t2}
  Writer = {w1, w2}
  MaxIterations = 2
  MaxLines = 4
  MaxTears = 1
SPECIFICATION Spec
SYMMETRY Symmetry
CHECK_DEADLOCK FALSE
INVARIANTS
  DoneWasVerified
  ExhaustionStops
  TearCostsAtMostTwo
