CONSTANTS
  t1 = t1
  t2 = t2
  t3 = t3
  Task = {t1, t2, t3}
  Ghost = Ghost
  NoTask = NoTask
  Concurrency = 2
  Low = 1
SPECIFICATION Spec
SYMMETRY Symmetry
CHECK_DEADLOCK FALSE
INVARIANTS
  DependenciesHonoured
  NoIdleSlot
  FirstComeFirstServed
  OutcomeAnnounced
PROPERTIES
  ImplementsLifecycle
