CONSTANTS
  a = a
  b = b
  Agent = {a, b}
  Orchestrator = {b}
  Slot = {1, 2, 3, 4}
  Limited = a
  Nobody = nobody
  Free = free
  MAX_AGENT_HOPS = 2
  MaxAsks = 1
  MaxExtras = 2
  MaxReal = 3
  MinuteWindow = 2
  HourWindow = 3
  MinuteLimit = 1
  HourLimit = 1
SPECIFICATION FairSpec
INVARIANTS
  DepthOnRecord
  OneAnswerAtHome
  CallsWithinLimits
PROPERTIES
  ExchangeEnds
CHECK_DEADLOCK FALSE
