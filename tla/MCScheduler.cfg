CONSTANTS
  a = a
  b = b
  daily = daily
  hourly = hourly
  Id <- MCId
  Content <- MCContent
  Heartbeat = heartbeat
  MaxChanges = 3
  MaxStops = 2
SPECIFICATION SchedulerSpec
CHECK_DEADLOCK FALSE
INVARIANTS
  FileFollows
  RestartKeeps
