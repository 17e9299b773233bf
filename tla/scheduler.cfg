SPECIFICATION OneJobSpec
CONSTANTS
  NJobs = 1
  NCallers = 1
  MaxWorkers = 1
  MaxExecs = 2
  MaxTime = 2
  MaxChanges = 1
  Retention = 1
  Kind <- MCKind
  Period = 1
  At = 2
  Priority <- MCPriority
  After <- MCAfter
INVARIANTS
  SchTypeOK
  SlotsAccounted
  RunningMarkIsBacked
  TickQueuesOnce
  RunningRowsAreLive
PROPERTY
  RunsEnd
CHECK_DEADLOCK FALSE
