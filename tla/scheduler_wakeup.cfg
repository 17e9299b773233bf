SPECIFICATION SchSpec
CONSTANTS
  NJobs = 1
  NCallers = 1
  MaxWorkers = 1
  MaxExecs = 2
  MaxTime = 2
  MaxChanges = 0
  Retention = 1
  Kind <- MCKind
  Period = 1
  At = 2
  Priority <- MCPriority
  After <- MCAfter
INVARIANT
  FreeSlotIsOffered
CHECK_DEADLOCK FALSE
