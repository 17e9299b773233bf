SPECIFICATION FairSpec
CONSTANTS
  Jobs = {j1, j2, j3}
  Paths = {p}
  Clients = {c1}
  Operators = {c1}
  NoJob = NoJob
  MaxAttempts = 2
  MaxRestarts = 0
PROPERTIES
  RateLimitPauseHolds
  PendingIsServed
