SPECIFICATION FairSpec
CONSTANTS
  Runs = {r1, r2}
  NoRun = NoRun
  Capacity = 2
  MaxEvents = 1
INVARIANTS
  VerdictIsOwn
  TransientComesFirst
PROPERTIES
  AwaitEnds
CHECK_DEADLOCK FALSE
