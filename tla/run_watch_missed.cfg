SPECIFICATION FairSpec
CONSTANTS
  Runs = {r1}
  NoRun = NoRun
  Capacity = 8
  MaxEvents = 0
PROPERTIES
  BlocksUntilRunFinishes
CHECK_DEADLOCK FALSE
