SPECIFICATION LocksSpec
CONSTANTS
  l1 = l1
  Runs = {r1, r2}
  Targets = {t1, t2}
  Tests = {t1}
  Lineages = {l1}
  LineageOf <- OneLineage
  Editors = {e1}
  NoHolder = NoHolder
  Slots = 1
  MaxRestarts = 1
INVARIANTS
  RowsAccounted
PROPERTIES
  LocksComeFree
