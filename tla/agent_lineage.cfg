SPECIFICATION Spec
CONSTANTS
  l1 = l1
  Runs = {r1, r2}
  Targets = {t1}
  Tests = {t1}
  Lineages = {l1}
  LineageOf <- OneLineage
  Editors = {}
  NoHolder = NoHolder
  Slots = 2
  MaxRestarts = 0
INVARIANTS
  LineageExclusive
CHECK_DEADLOCK FALSE
