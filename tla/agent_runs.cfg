SPECIFICATION ProjectSpec
CONSTANTS
  l1 = l1
  Runs = {r1, r2, r3}
  Targets = {t1}
  Tests = {t1}
  Lineages = {l1}
  LineageOf <- OneLineage
  Editors = {e1}
  NoHolder = NoHolder
  Slots = 2
  MaxRestarts = 0
  here = here
  there = there
  req1 = req1
  req2 = req2
  mono = mono
  micro = micro
  Notes = {n1, n2}
  Scaffolders <- MCRequests
  MaxScaffoldCrashes = 1
  ProjNames = {shop}
  Dirs <- MCDirs
  Requests <- MCRequests
  MaxRuntimes = 2
  MaxServerRestarts = 1
  Sources <- MCSources
  Own = Own
  Deciders <- MCRequests
  MaxADRs = 2
SYMMETRY Symmetry
INVARIANTS
  ProjectTypeOK
  SlotsExact
  LockKept
  AnnouncedLast
  RunningTestIsInQa
  HandTextIsKept
  RegistryAgrees
  CommitHeals
PROPERTIES
  PeopleDirsSurvive
