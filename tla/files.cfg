SPECIFICATION FilesSpec
CONSTANTS
  NNames = 2
  NSlugs = 2
  Slugify <- MCSlugify
  Emoji = {}
  Versions = {1}
  RelClients = {c1}
  Handlers = {h1}
  MaxId = 2
  MaxRequests = 1
  MaxEdits = 1
  MaxRestarts = 1
  Paths = {p, q}
  Nested = {q}
  MaxWrites = 3
  Artifacts = {"p", "q", "p-2"}
  IndexOf <- MCIndexOf
  Parent <- MCParent
  FileClients = {c1, c2}
  Watchers = {w1}
  Roles = {"reviewer"}
  Transitions <- MCTransitions
  EditStatuses = {"draft"}
  EditKinds = {"artifact", "release", "bare"}
  MaxRevs = 2
  MaxSteps = 2
  MaxCrashes = 1
INVARIANTS
  FilesTypeOK
  RowsWereOnDisk
  WaitGroupExact
  RowsFollowFiles
PROPERTIES
  LoadLeavesNoGhost
  TransitionsFromGrantedStatus
  ChangeIsHandled
CHECK_DEADLOCK FALSE
