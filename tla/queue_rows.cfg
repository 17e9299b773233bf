SPECIFICATION Spec
CONSTANTS
  Jobs = {j1, j2, j3}
  Paths = {p}
  Clients = {c1, c2}
  Operators = {}
  NoJob = NoJob
  MaxAttempts = 2
  MaxRestarts = 1
SYMMETRY Symmetry
INVARIANTS
  SingleExecution
  DuplicatesAreRetries
  AttemptsBounded
PROPERTIES
  TerminalStaysTerminal
  ImplementsLifecycle
