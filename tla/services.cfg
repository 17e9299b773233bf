SPECIFICATION ServicesSpec
CONSTANTS
  build = build
  deploy = deploy
  Pipelines <- MCPipelines
  DevClients = {c1}
  NSteps = 1
  Second <- MCSecond
  KeepRuns = 1
  MaxPipelineCrashes = 1
  Ideas = {i}
  Attempts = {1, 2, 3}
  MaxConcurrent = 1
  MaxIdeaEdits = 1
  MaxTriageCrashes = 1
INVARIANTS
  ServicesTypeOK
  EndedRunHasRecord
  LiveRunKeepsLog
  RawTextIsWrappedOnce
PROPERTIES
  OneAttemptAtATime
  RunsGetRecords
CHECK_DEADLOCK FALSE
