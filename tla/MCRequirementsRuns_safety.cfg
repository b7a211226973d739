SPECIFICATION RunsSpec
CONSTANTS
  w1 = w1
  w2 = w2
  j1 = j1
  j2 = j2
  Workers = {w1, w2}
  Jobs = {j1}
  NoWorker = NoWorker
  NoJob = NoJob
  Original = Original
  Serves <- MCServes
  Priority <- MCPriority
  AttemptLimit = 3
  MaxAttempts <- MCMaxAttempts
  LeaseTime = 1
  BaseDelay = 1
  MaximumDelay = 1
  Skew = 0
SYMMETRY MCSymmetry
INVARIANTS
  RunsTypeOK
  ActiveCycleHasLiveJob
  SuccessHasResult
  ReportedDeathFailsWorkflow
