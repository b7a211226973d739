SPECIFICATION FairMaintenanceSpec
CONSTANTS
  w1 = w1
  w2 = w2
  j1 = j1
  j2 = j2
  Workers = {w1, w2}
  Jobs = {j1, j2}
  NoWorker = NoWorker
  NoJob = NoJob
  Serves <- MCServes
  Priority <- MCPriority
  AttemptLimit = 2
  MaxAttempts <- MCMaxAttempts
  LeaseTime = 1
  BaseDelay = 1
  MaximumDelay = 2
  Skew = 0
PROPERTIES
  SweptQueueEnds
