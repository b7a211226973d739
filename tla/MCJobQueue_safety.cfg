SPECIFICATION Spec
CONSTANTS
  w1 = w1
  w2 = w2
  j1 = j1
  j2 = j2
  Workers = {w1, w2}
  Jobs = {j1}
  NoWorker = NoWorker
  NoJob = NoJob
  Serves <- MCServes
  Priority <- MCPriority
  AttemptLimit = 3
  MaxAttempts <- MCMaxAttempts
  LeaseTime = 2
  BaseDelay = 1
  MaximumDelay = 2
  Skew = 1
INVARIANTS
  TypeOK
  LeaseMatchesAttempt
  NoLimbo
  DeadLetterHasCause
PROPERTIES
  KeepsLedger
  LeaseTakenOnlyWhenExpired
  SuccessComesFromHolder
