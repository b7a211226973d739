SPECIFICATION Spec
CONSTANTS
  a1 = a1
  a2 = a2
  f1 = f1
  Attempts = {a1, a2}
  Foreign = {f1}
  Restoring = {f1}
  Target = Target
  NoCommit = NoCommit
  Redelivered = {a1}
  MaxRuns = 2
INVARIANTS
  TypeOK
  LandsOnApprovedHead
  FailureIsCertain
  RecoveredIsTrue
  UncertainHasCommit
PROPERTIES
  KeepsRollbackLedger
CHECK_DEADLOCK FALSE
