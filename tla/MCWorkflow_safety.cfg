SPECIFICATION Spec
CONSTANTS
  w1 = w1
  w2 = w2
  Workers = {w1, w2}
  Last = 2
  NoView = NoView
  MaxExecutions = 2
  MaxTroubles = 1
  MaxWaiting = 1
SYMMETRY MCSymmetry
INVARIANTS
  TypeOK
  EngineQueuesOnce
  CompletedIsIntegrated
PROPERTIES
  KeepsLifecycle
CHECK_DEADLOCK FALSE
