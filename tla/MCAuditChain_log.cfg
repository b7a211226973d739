SPECIFICATION FairSpec
CONSTANTS
  s1 = s1
  s2 = s2
  w1 = w1
  w2 = w2
  Streams = {s1, s2}
  Writers = {w1, w2}
  MaxEvents = 5
CHECK_DEADLOCK FALSE
INVARIANTS
  TypeOK
  ChainVerifies
  OneAppender
PROPERTIES
  KeepsAuditLog
  TransactionsEnd
