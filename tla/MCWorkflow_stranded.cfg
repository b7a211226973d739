SPECIFICATION FairSpec
CONSTANTS
  w1 = w1
  w2 = w2
  Workers = {w1}
  Last = 2
  NoView = NoView
  MaxExecutions = 1
  MaxTroubles = 1
  MaxWaiting = 1
PROPERTIES
  Resumes
CHECK_DEADLOCK FALSE
