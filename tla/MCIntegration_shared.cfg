SPECIFICATION FairSpec
CONSTANTS
  p1 = p1
  a1 = a1
  a2 = a2
  f1 = f1
  Patches = {p1}
  Attempts = {a1, a2}
  Foreign = {f1}
  Root = Root
  NoCommit = NoCommit
  NoPatch = NoPatch
  NoReading = NoReading
INVARIANTS
  LandsOnce
  PushIsAnnounced
  EvidenceIsTrue
  LandsOnApprovedBase
PROPERTIES
  KeepsPatchLedger
  NothingLandsAfterOutcome
  Settles
