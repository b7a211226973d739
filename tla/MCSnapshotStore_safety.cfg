SPECIFICATION Spec
CONSTANTS
  p1 = p1
  p2 = p2
  t1 = t1
  t2 = t2
  Processes = {p1, p2}
  Trees = {t1, t2}
  NoTree = NoTree
  NoKey = NoKey
  MaxRegistrations = 3
  MaxKills = 1
  MaxPowerLosses = 1
  MaxDamages = 1
INVARIANTS
  TypeOK
  RegisteredIsWhole
  RegistrationUndisturbed
  EvidenceIsTrue
PROPERTIES
  PublishedIsKept
  KeepsSnapshotLedger
