SPECIFICATION Spec
CONSTANTS
  p1 = p1
  p2 = p2
  t1 = t1
  t2 = t2
  Processes = {p1}
  Trees = {t1}
  NoTree = NoTree
  NoKey = NoKey
  MaxRegistrations = 2
  MaxKills = 0
  MaxPowerLosses = 0
  MaxDamages = 0
INVARIANTS
  StartReconciles
