CONSTANTS
  Count = 2
  Pairs = 2
  Guard = 1
  Tables = {t1, t2}
  None = None
  Slots = {s1, s2}
  s1 = s1
  t1 = t1
  t2 = t2
  Stored <- MCStored
  MaxChanges = 2
SPECIFICATION FairSpec
INVARIANTS TypeOK BuiltAsLoaded
PROPERTIES KeepsContract Converges
