CONSTANTS
  Count = 2
  Pairs = 2
  Guard = 1
  Tables = {t1, t2}
  None = None
  Slots = {s1}
  s1 = s1
  t1 = t1
  t2 = t2
  Stored <- MCStored
  MaxChanges = 1
SPECIFICATION Spec
INVARIANT NeverHalfATable
