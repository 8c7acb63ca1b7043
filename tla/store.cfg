\* Failed and torn writes, losses of power; the reads of a commit succeed.
CONSTANTS
  Slots = {s0, s1}
  Tables = {t1, t2}
  Names = {x, y}
  Free = Free
  None = None
  MaxGen = 3
  MaxChanges = 3
  CommitReadErrors = FALSE
SPECIFICATION Spec
SYMMETRY Symmetry
INVARIANTS TypeOK Durable TablesIntact IInv
PROPERTIES NeverWritesCurrent CommitsAtomically
