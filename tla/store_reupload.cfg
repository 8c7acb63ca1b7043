\* What docs/waverider-store.md says a failed write costs.
CONSTANTS
  Slots = {s0, s1}
  Tables = {t1, t2}
  Names = {x}
  Free = Free
  None = None
  MaxGen = 2
  MaxChanges = 2
  CommitReadErrors = FALSE
SPECIFICATION Spec
SYMMETRY Symmetry
INVARIANT FailedWriteCostsOnlyItself
