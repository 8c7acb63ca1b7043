\* Writers that found no record, or send back the generation 0 they read.
CONSTANTS
  Others = {p1}
  Working = w
  Clients = {c1, c2}
  Slots = {0}
  PoolEntries = 1
  Empty = Empty
  None = None
  MaxGen = 3
  MaxFailed = 1
  ReadErrors = FALSE
SPECIFICATION Spec
SYMMETRY Symmetry

PROPERTIES TwoWritersKeepEdits
