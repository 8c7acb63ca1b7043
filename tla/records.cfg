\* A client of /wavepool beside the wavetable page, SAVE, LOAD and CREATE
\* NEW, and the pool filled from the lists: two store slots, so that order
\* and a full pool occur.
CONSTANTS
  Others = {p1}
  Working = w
  Clients = {c1}
  Slots = {0, 1}
  PoolEntries = 1
  Empty = Empty
  None = None
  MaxGen = 3
  MaxFailed = 1
  ReadErrors = FALSE
SPECIFICATION Spec
INVARIANTS TypeOK PoolUpToDate ViewInv
PROPERTIES KeepsOneList NeverWritesCurrentSector NoLostEdit
