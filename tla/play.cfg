\* The fill, the builder and a voice together: one change or error of the
\* drive, after a first fill or during it.
CONSTANTS
  Count = 2
  Pairs = 2
  Guard = 3
  Fade = 2
  Tables = {t1, t2}
  None = None
  Prim = Prim
  Slots = {s1, s2}
  s1 = s1
  t1 = t1
  t2 = t2
  Stored <- MCStored
  MaxChanges = 1
SPECIFICATION PlaySpec
INVARIANTS VoicesTypeOK RegionsApart PromptFadesIntact HeardIsRight
