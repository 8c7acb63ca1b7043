SPECIFICATION Spec
CONSTANTS
  Mod = {"waverider", "lfo4", "lfowaves", "fxmod", "moddest", "other"}
  Def <- MCDef
  Addr = {0, 1, 2, 3, 4, 5, 6, 7, 8, 9, 10, 11, 12, 13}
  Ram = {1, 2, 3}
  Count = {"PARM", "MACH"}
  Bounds <- MCBounds
  Event = {"PSLT"}
  Hook <- MCHook
  Table = {0, 1, 12}
  Refused = {}
  TableSlots = 8
  MaxChosen = 3
INVARIANTS TypeOK EditsInEffect BusInEffect SplitAgain OrderIrrelevant
