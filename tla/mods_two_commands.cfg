SPECIFICATION Spec
CONSTANTS
  Mod = {"fxmod", "layermidi", "midiarp"}
  Def <- MCDef
  Addr = {0, 1, 2, 3, 4, 5, 6, 7, 8, 9, 10, 11, 12, 13, 14, 15}
  Ram = {1, 2, 3, 4, 5}
  Count = {"PARM", "MACH"}
  Bounds <- MCBounds
  Event = {"PSLT"}
  Hook <- MCHook
  Table = {0, 1, 12}
  Refused = {{"layermidi", "midiarp"}}
  TableSlots = 8
  MaxChosen = 3
INVARIANTS NeverBuilt
