----------------------------- MODULE MCDnfwMods -----------------------------
(* The registry in small: the mods that share bytes, and what they share.  *)
EXTENDS DnfwMods

None == [edits |-> {}, site |-> {}, guards |-> {}, platform |-> FALSE, reads |-> FALSE,
         writes |-> FALSE, onTable |-> FALSE, copies |-> FALSE, code |-> {}, ram |-> {},
         subs |-> {}, adds |-> [c \in {"PARM", "MACH"} |-> 0]]
Plat == [None EXCEPT !.platform = TRUE]
Sub(o, h) == [event |-> "PSLT", order |-> o, handler |-> h]

MCBounds == [c \in {"PARM", "MACH"} |-> IF c = "PARM" THEN {2, 3, 4} ELSE {5, 6}]
MCHook   == [e \in {"PSLT"} |-> 7]
MCDef == [m \in Mod |->
  CASE m = "waverider" ->  (* its group getter's hook holds a PARM bound *)
         [Plat EXCEPT !.edits = {{9}}, !.site = {3, 8}, !.code = {1}, !.ram = {1},
                      !.subs = {Sub(50, 2)}, !.adds["MACH"] = 1]
    [] m = "lfo4" ->       (* its LOAD hook holds a MACH bound; 11 is in a hook of lfowaves *)
         [Plat EXCEPT !.edits = {{11}}, !.site = {6, 10}, !.code = {2}, !.ram = {2},
                      !.writes = TRUE, !.copies = TRUE, !.adds["PARM"] = 11]
    [] m = "lfowaves" ->   (* getShortName's hook, and a record *)
         [Plat EXCEPT !.edits = {{0}}, !.site = {4, 11}, !.onTable = TRUE, !.code = {3}, !.ram = {3}]
    [] m = "fxmod" ->      (* a record, and a guard in Waverider's hook *)
         [Plat EXCEPT !.edits = {{1}}, !.guards = {8}, !.reads = TRUE, !.onTable = TRUE,
                      !.subs = {Sub(50, 1)}]
    [] m = "moddest" ->    (* not on the platform: a record *)
         [None EXCEPT !.edits = {{12}}, !.onTable = TRUE]
    [] m = "layermidi" -> [Plat EXCEPT !.edits = {{13}}, !.code = {4}, !.ram = {4}]
    [] m = "midiarp"   -> [Plat EXCEPT !.edits = {{14}}, !.code = {5}, !.ram = {5}]
    [] m = "other"     ->  (* not in the registry: bytes and RAM of others *)
         [Plat EXCEPT !.edits = {{2, 13}}, !.code = {1}, !.ram = {1}]]
=============================================================================
