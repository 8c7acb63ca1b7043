------------------------------ MODULE ListSpec ------------------------------
(***************************************************************************)
(* What the pool lists promise their writers, with no sectors and no       *)
(* records: a project has one list, replaced whole at one moment, and a    *)
(* version, raised by one each time and never repeated.  A writer that was *)
(* told its list is stored may rely on it; of one that was not, the list   *)
(* may be there or not.  A client swaps the list it read for another only  *)
(* if nobody stored one since, but for version 0, which is not compared.   *)
(***************************************************************************)
EXTENDS Naturals

CONSTANTS Projects, Clients,
          Lists,     (* what a list can be                                 *)
          NoList,    (* the list of a project that has none                *)
          None       (* nothing read                                       *)

VARIABLES stored,    (* [Projects -> [list, version]]: what a reader finds *)
          promised,  (* [Projects -> the list promised last and those      *)
                     (*  tried since]                                      *)
          held       (* [Clients -> the project and version read, or None] *)

vars == <<stored, promised, held>>

Init == /\ stored = [p \in Projects |-> [list |-> NoList, version |-> 0]]
        /\ promised = [p \in Projects |-> {NoList}]
        /\ held = [c \in Clients |-> None]

Store(p, l) ==
  stored' = [stored EXCEPT ![p] = [list |-> l, version |-> @.version + 1]]

(* A write that its writer is told is done is stored; another may be.      *)
Try(p, l, told) ==
  promised' = [promised EXCEPT ![p] = IF told THEN {l} ELSE @ \union {l}]
Land(p, l, told) == (~told /\ UNCHANGED stored) \/ Store(p, l)

(* One of the instrument's writers.                                        *)
Put(p, l) == \E told \in BOOLEAN :
               Try(p, l, told) /\ UNCHANGED held /\ Land(p, l, told)

Read(c, p) ==
  /\ UNCHANGED <<stored, promised>>
  /\ held' = [held EXCEPT ![c] = [project |-> p, version |-> stored[p].version]]

Swap(c, l) == /\ held[c] # None
              /\ held' = [held EXCEPT ![c] = None]
              /\ \E told \in BOOLEAN : /\ Try(held[c].project, l, told)
                                      /\ Land(held[c].project, l, told)
              /\ held[c].version \in {0, stored[held[c].project].version}

Refuse(c) == /\ held' = [held EXCEPT ![c] = None]
             /\ UNCHANGED <<stored, promised>>

Next == \/ \E p \in Projects, l \in Lists : Put(p, l)
        \/ \E c \in Clients : \/ \E p \in Projects : Read(c, p)
                              \/ \E l \in Lists : Swap(c, l)
                              \/ Refuse(c)

Spec == Init /\ [][Next]_vars
=============================================================================
