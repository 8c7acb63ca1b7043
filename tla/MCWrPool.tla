------------------------------ MODULE MCWrPool ------------------------------
(* WrPool on an instance TLC can exhaust.                                  *)
EXTENDS WrPool

CONSTANTS s1, t1, t2

(* The first slot's table is t1, any other's t2: any store is an upload or *)
(* two, and a renaming of the tables, away.                                *)
MCStored == [n \in Slots |-> IF n = s1 THEN t1 ELSE t2]
=============================================================================
