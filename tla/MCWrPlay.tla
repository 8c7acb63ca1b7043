------------------------------ MODULE MCWrPlay ------------------------------
(* WrPlay on an instance TLC can exhaust.                                  *)
EXTENDS WrPlay

CONSTANTS s1, t1, t2

(* As in MCWrPool: the first slot's table is t1, any other's t2.           *)
MCStored == [n \in Slots |-> IF n = s1 THEN t1 ELSE t2]
=============================================================================
