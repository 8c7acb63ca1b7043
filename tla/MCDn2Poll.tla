----------------------------- MODULE MCDn2Poll -----------------------------
(* Dn2Poll on an instance TLC can exhaust: one watch of two spans.         *)
EXTENDS Dn2Poll

MCSpans == [w \in Watch |-> 2]
=============================================================================
