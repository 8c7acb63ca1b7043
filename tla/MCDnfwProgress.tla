--------------------------- MODULE MCDnfwProgress ---------------------------
(* DnfwProgress on an instance TLC can exhaust.                            *)
EXTENDS DnfwProgress
=============================================================================
