----------------------------- MODULE MCWrLoader -----------------------------
(* WrLoader on an instance TLC can exhaust.                                *)
EXTENDS WrLoader
=============================================================================
