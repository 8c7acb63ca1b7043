---------------------------- MODULE MCWrRecords ----------------------------
(* WrRecords on an instance TLC can exhaust: two projects, two clients.    *)
EXTENDS WrRecords, TLC

Symmetry == Permutations(Clients)
=============================================================================
