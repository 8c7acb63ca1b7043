----------------------------- MODULE MCWrStore -----------------------------
(* WrStore on an instance TLC can exhaust: two slots, two tables.          *)
EXTENDS WrStore, TLC

Symmetry == Permutations(Slots) \union Permutations(Tables)
              \union Permutations(Names)
=============================================================================
