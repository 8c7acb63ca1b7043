------------------------------ MODULE LoadSpec ------------------------------
(***************************************************************************)
(* What the table loader promises the pool's fill, with no queue, frames,  *)
(* answers or sequences: chunks 1, 2, ... come to their places in the load *)
(* area one at a time and in that order.  Nothing but the chunk that is    *)
(* next is written, and it counts as accepted only once a copy of it came  *)
(* whole.  Another copy of it that comes later may leave garbage, and the  *)
(* loader may stop.                                                        *)
(***************************************************************************)
EXTENDS Naturals

CONSTANTS Cells,    (* places in the load area                             *)
          Garbage   (* a chunk whose sum failed                            *)

VARIABLES asked,    (* chunks to load so far                               *)
          accepted, (* ... and those that have arrived                     *)
          stored,   (* [places -> the chunk there, 0 for none]             *)
          whole,    (* the chunks that came whole at least once            *)
          stopped   (* for good                                            *)

vars == <<asked, accepted, stored, whole, stopped>>

Place(n) == n % Cells
Puts(n, c) == stored' = [stored EXCEPT ![Place(n)] = c]
Writes(n)  == \/ Puts(n, n) /\ whole' = whole \union {n}
              \/ Puts(n, Garbage) /\ UNCHANGED whole
Pending    == accepted < asked /\ ~stopped

Init == /\ asked = 0 /\ accepted = 0 /\ ~stopped
        /\ whole = {} /\ stored = [x \in 0..Cells - 1 |-> 0]

Ask == /\ asked' = asked + 1
       /\ UNCHANGED <<accepted, stored, whole, stopped>>

Write == /\ Pending /\ Writes(accepted + 1)
         /\ UNCHANGED <<asked, accepted, stopped>>

(* The next chunk may follow in the same exchange.                         *)
Accept == /\ Pending /\ accepted + 1 \in whole
          /\ accepted' = accepted + 1
          /\ \/ UNCHANGED <<stored, whole>>
             \/ accepted' < asked /\ Writes(accepted' + 1)
          /\ UNCHANGED <<asked, stopped>>

Stop == /\ stopped' = TRUE
        /\ UNCHANGED <<asked, accepted, stored, whole>>

Next == Ask \/ Write \/ Accept \/ Stop

Spec == Init /\ [][Next]_vars
=============================================================================
