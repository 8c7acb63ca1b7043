----------------------------- MODULE StoreSpec -----------------------------
(***************************************************************************)
(* What the Waverider store promises its writers, with neither groups nor  *)
(* sectors: one index, in which a write that was asked for changes one     *)
(* whole entry at one moment, or changes nothing.                          *)
(***************************************************************************)
CONSTANTS Slots,    (* the store slots                                     *)
          Entry,    (* what an entry in use can say                        *)
          Free,     (* a free entry                                        *)
          None      (* nothing asked                                       *)

VARIABLES index,    (* [Slots -> Entry or Free]: what a reader finds       *)
          asked     (* the write under way, <<slot, entry>>, or None       *)

vars == <<index, asked>>

Requests == Slots \X (Entry \union {Free})

Init == /\ index = [n \in Slots |-> Free]
        /\ asked = None

Ask == /\ asked = None
       /\ asked' \in Requests
       /\ UNCHANGED index

Apply == /\ asked \in Requests
         /\ index' = [index EXCEPT ![asked[1]] = asked[2]]
         /\ asked' = None

GiveUp == /\ asked # None
          /\ asked' = None
          /\ UNCHANGED index

Next == Ask \/ Apply \/ GiveUp

Spec == Init /\ [][Next]_vars
=============================================================================
