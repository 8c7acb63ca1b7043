------------------------------- MODULE WrPlay -------------------------------
(***************************************************************************)
(* The pool as it plays: the ColdFire's fill (WrPool), the DSP's builder   *)
(* (WrBuild) and a voice (WrVoices), as they run together.  The builder is *)
(* one and the same in the two: the fill writes what it reads, through the *)
(* load command, and the voice reads what it names.                        *)
(***************************************************************************)
EXTENDS WrPool, WrVoices

playVars == <<vars, voice, dropped>>

PlayInit == Init /\ VoicesInit

(* The ColdFire's passes and the load command touch nothing of a voice,    *)
(* and the DSP's idle loop and its blocks nothing of the ColdFire.         *)
PlayNext ==
  \/ (Pass \/ Arrives \/ ReadError \/ Fails \/ Change) /\ UNCHANGED <<voice, dropped>>
  \/ (Builds \/ Play) /\ UNCHANGED <<drive, fill, load, part>>

PlaySpec == PlayInit /\ [][PlayNext]_playVars

-----------------------------------------------------------------------------
(* Once the fill has settled, a voice on slot e hears the table that the   *)
(* list and the store have there, all of it, or a baked one if there is    *)
(* none (pool.asm's lookup over pool.c's fill).                            *)
Settled == state = "ready" /\ ~stale /\ ~lost /\ seen /\ j = Count
HeardIsRight ==
  Settled => \A e \in Regions :
    IF e \in Entries /\ list[e] # None
    THEN Lookup(e) \in Regions /\ \A p \in Part : levels[Lookup(e)][p] = store[list[e]]
    ELSE Lookup(e) = Prim
=============================================================================
