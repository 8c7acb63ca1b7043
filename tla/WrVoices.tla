----------------------------- MODULE WrVoices ------------------------------
(***************************************************************************)
(* A voice over the pool while its levels are built: the table lookup      *)
(* (csrc/waverider/sharc/pool.asm, machine9_live.asm) and DCLK, the        *)
(* crossfade at a jump (dclk.asm), beside the builder (WrBuild).           *)
(*                                                                         *)
(* One oscillator of one voice: voices only read what the builder names,   *)
(* so one is as good as any.  A block is rendered in one step, at which    *)
(* the builder, in the idle time, stands still.                            *)
(*                                                                         *)
(* Abstractions: POS and gain are whether they jump; a fade's length is a  *)
(* number of blocks; Prim stands for every baked table.                    *)
(***************************************************************************)
EXTENDS WrBuild

CONSTANTS Fade,   (* DCLK's longest fade in blocks, 150                    *)
          Prim    (* a baked table                                         *)

ASSUME VoicesAssumption ==
  Fade \in Nat \ {0} /\ Fade < Guard /\ Prim \notin Nat /\ Prim # None

VARIABLES
  last,     (* the last block's table; None: no last block (valid)         *)
  old,      (* the fade's old table                                        *)
  left,     (* blocks of the fade left                                     *)
  reads,    (* history: the tables the last block read                     *)
  named,    (* history: the regions named at the last block                *)
  late,     (* history: the fade is out of a table no longer named at the  *)
            (* block before it, or it has been interrupted                 *)
  dropped   (* history: regions whose entry was emptied since it was named *)

voice == <<last, old, left, reads, named, late>>
voicesVars == <<buildVars, voice, dropped>>

Named == {built[e] : e \in Entries} \ {None}

(* Slot j of the pool plays what is named there, or Prim; so does a slot   *)
(* past the pool's.                                                        *)
Lookup(e) == IF e \in Entries /\ built[e] # None THEN built[e] ELSE Prim

-----------------------------------------------------------------------------
(* A note on this voice, or DCLK Off: no fade.                             *)
Cut(new) ==
  /\ last' = new /\ left' = 0
  /\ reads' = {new}
  /\ UNCHANGED <<old, late>>

(* No last block to compare with, or no jump.                              *)
Steady(new) ==
  /\ last = None \/ (left = 0 /\ new = last)
  /\ last' = new
  /\ reads' = {new}
  /\ UNCHANGED <<old, left, late>>

(* A fade runs: a jump waits for its end, and the new side holds the       *)
(* fade's target meanwhile.                                                *)
Hold(new) ==
  /\ last # None /\ left > 0
  /\ left' = left - 1
  /\ reads' = {last, old}
  /\ UNCHANGED <<last, old, late>>

(* Another table, or a jump of POS or gain in the same one: the last       *)
(* block's table fades out, for `blocks'.                                  *)
Jump_Whole(new, blocks) ==      (* mutant: the first block is not counted *)
  /\ last # None /\ left = 0
  /\ old' = last /\ last' = new
  /\ left' = blocks
  /\ reads' = {new, last}
  /\ late' = (last \notin named \union {Prim})

Jump(new, blocks) ==
  /\ last # None /\ left = 0
  /\ old' = last /\ last' = new
  /\ left' = blocks - 1
  /\ reads' = {new, last}
  /\ late' = (last \notin named \union {Prim})

(* Oscillator 2 is not run at level 0: its state stays as it was.          *)
NotRun ==
  /\ reads' = {}
  /\ late' = (late \/ left > 0)
  /\ UNCHANGED <<last, old, left>>

Play ==
  /\ Block
  /\ \/ NotRun
     \/ \E new \in {Lookup(e) : e \in Regions} :
          Cut(new) \/ Steady(new) \/ Hold(new) \/ \E blocks \in 1..Fade : Jump(new, blocks)
  /\ named' = Named
  /\ UNCHANGED dropped

(* A build step names a region, and drops the one of an emptied entry.     *)
Builds ==
  /\ Build
  /\ dropped' = {r \in dropped : \A e \in Entries : built'[e] # r}
                  \union {r \in Named : \E e \in Entries :
                            built[e] = r /\ region'[e] = r /\ built'[e] = None}
  /\ UNCHANGED voice

-----------------------------------------------------------------------------
VoicesInit ==
  /\ BuildInit
  /\ last = None /\ old = Prim /\ left = 0
  /\ reads = {} /\ named = {} /\ late = FALSE /\ dropped = {}

VoicesNext ==
  \/ LoadCommand /\ UNCHANGED <<voice, dropped>>
  \/ Builds
  \/ Play

VoicesSpec == VoicesInit /\ [][VoicesNext]_voicesVars

-----------------------------------------------------------------------------
VoicesTypeOK ==
  /\ BuildTypeOK
  /\ last \in Regions \union {Prim, None} /\ old \in Regions \union {Prim}
  /\ left \in 0..Fade - 1
  /\ reads \subseteq Regions \union {Prim} /\ named \subseteq Regions
  /\ late \in BOOLEAN /\ dropped \subseteq Regions

-----------------------------------------------------------------------------
(* The builder is at work on the spare, from the first pair's copy to the  *)
(* swap.                                                                   *)
Building == busy \/ f > 0

(* The guard of 160 blocks does what it is for: a voice whose table is     *)
(* swapped under it reads levels that stay whole until its fade ends, be   *)
(* it the table it fades out of or the one it holds.  It covers neither a  *)
(* fade that starts later than the block after the swap, or stands still,  *)
(* nor an entry emptied and filled again within a fade.                    *)
PromptFadesIntact == Building /\ spare \in reads => late \/ spare \in dropped
=============================================================================
