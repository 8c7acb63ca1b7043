---------------------------- MODULE WrPlayProofs ----------------------------
(***************************************************************************)
(* Proofs about voices over the pool (WrVoices), and about the pool as it  *)
(* plays (WrPlay).                                                         *)
(*                                                                         *)
(* Why the guard is enough, for a fade that starts in time: the spare can  *)
(* be a table such a fade reads only since the swap that was last recorded *)
(* (Tracked, Prompt), so the fade's blocks and the guard's are counted     *)
(* from the same block, and what is left of the fade and the age of the    *)
(* swap stay together within Fade < Guard (Within).                        *)
(*                                                                         *)
(* The composition adds no proof of its own about blocks and levels: each  *)
(* of its steps is a step of WrPool's and one of WrVoices', so that it     *)
(* inherits the invariants of both.                                        *)
(***************************************************************************)
EXTENDS WrPlay, WrPoolProofs

(* A region a voice has to do with is named, the spare, or was dropped.    *)
Tracked == \A r \in Regions : r \in reads \union named \union {last, old} =>
             r \in Named \union dropped \union {spare}

(* A fade runs only after a block, and reads its two tables at each.       *)
Faded ==
  /\ last = None => left = 0
  /\ left > 0 /\ ~late => reads = {last, old}

(* Of the last block's tables only the one just swapped is the spare.      *)
Prompt == spare \in named /\ spare \notin dropped => age = 0

(* What is left of a fade out of the spare, or into it, ends in time.      *)
Within == ~late /\ spare \in reads /\ spare \notin dropped => age + left <= Fade

(* The first pair of a table waits for the guard.                          *)
Guarded == Building => age = Guard

VInv == VoicesTypeOK /\ BInv /\ Tracked /\ Faded /\ Prompt /\ Within /\ Guarded

USE BuildAssumption, VoicesAssumption

(* A voice's first state satisfies the invariant.                          *)
LEMMA VoicesInitInv == VoicesInit => VInv
<1> SUFFICES ASSUME VoicesInit PROVE VInv
  OBVIOUS
<1>1. BInv BY BuildInitInv DEF VoicesInit
<1>2. VoicesTypeOK
  <2>1. last = None /\ old = Prim /\ left = 0 /\ reads = {} /\ named = {} /\ late = FALSE /\ dropped = {}
    BY DEF VoicesInit
  <2>2. late \in BOOLEAN BY <2>1
  <2>3. left \in 0..Fade - 1 BY <2>1
  <2> QED BY <1>1, <2>1, <2>2, <2>3 DEF VoicesTypeOK, BInv
<1>3. Tracked /\ Faded /\ Prompt /\ Within
  BY DEF VoicesInit, Tracked, Faded, Prompt, Within, Regions
<1>4. Guarded
  BY DEF VoicesInit, BuildInit, Guarded, Building
<1> QED BY <1>1, <1>2, <1>3, <1>4 DEF VInv

(* The ColdFire touches no level, and nothing of a voice.                  *)
LEMMA VoicesLoad == VInv /\ LoadCommand /\ UNCHANGED <<voice, dropped>> => VInv'
<1> SUFFICES ASSUME VInv, LoadCommand, UNCHANGED <<voice, dropped>> PROVE VInv'
  OBVIOUS
<1>1. BInv' BY LoadCommandInv DEF VInv
<1>2. UNCHANGED <<busy, f, spare, built, age, last, old, left, reads, named, late, dropped>>
  BY DEF LoadCommand, PutMagic, PutPair, PutDirectory, builder, voice
<1>3. VoicesTypeOK' BY <1>1, <1>2 DEF VInv, VoicesTypeOK, BInv
<1>4. Tracked' BY <1>2 DEF VInv, Tracked, Named
<1>5. (Faded /\ Prompt /\ Within /\ Guarded)'
  BY <1>2 DEF VInv, Faded, Prompt, Within, Guarded, Building
<1> QED BY <1>1, <1>3, <1>4, <1>5 DEF VInv

-----------------------------------------------------------------------------
(* The spare is not named.                                                 *)
LEMMA SpareUnnamed == BInv => spare \notin Named /\ Named \subseteq Regions
BY DEF BInv, BuildTypeOK, RegionsApart, Named, Regions

(* A region stays dropped until it is named.                               *)
LEMMA DroppedStay ==
  ASSUME Builds, NEW r \in Regions, r \in dropped, r \notin Named'
  PROVE  r \in dropped'
BY DEF Builds, Named, Regions

(* An emptied entry's region is dropped.                                   *)
LEMMA SkipTracked == VInv /\ Builds /\ Skip => Tracked' /\ spare' = spare /\ age' = age
<1> SUFFICES ASSUME VInv, Builds, Skip PROVE Tracked' /\ spare' = spare /\ age' = age
  OBVIOUS
<1>0. EntryNow \in Entries /\ UNCHANGED <<region, spare, age, reads, named, last, old>>
  BY Finds DEF Skip, VInv, Builds, voice
<1>1. ASSUME NEW r \in Regions, r \in Named PROVE r \in Named' \union dropped'
  <2>1. PICK e \in Entries : built[e] = r BY <1>1 DEF Named
  <2>2. region[e] = r /\ r # None
    BY <2>1 DEF VInv, BInv, RegionsApart, Regions
  <2>3. CASE e = EntryNow
    <3>1. built'[e] = None BY <1>0, <2>3 DEF Skip, VInv, BInv, BuildTypeOK
    <3> QED BY <1>0, <1>1, <2>1, <2>2, <3>1 DEF Builds
  <2>4. CASE e # EntryNow
    BY <2>1, <2>2, <2>4 DEF Skip, VInv, BInv, BuildTypeOK, Named
  <2> QED BY <2>3, <2>4
<1>2. Tracked'
  BY <1>0, <1>1, DroppedStay DEF VInv, Tracked
<1> QED BY <1>0, <1>2

(* A swap names the spare; the region given up is the spare.               *)
LEMMA SwapTracked ==
  ASSUME VInv, Builds, Finish, ~(f + 1 < Pairs)
  PROVE  /\ Tracked'
         /\ age' # 0 => \A r \in Regions : r = spare' /\ r \in reads \union named => r \in dropped'
<1>0. /\ j \in Entries /\ UNCHANGED <<reads, named, last, old>>
      /\ \A e \in Entries : e # j => built'[e] = built[e]
      /\ built'[j] = spare /\ spare' = region[j] /\ spare \in Regions
  BY DEF Builds, voice, Finish, Swap, VInv, BInv, Copied, BuildTypeOK, Entries
<1>1. spare \in Named'
  BY <1>0 DEF Named, Regions
<1>2. ASSUME NEW r \in Regions, r \in Named PROVE r \in Named' \union {spare'}
  <2>1. PICK e \in Entries : built[e] = r BY <1>2 DEF Named
  <2>2. region[e] = r /\ r # None
    BY <2>1 DEF VInv, BInv, RegionsApart, Regions
  <2> QED BY <1>0, <2>1, <2>2 DEF Named
<1>3. Tracked'
  BY <1>0, <1>1, <1>2, DroppedStay DEF VInv, Tracked
<1>4. ASSUME age' # 0, spare' \in reads \union named PROVE spare' \in dropped'
  <2>1. built[j] = None
    BY <1>4 DEF Finish, Swap
  <2>2. spare' \in Regions /\ spare' # spare
    BY <1>0 DEF VInv, BInv, BuildTypeOK, RegionsApart
  <2>3. spare' \notin Named
    <3> SUFFICES ASSUME NEW e \in Entries, built[e] = spare', spare' # None PROVE FALSE
      BY DEF Named
    <3>1. region[e] = region[j] BY <1>0 DEF VInv, BInv, RegionsApart
    <3> QED BY <1>0, <2>1, <3>1 DEF VInv, BInv, RegionsApart
  <2>4. spare' \in dropped BY <1>4, <2>2, <2>3 DEF VInv, Tracked
  <2>5. spare' \notin Named'
    <3>1. BInv' BY FinishInv DEF VInv
    <3> QED BY <3>1, SpareUnnamed DEF BInv, BuildTypeOK, RegionsApart, Named
  <2> QED BY <2>2, <2>4, <2>5, DroppedStay
<1> QED BY <1>3, <1>4

(* A step of the builder.                                                  *)
LEMMA VoicesBuilds == VInv /\ Builds => VInv'
<1> SUFFICES ASSUME VInv, Builds PROVE VInv'
  OBVIOUS
<1>0. UNCHANGED <<last, old, left, reads, named, late>> /\ Build
  BY DEF Builds, voice
<1>1. BInv' BY <1>0, SkipInv, WaitInv, StartInv, FinishInv DEF VInv, Build
<1>2. VoicesTypeOK'
  <2>1. dropped' \subseteq Regions
    BY SpareUnnamed DEF Builds, VInv, VoicesTypeOK
  <2> QED BY <1>0, <1>1, <2>1 DEF VInv, VoicesTypeOK, BInv
<1>3. Faded' BY <1>0 DEF VInv, Faded
<1>4. spare' \notin Named'
  BY <1>1 DEF BInv, BuildTypeOK, RegionsApart, Named
<1>5. spare' = spare /\ age' = age /\ Tracked' => (Prompt /\ Within)'
  BY <1>0, <1>1, <1>4, DroppedStay DEF VInv, BInv, BuildTypeOK, Prompt, Within
<1>6. CASE Skip
  <2>1. Guarded' BY <1>6 DEF Skip, Called, Guarded, Building
  <2> QED BY <1>1, <1>2, <1>3, <1>5, <1>6, <2>1, SkipTracked DEF VInv
<1>7. CASE Wait \/ Start \/ (Finish /\ f + 1 < Pairs)
  <2>1. UNCHANGED <<region, spare, built, age>>
    BY <1>7 DEF Wait, Start, Finish
  <2>2. Tracked'
    BY <1>0, <2>1, DroppedStay DEF VInv, Tracked, Named
  <2>3. Guarded'
    <3>1. CASE Wait BY <3>1 DEF Wait, Called, Guarded, Building
    <3>2. CASE Start
      <4>1. DoneNow = 0 => age = Guard
        BY <3>2 DEF Start, MayStart, VInv, BInv, BuildTypeOK
      <4>2. DoneNow # 0 => f > 0
        BY DEF DoneNow, VInv, BInv, BuildTypeOK
      <4> QED BY <2>1, <4>1, <4>2 DEF VInv, Guarded, Building
    <3>3. CASE Finish /\ f + 1 < Pairs
      BY <2>1, <3>3 DEF Finish, VInv, Guarded, Building
    <3> QED BY <1>7, <3>1, <3>2, <3>3
  <2> QED BY <1>1, <1>2, <1>3, <1>5, <2>1, <2>2, <2>3 DEF VInv
<1>8. CASE Finish /\ ~(f + 1 < Pairs)
  <2>1. Guarded' BY <1>8 DEF Finish, Swap, Guarded, Building
  <2>2. Tracked' BY <1>8, SwapTracked
  <2>3. age' # 0 => (spare' \in reads \union named => spare' \in dropped')
    BY <1>1, <1>8, SwapTracked DEF BInv, BuildTypeOK
  <2>4. Prompt' BY <1>0, <2>3 DEF Prompt
  <2>5. Within'
    <3>1. left \in 0..Fade - 1 /\ Fade \in Nat BY DEF VInv, VoicesTypeOK
    <3>2. age' = 0 => age' + left <= Fade BY <3>1
    <3> QED BY <1>0, <2>3, <3>2 DEF Within
  <2> QED BY <1>1, <1>2, <1>3, <2>1, <2>2, <2>4, <2>5 DEF VInv
<1> QED BY <1>0, <1>6, <1>7, <1>8 DEF Build

-----------------------------------------------------------------------------
(* A slot plays what is named there, or a baked table.                     *)
LEMMA Looked == \A e \in Regions : Lookup(e) \in Named \union {Prim}
BY DEF Lookup, Named

(* A block of a fade, and of the guard.                                    *)
LEMMA OneBlock ==
  ASSUME NEW a \in Nat, NEW b \in Nat, b <= a + 1, NEW l \in Nat, NEW k \in Nat
  PROVE  /\ k = l - 1 /\ a + l <= Fade => b + k <= Fade
         /\ a = 0 /\ k <= Fade - 1 => b + k <= Fade
OBVIOUS

(* A block: what the voice reads is what it held, or is named.             *)
LEMMA VoicesPlay == VInv /\ Play => VInv'
<1> SUFFICES ASSUME VInv, Play PROVE VInv'
  OBVIOUS
<1>0. /\ Block /\ named' = Named /\ dropped' = dropped
      /\ UNCHANGED <<busy, f, spare, built>>
      /\ age' = IF age < Guard THEN age + 1 ELSE age
  BY DEF Play, Block
<1>1. BInv' BY <1>0, BlockInv DEF VInv
<1>2. Named' = Named BY <1>0 DEF Named
<1>3. spare \notin Named /\ Named \subseteq Regions /\ Prim \notin Regions /\ None \notin Regions /\ spare \in Regions
  BY SpareUnnamed DEF VInv, BInv, BuildTypeOK, Regions
<1>4. Prompt' BY <1>0, <1>3 DEF Prompt
<1>5. Guarded' BY <1>0 DEF VInv, Guarded, Building
<1>6. age \in 0..Guard /\ age' \in Nat /\ age' <= age + 1 /\ left \in 0..Fade - 1 /\ Fade \in Nat \ {0}
  BY <1>0 DEF VInv, VoicesTypeOK, BuildTypeOK
<1>7. CASE NotRun
  <2>1. VoicesTypeOK'
    <3>1. late' \in BOOLEAN /\ reads' \subseteq Regions \union {Prim} BY <1>7 DEF NotRun
    <3> QED BY <1>0, <1>1, <1>3, <1>7, <3>1 DEF NotRun, VInv, VoicesTypeOK, BInv
  <2>2. Tracked' BY <1>0, <1>2, <1>7 DEF NotRun, VInv, Tracked
  <2>3. Faded' BY <1>7 DEF NotRun, VInv, Faded
  <2>4. Within' BY <1>7 DEF NotRun, Within
  <2> QED BY <1>1, <1>4, <1>5, <2>1, <2>2, <2>3, <2>4 DEF VInv
<1>8. ASSUME NEW new \in Named \union {Prim}, Cut(new) \/ Steady(new) PROVE VInv'
  <2>1. left' = 0 /\ last' = new /\ reads' = {new} /\ UNCHANGED <<old, late>> /\ new # None
    BY <1>3, <1>8 DEF Cut, Steady, VInv, Faded
  <2>2. VoicesTypeOK'
    BY <1>0, <1>1, <1>3, <1>6, <2>1 DEF VInv, VoicesTypeOK, BInv
  <2>3. Tracked' BY <1>0, <1>2, <1>3, <2>1 DEF VInv, Tracked
  <2>4. Faded' /\ Within' BY <1>0, <1>3, <2>1 DEF Faded, Within
  <2> QED BY <1>1, <1>4, <1>5, <2>2, <2>3, <2>4 DEF VInv
<1>9. ASSUME NEW new \in Named \union {Prim}, Hold(new) PROVE VInv'
  <2>1. /\ left > 0 /\ left' = left - 1 /\ reads' = {last, old} /\ last # None
        /\ UNCHANGED <<last, old, late>>
    BY <1>9 DEF Hold
  <2>2. VoicesTypeOK'
    BY <1>0, <1>1, <1>3, <1>6, <2>1 DEF VInv, VoicesTypeOK, BInv
  <2>3. Tracked' BY <1>0, <1>2, <2>1 DEF VInv, Tracked
  <2>4. Faded' BY <2>1 DEF Faded
  <2>5. Within'
    <3>1. ~late => reads' = reads BY <2>1 DEF VInv, Faded
    <3>2. age \in Nat /\ left \in Nat /\ left' \in Nat BY <1>6, <2>1
    <3>3. age' \in Nat /\ age' <= age + 1 /\ left' = left - 1 BY <1>6, <2>1
    <3>4. age + left <= Fade => age' + left' <= Fade
      <4> DEFINE a == age  b == age'  l == left  k == left'
      <4>1. a \in Nat /\ b \in Nat /\ b <= a + 1 /\ l \in Nat /\ k \in Nat /\ k = l - 1
        BY <3>2, <3>3
      <4> HIDE DEF a, b, l, k
      <4>2. a + l <= Fade => b + k <= Fade BY <4>1, OneBlock
      <4> QED BY <4>2 DEF a, b, l, k
    <3> QED BY <1>0, <2>1, <3>1, <3>4 DEF VInv, Within
  <2> QED BY <1>1, <1>4, <1>5, <2>2, <2>3, <2>4, <2>5 DEF VInv
<1>10. ASSUME NEW new \in Named \union {Prim}, NEW blocks \in 1..Fade, Jump(new, blocks) PROVE VInv'
  <2>1. /\ last # None /\ left = 0 /\ old' = last /\ last' = new /\ left' = blocks - 1
        /\ reads' = {new, last} /\ late' = (last \notin named \union {Prim})
    BY <1>10 DEF Jump
  <2>2. VoicesTypeOK'
    <3>1. late' \in BOOLEAN /\ left' \in 0..Fade - 1 BY <1>6, <2>1
    <3> QED BY <1>0, <1>1, <1>3, <2>1, <3>1 DEF VInv, VoicesTypeOK, BInv
  <2>3. Tracked' BY <1>0, <1>2, <1>3, <2>1 DEF VInv, Tracked
  <2>4. Faded' BY <1>3, <2>1 DEF Faded
  <2>5. Within'
    <3>1. ASSUME ~late', spare \in reads', spare \notin dropped PROVE age = 0
      BY <1>3, <2>1, <3>1 DEF VInv, Prompt
    <3>2. left' \in Nat /\ left' <= Fade - 1 BY <1>6, <2>1
    <3>3. age = 0 => age' + left' <= Fade BY <1>6, <3>2, OneBlock
    <3> QED BY <1>0, <3>1, <3>3 DEF Within
  <2> QED BY <1>1, <1>4, <1>5, <2>2, <2>3, <2>4, <2>5 DEF VInv
<1>11. \/ NotRun
       \/ \E new \in Named \union {Prim} :
            Cut(new) \/ Steady(new) \/ Hold(new) \/ \E blocks \in 1..Fade : Jump(new, blocks)
  BY Looked DEF Play
<1> QED BY <1>7, <1>8, <1>9, <1>10, <1>11

-----------------------------------------------------------------------------
(* Every step preserves the invariant.                                     *)
LEMMA VoicesStep == VInv /\ [VoicesNext]_voicesVars => VInv'
<1> SUFFICES ASSUME VInv, [VoicesNext]_voicesVars PROVE VInv'
  OBVIOUS
<1>1. CASE UNCHANGED voicesVars
  <2>1. BInv' BY <1>1, BuildStepInv DEF VInv, voicesVars
  <2>2. UNCHANGED <<busy, f, spare, built, age, last, old, left, reads, named, late, dropped>>
    BY <1>1 DEF voicesVars, buildVars, voice
  <2>3. VoicesTypeOK' BY <2>1, <2>2 DEF VInv, VoicesTypeOK, BInv
  <2>4. Tracked' BY <2>2 DEF VInv, Tracked, Named
  <2>5. (Faded /\ Prompt /\ Within /\ Guarded)'
    BY <2>2 DEF VInv, Faded, Prompt, Within, Guarded, Building
  <2> QED BY <2>1, <2>3, <2>4, <2>5 DEF VInv
<1> QED BY <1>1, VoicesLoad, VoicesBuilds, VoicesPlay DEF VoicesNext

(* What the invariant says of the fades.                                   *)
LEMMA VoicesMeaning == VInv => VoicesTypeOK /\ RegionsApart /\ PromptFadesIntact
<1> SUFFICES ASSUME VInv PROVE VoicesTypeOK /\ RegionsApart /\ PromptFadesIntact
  OBVIOUS
<1>1. ASSUME Building, spare \in reads, ~late, spare \notin dropped PROVE FALSE
  <2>1. age = Guard /\ age + left <= Fade BY <1>1 DEF VInv, Guarded, Within
  <2>2. left \in Nat BY DEF VInv, VoicesTypeOK
  <2> QED BY <2>1, <2>2
<1> QED BY <1>1 DEF VInv, BInv, PromptFadesIntact

(* Types of the builder's and the voice's state.                           *)
THEOREM VoicesTyped == VoicesSpec => []VoicesTypeOK
BY VoicesInitInv, VoicesStep, VoicesMeaning, PTL DEF VoicesSpec

(* No two entries share a region, and what is named is never written.      *)
THEOREM RegionsStayApart == VoicesSpec => []RegionsApart
BY VoicesInitInv, VoicesStep, VoicesMeaning, PTL DEF VoicesSpec

(* A fade that starts at the block after the swap, runs at every block and *)
(* is not out of an emptied entry's table has both its tables whole to its *)
(* end, for every guard longer than the longest fade.                      *)
THEOREM FadesAreGuarded == VoicesSpec => []PromptFadesIntact
BY VoicesInitInv, VoicesStep, VoicesMeaning, PTL DEF VoicesSpec

-----------------------------------------------------------------------------
(* The pool as it plays.                                                   *)

(* A step of the whole is a step of the pool, and of the builder with a    *)
(* voice over it.                                                          *)
LEMMA PlayStepIsBoth ==
  PInv /\ VInv /\ [PlayNext]_playVars => [Next]_vars /\ [VoicesNext]_voicesVars
<1> SUFFICES ASSUME PInv, VInv, [PlayNext]_playVars
             PROVE  [Next]_vars /\ [VoicesNext]_voicesVars
  OBVIOUS
<1>1. CASE UNCHANGED playVars
  BY <1>1 DEF playVars, vars, voicesVars
<1>2. CASE (Pass \/ Arrives \/ ReadError \/ Fails \/ Change) /\ UNCHANGED <<voice, dropped>>
  <2>1. [LoadCommand]_buildVars BY <1>2, FillLoads
  <2>2. [VoicesNext]_voicesVars BY <1>2, <2>1 DEF VoicesNext, voicesVars
  <2> QED BY <1>2, <2>2 DEF Next
<1>3. CASE Builds /\ UNCHANGED <<drive, fill, load, part>>
  <2>1. Dsp BY <1>3 DEF Builds, Dsp
  <2> QED BY <1>3, <2>1 DEF Next, VoicesNext
<1>4. CASE Play /\ UNCHANGED <<drive, fill, load, part>>
  <2>1. Dsp BY <1>4 DEF Play, Dsp
  <2> QED BY <1>4, <2>1 DEF Next, VoicesNext
<1> QED BY <1>1, <1>2, <1>3, <1>4 DEF PlayNext

(* So both invariants hold of it.                                          *)
LEMMA PlayInvariant == PlaySpec => [](PInv /\ VInv)
<1>1. PlayInit => PInv /\ VInv
  BY PoolInit, VoicesInitInv DEF PlayInit
<1>2. PInv /\ VInv /\ [PlayNext]_playVars => PInv' /\ VInv'
  BY PlayStepIsBoth, PoolStep, VoicesStep
<1> QED BY <1>1, <1>2, PTL DEF PlaySpec

(* The pool that plays is the fill of WrPool, and what its voice sees is a *)
(* behaviour of WrVoices: the contract that is all WrVoices knows of the   *)
(* ColdFire is kept by the fill, whatever fails and however they           *)
(* interleave.                                                             *)
THEOREM PlayImplementsBoth == PlaySpec => Spec /\ VoicesSpec
<1>1. PlayInit => Init /\ VoicesInit
  BY DEF PlayInit
<1> QED BY <1>1, PlayInvariant, PlayStepIsBoth, PTL DEF PlaySpec, Spec, VoicesSpec

(* Whatever is filled while it plays, a prompt fade keeps its tables whole,*)
(* and once the fill has settled each slot is heard as the list and the    *)
(* store have it.                                                          *)
THEOREM PlaysRight == PlaySpec => [](PromptFadesIntact /\ SettledIsRight /\ HeardIsRight)
<1>1. PInv /\ VInv => PromptFadesIntact /\ SettledIsRight
  BY PoolMeaning, VoicesMeaning
<1>2. PInv /\ VInv => HeardIsRight
  <2> SUFFICES ASSUME PInv, Settled, NEW e \in Regions
               PROVE  IF e \in Entries /\ list[e] # None
                      THEN /\ Lookup(e) \in Regions
                           /\ \A p \in Part : levels[Lookup(e)][p] = store[list[e]]
                      ELSE Lookup(e) = Prim
    BY DEF HeardIsRight
  <2>1. Right BY PoolMeaning DEF Settled, SettledIsRight
  <2>2. \A d \in Entries : built[d] \in Regions \union {None}
    BY DEF PInv, TypeOK, BuildTypeOK
  <2> QED BY <2>1, <2>2 DEF Right, Lookup
<1> QED BY <1>1, <1>2, PlayInvariant, PTL
=============================================================================
