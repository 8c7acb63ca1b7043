------------------------------ MODULE WrBuild ------------------------------
(***************************************************************************)
(* The pool's levels, built on the DSP in its idle time                    *)
(* (csrc/waverider/sharc/build3.asm), and the contract of the ColdFire,    *)
(* which loads the tables and the request directory (load.asm).            *)
(*                                                                         *)
(* A call of the builder takes one pair of frames through the FFTs.  The   *)
(* load command preempts it at every exchange, tens of times in a long     *)
(* call, so a call is two steps: it reads the directory and copies its     *)
(* frames (Start), and it has written every level's rows of them (Finish). *)
(*                                                                         *)
(* Abstractions: a pair of frames is the table it is of; all tables have   *)
(* Pairs pairs; region j is entry j's at first, region Count the spare;    *)
(* GEN against the directory's generation is one Boolean.  The copy of the *)
(* frames (80,000 cycles of an exchange's 266,000) is taken to end before  *)
(* the ColdFire, told that the magic is clear, has loaded the next chunk.  *)
(***************************************************************************)
EXTENDS Naturals

CONSTANTS Count,    (* pool entries, 128                                   *)
          Pairs,    (* pairs of frames in a table                          *)
          Guard,    (* blocks the spare is not written after a swap, 160   *)
          Tables,   (* table contents                                      *)
          None      (* no content, no table named                          *)

Entries == 0..Count - 1
Regions == 0..Count
Part    == 1..Pairs
Content == [Part -> Tables \union {None}]
Blank   == [p \in Part |-> None]

ASSUME BuildAssumption ==
  /\ Count \in Nat \ {0} /\ Pairs \in Nat \ {0} /\ Guard \in Nat
  /\ None \notin Tables /\ None \notin Nat

VARIABLES
  magic,    (* the directory's magic stands                                *)
  listed,   (* the entries the directory has a table for                   *)
  raw,      (* [Entries -> Content]: the tables as loaded                  *)
  seen,     (* GEN is the directory's generation                           *)
  j, f,     (* J, and the pairs of J done (F / 2)                          *)
  busy,     (* a call is under way                                         *)
  pair,     (* what it copied                                              *)
  region,   (* [Entries -> Regions]: REGION                                *)
  spare,    (* SPARE                                                       *)
  built,    (* [Entries -> Regions or None]: BUILT                         *)
  levels,   (* [Regions -> Content]: the levels in each region             *)
  age       (* blocks since the swap that was last recorded, up to Guard   *)

directory == <<magic, listed, raw>>
builder   == <<seen, j, f, busy, pair, region, spare, built, levels, age>>
buildVars == <<magic, listed, raw, seen, j, f, busy, pair, region, spare, built, levels, age>>

-----------------------------------------------------------------------------
(* What the load command writes: a pair of frames of an entry's table, ... *)
PutPair(e, p, t) ==
  /\ raw' = [raw EXCEPT ![e][p] = t]
  /\ UNCHANGED <<magic, listed, builder>>

(* ... the request directory, of a new generation, ...                     *)
PutDirectory(S) ==
  /\ listed' = S
  /\ seen' = FALSE
  /\ UNCHANGED <<magic, raw, j, f, busy, pair, region, spare, built, levels, age>>

(* ... and its magic.                                                      *)
PutMagic(m) ==
  /\ magic' = m
  /\ UNCHANGED <<listed, raw, builder>>

(* The ColdFire's contract: tables and directory are rewritten while the   *)
(* magic is clear, and it stands again only over a new generation.         *)
LoadCommand ==
  \/ PutMagic(FALSE)
  \/ /\ ~magic
     /\ \/ \E e \in Entries, p \in Part, t \in Tables : PutPair(e, p, t)
        \/ \E S \in SUBSET Entries : PutDirectory(S)
        \/ ~seen /\ PutMagic(TRUE)

-----------------------------------------------------------------------------
(* The builder.  A new generation starts again at entry 0.                 *)

EntryNow_Kept == j                  (* mutant: J goes on over a new directory *)

EntryNow == IF seen THEN j ELSE 0
DoneNow  == IF seen THEN f ELSE 0
Called   == magic /\ ~busy /\ (~seen \/ j < Count)

(* An entry with no table: nothing is named there, and J moves on.         *)
Skip ==
  /\ Called /\ DoneNow = 0 /\ EntryNow \notin listed
  /\ seen' = TRUE /\ f' = 0
  /\ built' = [built EXCEPT ![EntryNow] = None]
  /\ j' = EntryNow + 1
  /\ UNCHANGED <<directory, busy, pair, region, spare, levels, age>>

(* A voice may still fade out of the spare: J stays.                       *)
MayStart_Now == TRUE                          (* mutant: the guard dropped *)

MayStart == age >= Guard

Wait ==
  /\ Called /\ DoneNow = 0 /\ EntryNow \in listed /\ ~MayStart
  /\ seen' = TRUE /\ j' = EntryNow /\ f' = 0
  /\ UNCHANGED <<directory, busy, pair, region, spare, built, levels, age>>

(* The next pair of J, its first only into a spare no voice fades out of.  *)
Start ==
  /\ Called
  /\ DoneNow = 0 => EntryNow \in listed /\ MayStart
  /\ seen' = TRUE /\ j' = EntryNow /\ f' = DoneNow
  /\ busy' = TRUE /\ pair' = raw[EntryNow][DoneNow + 1]
  /\ UNCHANGED <<directory, region, spare, built, levels, age>>

(* The table is whole: it is named, and the region J held is the spare.    *)
Swap_InPlace ==                         (* mutant: the spare is not changed *)
  /\ region' = [region EXCEPT ![j] = spare]
  /\ spare' = spare
  /\ built' = [built EXCEPT ![j] = spare]
  /\ age' = IF built[j] # None THEN 0 ELSE age
  /\ j' = j + 1 /\ f' = 0

Swap ==
  /\ region' = [region EXCEPT ![j] = spare]
  /\ spare' = region[j]
  /\ built' = [built EXCEPT ![j] = spare]
  /\ age' = IF built[j] # None THEN 0 ELSE age
  /\ j' = j + 1 /\ f' = 0

Finish ==
  /\ busy
  /\ busy' = FALSE /\ pair' = None
  /\ levels' = [levels EXCEPT ![spare][f + 1] = pair]
  /\ IF f + 1 < Pairs THEN f' = f + 1 /\ UNCHANGED <<j, region, spare, built, age>>
                      ELSE Swap
  /\ UNCHANGED <<directory, seen>>

(* A block is rendered.                                                    *)
Block ==
  /\ age' = IF age < Guard THEN age + 1 ELSE age
  /\ UNCHANGED <<directory, seen, j, f, busy, pair, region, spare, built, levels>>

Build == Skip \/ Wait \/ Start \/ Finish

-----------------------------------------------------------------------------
BuildInit ==
  /\ magic = FALSE /\ listed = {} /\ raw = [e \in Entries |-> Blank]
  /\ seen = FALSE /\ j = 0 /\ f = 0 /\ busy = FALSE /\ pair = None
  /\ region = [e \in Entries |-> e] /\ spare = Count
  /\ built = [e \in Entries |-> None]
  /\ levels = [r \in Regions |-> Blank]
  /\ age = Guard

BuildNext == LoadCommand \/ Build \/ Block
BuildSpec == BuildInit /\ [][BuildNext]_buildVars

-----------------------------------------------------------------------------
BuildTypeOK ==
  /\ magic \in BOOLEAN /\ listed \subseteq Entries /\ raw \in [Entries -> Content]
  /\ seen \in BOOLEAN /\ j \in 0..Count /\ f \in 0..Pairs - 1
  /\ busy \in BOOLEAN /\ pair \in Tables \union {None}
  /\ region \in [Entries -> Regions] /\ spare \in Regions
  /\ built \in [Entries -> Regions \union {None}]
  /\ levels \in [Regions -> Content]
  /\ age \in 0..Guard

(* Every region is one entry's or the spare: what is named is never what   *)
(* is being written (build3.asm: "REGION[j] is the one entry j holds, the  *)
(* spare the one left").                                                   *)
RegionsApart ==
  /\ \A d, e \in Entries : region[d] = region[e] => d = e
  /\ \A e \in Entries : region[e] # spare
  /\ \A e \in Entries : built[e] \in {None, region[e]}

(* The entries the builder has passed in this generation are named exactly *)
(* if they are listed, each with the levels of its whole table as loaded,  *)
(* however the fills and the calls interleave.                             *)
BuiltAsLoaded ==
  magic /\ seen =>
    /\ \A e \in Entries : e < j => (built[e] # None <=> e \in listed)
    /\ \A e \in Entries : e < j /\ e \in listed => levels[built[e]] = raw[e]
=============================================================================
