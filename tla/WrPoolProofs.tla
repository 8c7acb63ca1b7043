---------------------------- MODULE WrPoolProofs ----------------------------
(***************************************************************************)
(* Proofs about the builder (WrBuild), under the ColdFire's contract, and  *)
(* about the pool's fill (WrPool), which keeps it.                         *)
(*                                                                         *)
(* BuiltAsLoaded is not inductive: a table is right when it is named only  *)
(* if every pair of it was, so the pairs done so far, and the one a call   *)
(* has copied, must be those of J's table (Copied).                        *)
(*                                                                         *)
(* That the fill implements the contract rests on what each state of       *)
(* wr_drive_poll means for the message under way, the magic and the        *)
(* builder (Protocol).  That what plays is right rests on the same and on  *)
(* what has been delivered so far (Delivered), as long as nothing has      *)
(* changed or failed since begin().                                        *)
(***************************************************************************)
EXTENDS WrPool, TLAPS

(* Of a generation the builder has seen: the pairs of J done are in the    *)
(* spare, and a call under way has copied the next.                        *)
Copied ==
  /\ busy \/ f > 0 => j < Count
  /\ magic /\ seen /\ (busy \/ f > 0) =>
       /\ j \in listed
       /\ \A p \in 1..f : levels[spare][p] = raw[j][p]
       /\ busy => pair = raw[j][f + 1]

BInv == BuildTypeOK /\ RegionsApart /\ BuiltAsLoaded /\ Copied

(* The builder's first state satisfies the invariant.                      *)
LEMMA BuildInitInv == BuildInit => BInv
<1> SUFFICES ASSUME BuildInit PROVE BInv
  OBVIOUS
<1> USE BuildAssumption
<1>1. BuildTypeOK
  <2>1. Blank \in Content /\ listed \subseteq Entries
    BY DEF BuildInit, Blank, Content
  <2>2. /\ raw \in [Entries -> Content] /\ levels \in [Regions -> Content]
        /\ built \in [Entries -> Regions \union {None}]
    BY <2>1 DEF BuildInit
  <2>3. magic \in BOOLEAN /\ seen \in BOOLEAN /\ busy \in BOOLEAN /\ pair \in Tables \union {None}
    BY DEF BuildInit
  <2>4. j \in 0..Count /\ f \in 0..Pairs - 1 /\ age \in 0..Guard /\ spare \in Regions
    BY DEF BuildInit, Regions
  <2>5. region \in [Entries -> Regions]
    BY DEF BuildInit, Entries, Regions
  <2> QED BY <2>1, <2>2, <2>3, <2>4, <2>5 DEF BuildTypeOK
<1>2. RegionsApart
  BY DEF BuildInit, RegionsApart, Entries, Regions
<1>3. BuiltAsLoaded /\ Copied
  BY DEF BuildInit, BuiltAsLoaded, Copied
<1> QED BY <1>1, <1>2, <1>3 DEF BInv

-----------------------------------------------------------------------------
(* The ColdFire's writes: while the magic is clear, or of a new generation *)
(* the builder has not seen.                                               *)
LEMMA LoadCommandInv == BInv /\ LoadCommand => BInv'
<1> SUFFICES ASSUME BInv, LoadCommand PROVE BInv'
  OBVIOUS
<1> USE BuildAssumption DEF BInv, directory, builder
<1>1. CASE \E m \in BOOLEAN : PutMagic(m) /\ (m => ~seen)
  <2>1. BuildTypeOK' BY <1>1 DEF PutMagic, BuildTypeOK
  <2>2. RegionsApart' BY <1>1 DEF PutMagic, RegionsApart
  <2>3. BuiltAsLoaded' BY <1>1 DEF PutMagic, BuiltAsLoaded
  <2>4. Copied' BY <1>1 DEF PutMagic, Copied
  <2> QED BY <2>1, <2>2, <2>3, <2>4
<1>2. ASSUME ~magic, NEW e \in Entries, NEW p \in Part, NEW t \in Tables, PutPair(e, p, t)
      PROVE  BInv'
  <2>1. BuildTypeOK'
    <3>1. raw' \in [Entries -> Content] BY <1>2 DEF PutPair, BuildTypeOK, Content
    <3> QED BY <1>2, <3>1 DEF PutPair, BuildTypeOK
  <2>2. RegionsApart' BY <1>2 DEF PutPair, RegionsApart
  <2>3. BuiltAsLoaded' BY <1>2 DEF PutPair, BuiltAsLoaded
  <2>4. Copied' BY <1>2 DEF PutPair, Copied
  <2> QED BY <2>1, <2>2, <2>3, <2>4
<1>3. ASSUME NEW S \in SUBSET Entries, PutDirectory(S) PROVE BInv'
  <2>1. BuildTypeOK' BY <1>3 DEF PutDirectory, BuildTypeOK
  <2>2. RegionsApart' BY <1>3 DEF PutDirectory, RegionsApart
  <2>3. BuiltAsLoaded' BY <1>3 DEF PutDirectory, BuiltAsLoaded
  <2>4. Copied' BY <1>3 DEF PutDirectory, Copied
  <2> QED BY <2>1, <2>2, <2>3, <2>4
<1> QED BY <1>1, <1>2, <1>3 DEF LoadCommand

-----------------------------------------------------------------------------
(* What a call finds: an entry of the pool, and of a new generation the    *)
(* first one, with nothing of it done.                                     *)
LEMMA Finds ==
  ASSUME BInv, Called
  PROVE  /\ EntryNow \in Entries /\ EntryNow + 1 \in 0..Count
         /\ DoneNow \in 0..Pairs - 1 /\ DoneNow + 1 \in Part
         /\ magic /\ ~busy
         /\ ~seen => EntryNow = 0 /\ DoneNow = 0
         /\ seen => EntryNow = j /\ DoneNow = f
BY BuildAssumption DEF BInv, BuildTypeOK, Called, EntryNow, DoneNow, Entries, Part

(* An entry without a table is passed.                                     *)
LEMMA SkipInv == BInv /\ Skip => BInv'
<1> SUFFICES ASSUME BInv, Skip PROVE BInv'
  OBVIOUS
<1> USE BuildAssumption DEF BInv, directory
<1>0. Called BY DEF Skip
<1>1. BuildTypeOK'
  BY <1>0, Finds DEF Skip, BuildTypeOK
<1>2. RegionsApart'
  BY <1>0, Finds DEF Skip, RegionsApart, BuildTypeOK
<1>3. BuiltAsLoaded'
  <2> SUFFICES ASSUME NEW e \in Entries, e < j'
               PROVE  /\ built'[e] # None <=> e \in listed
                      /\ e \in listed => levels[built'[e]] = raw[e]
    BY DEF Skip, BuiltAsLoaded
  <2>1. CASE e = EntryNow BY <1>0, <2>1, Finds DEF Skip, BuildTypeOK
  <2>2. CASE e # EntryNow
    <3>1. seen /\ e < j /\ magic BY <1>0, <2>2, Finds DEF Skip, BuildTypeOK, Entries
    <3>2. built'[e] = built[e] BY <2>2 DEF Skip, BuildTypeOK
    <3> QED BY <3>1, <3>2 DEF BuiltAsLoaded
  <2> QED BY <2>1, <2>2
<1>4. Copied'
  BY <1>0, Finds DEF Skip, Copied
<1> QED BY <1>1, <1>2, <1>3, <1>4

(* A call that waits, and one that starts: the entries passed stay passed. *)
LEMMA PassedStay ==
  ASSUME BInv, Called, j' = EntryNow, UNCHANGED <<magic, listed, raw, built, levels>>
  PROVE  BuiltAsLoaded'
<1> SUFFICES ASSUME NEW e \in Entries, e < j'
             PROVE  /\ built[e] # None <=> e \in listed
                    /\ e \in listed => levels[built[e]] = raw[e]
  BY DEF BuiltAsLoaded
<1>1. seen /\ e < j /\ magic
  BY Finds, BuildAssumption DEF Entries
<1> QED BY <1>1 DEF BInv, BuiltAsLoaded

LEMMA WaitInv == BInv /\ Wait => BInv'
<1> SUFFICES ASSUME BInv, Wait PROVE BInv'
  OBVIOUS
<1> USE BuildAssumption DEF BInv, directory
<1>0. Called BY DEF Wait
<1>1. BuildTypeOK' BY <1>0, Finds DEF Wait, BuildTypeOK, Entries
<1>2. RegionsApart' BY DEF Wait, RegionsApart
<1>3. BuiltAsLoaded' BY <1>0, PassedStay DEF Wait
<1>4. Copied' BY <1>0, Finds DEF Wait, Copied
<1> QED BY <1>1, <1>2, <1>3, <1>4

LEMMA StartInv == BInv /\ Start => BInv'
<1> SUFFICES ASSUME BInv, Start PROVE BInv'
  OBVIOUS
<1> USE BuildAssumption DEF BInv, directory
<1>0. Called BY DEF Start
<1>1. BuildTypeOK'
  <2>1. raw[EntryNow][DoneNow + 1] \in Tables \union {None}
    BY <1>0, Finds DEF BuildTypeOK, Content
  <2> QED BY <1>0, <2>1, Finds DEF Start, BuildTypeOK, Entries
<1>2. RegionsApart' BY DEF Start, RegionsApart
<1>3. BuiltAsLoaded' BY <1>0, PassedStay DEF Start
<1>4. Copied'
  <2>1. j' < Count BY <1>0, Finds DEF Start, Entries
  <2>2. CASE DoneNow = 0 BY <1>0, <2>1, <2>2, Finds DEF Start, Copied
  <2>3. CASE DoneNow # 0
    <3>1. seen /\ magic /\ f > 0 BY <1>0, <2>3, Finds DEF BuildTypeOK
    <3> QED BY <1>0, <2>1, <3>1, Finds DEF Start, Copied
  <2> QED BY <2>2, <2>3
<1> QED BY <1>1, <1>2, <1>3, <1>4

-----------------------------------------------------------------------------
(* A call ends: its levels are in the spare, and a whole table is named.   *)
LEMMA FinishInv == BInv /\ Finish => BInv'
<1> SUFFICES ASSUME BInv, Finish PROVE BInv'
  OBVIOUS
<1> USE BuildAssumption DEF BInv, directory
<1>0. /\ j \in Entries /\ f + 1 \in Part /\ spare \in Regions
      /\ \A p \in Part : levels'[spare][p] = IF p = f + 1 THEN pair ELSE levels[spare][p]
      /\ \A r \in Regions : r # spare => levels'[r] = levels[r]
      /\ levels' \in [Regions -> Content]
  BY DEF Finish, BuildTypeOK, Copied, Entries, Part, Content
<1>1. CASE f + 1 < Pairs
  <2>1. BuildTypeOK'
    <3>1. f' \in 0..Pairs - 1 /\ pair' = None /\ busy' = FALSE
      BY <1>1 DEF Finish, BuildTypeOK
    <3>2. UNCHANGED <<magic, listed, raw, seen, j, region, spare, built, age>>
      BY <1>1 DEF Finish
    <3>3. levels' \in [Regions -> Content] BY <1>0
    <3> QED BY <3>1, <3>2, <3>3 DEF BuildTypeOK
  <2>2. RegionsApart' BY <1>1 DEF Finish, RegionsApart
  <2>3. BuiltAsLoaded'
    <3> SUFFICES ASSUME magic, seen, NEW e \in Entries, e < j
                 PROVE  /\ built[e] # None <=> e \in listed
                        /\ e \in listed => levels'[built[e]] = raw[e]
      BY <1>1 DEF Finish, BuiltAsLoaded
    <3>1. built[e] # None => built[e] \in Regions /\ built[e] # spare
      BY DEF RegionsApart, BuildTypeOK
    <3> QED BY <1>0, <3>1 DEF BuiltAsLoaded
  <2>4. Copied' BY <1>0, <1>1 DEF Finish, Copied, BuildTypeOK, Part
  <2> QED BY <2>1, <2>2, <2>3, <2>4
<1>2. CASE ~(f + 1 < Pairs)
  <2>0. Swap /\ UNCHANGED <<magic, listed, raw, seen>> /\ busy' = FALSE /\ pair' = None
    BY <1>2 DEF Finish
  <2>1. BuildTypeOK'
    <3>1. /\ region' \in [Entries -> Regions] /\ spare' \in Regions
          /\ built' \in [Entries -> Regions \union {None}]
      BY <1>0, <2>0 DEF Swap, BuildTypeOK
    <3>2. j' \in 0..Count /\ f' \in 0..Pairs - 1 /\ age' \in 0..Guard
      BY <1>0, <2>0 DEF Swap, BuildTypeOK, Entries
    <3>3. busy' \in BOOLEAN /\ pair' \in Tables \union {None}
      BY <2>0
    <3> QED BY <1>0, <2>0, <3>1, <3>2, <3>3 DEF BuildTypeOK
  <2>2. RegionsApart' BY <1>0, <2>0 DEF Swap, RegionsApart, BuildTypeOK
  <2>3. BuiltAsLoaded'
    <3> SUFFICES ASSUME magic, seen, NEW e \in Entries, e < j + 1
                 PROVE  /\ built'[e] # None <=> e \in listed
                        /\ e \in listed => levels'[built'[e]] = raw[e]
      BY <2>0 DEF Swap, BuiltAsLoaded
    <3>1. CASE e = j
      <4>1. built'[e] = spare /\ spare # None /\ e \in listed
        BY <1>0, <2>0, <3>1 DEF Finish, Swap, Copied, BuildTypeOK, Regions
      <4>2. \A p \in Part : levels'[spare][p] = raw[e][p]
        BY <1>0, <1>2, <3>1 DEF Finish, Copied, BuildTypeOK, Part
      <4>3. levels'[spare] = raw[e]
        BY <1>0, <4>2 DEF BuildTypeOK, Content
      <4> QED BY <4>1, <4>3
    <3>2. CASE e # j
      <4>1. e < j BY <1>0, <3>2 DEF Entries
      <4>2. built'[e] = built[e] BY <2>0, <3>2 DEF Swap, BuildTypeOK
      <4>3. built[e] # None => built[e] \in Regions /\ built[e] # spare
        BY DEF RegionsApart, BuildTypeOK
      <4> QED BY <1>0, <4>1, <4>2, <4>3 DEF BuiltAsLoaded
    <3> QED BY <3>1, <3>2
  <2>4. Copied' BY <2>0 DEF Swap, Copied
  <2> QED BY <2>1, <2>2, <2>3, <2>4
<1> QED BY <1>1, <1>2

(* A block only counts.                                                    *)
LEMMA BlockInv == BInv /\ Block => BInv'
<1> SUFFICES ASSUME BInv, Block PROVE BInv'
  OBVIOUS
<1> USE BuildAssumption DEF BInv, directory, Block
<1>1. BuildTypeOK' BY DEF BuildTypeOK
<1>2. RegionsApart' BY DEF RegionsApart
<1>3. BuiltAsLoaded' BY DEF BuiltAsLoaded
<1>4. Copied' BY DEF Copied
<1> QED BY <1>1, <1>2, <1>3, <1>4

-----------------------------------------------------------------------------
(* Every step of the builder and of a ColdFire that keeps the contract     *)
(* preserves the invariant.                                                *)
LEMMA BuildStepInv == BInv /\ [BuildNext]_buildVars => BInv'
<1> SUFFICES ASSUME BInv, [BuildNext]_buildVars PROVE BInv'
  OBVIOUS
<1>1. CASE UNCHANGED buildVars
  BY <1>1 DEF buildVars, BInv, BuildTypeOK, RegionsApart, BuiltAsLoaded, Copied
<1> QED BY <1>1, LoadCommandInv, SkipInv, WaitInv, StartInv, FinishInv, BlockInv
        DEF BuildNext, Build

(* Whatever is loaded, and however the writes, the calls and the blocks    *)
(* interleave: no region is two entries', what is named is not written,    *)
(* and what is named in this generation is the whole table as loaded.      *)
THEOREM BuilderSafe == BuildSpec => [](BuildTypeOK /\ RegionsApart /\ BuiltAsLoaded)
<1>1. BuildSpec => []BInv
  BY BuildInitInv, BuildStepInv, PTL DEF BuildSpec
<1>2. BInv => BuildTypeOK /\ RegionsApart /\ BuiltAsLoaded
  BY DEF BInv
<1> QED BY <1>1, <1>2, PTL

-----------------------------------------------------------------------------
(* The pool's fill.                                                        *)

Wanted == {e \in Entries : slots[e] # None}

(* The message under way, the magic and the directory in each state.       *)
Protocol ==
  /\ state \in {"waiting", "clearing", "ready", "failed"} => load = "none"
  /\ state = "clearing" => next = 0
  /\ state = "filling" => load \in {"clear", "table", "none"} /\ (load # "clear" => ~magic)
  /\ state = "magic" => load \in {"directory", "none"} /\ ~magic /\ (load = "none" => ~seen)
  /\ state = "directory" => /\ load \in {"magic", "none"}
                            /\ load = "magic" => ~magic /\ ~seen
                            /\ load = "none" => magic
  /\ state = "ready" => magic
  /\ state \in {"directory", "ready"} \/ (state = "magic" /\ load = "none") => listed = Wanted

Current == ~stale /\ ~lost /\ state \notin {"waiting", "failed"}

(* Pair p of entry e has been delivered in this fill.                      *)
Sent(e, p) ==
  \/ state \in {"magic", "directory", "ready"}
  \/ state = "filling" /\ e < next /\ (load = "table" /\ e = next - 1 => p < part)

Delivered ==
  Current => /\ slots = list
             /\ \A e \in Wanted, p \in Part : Sent(e, p) => raw[e][p] = store[slots[e]]

PInv == TypeOK /\ BInv /\ Protocol /\ Delivered

USE BuildAssumption, PoolAssumption

(* The pool's first state satisfies the invariant.                         *)
LEMMA PoolInit == Init => PInv
<1> SUFFICES ASSUME Init PROVE PInv
  OBVIOUS
<1>1. BInv BY BuildInitInv DEF Init
<1>2. TypeOK
  <2>1. store \in [Slots -> Tables] /\ list \in Lists /\ slots \in Lists
    BY DEF Init, Lists
  <2>2. stale \in BOOLEAN /\ lost \in BOOLEAN /\ state \in States /\ load = "none" /\ load \in Loads
    BY DEF Init, States, Loads
  <2>3. next \in 0..Count /\ part \in Part /\ changes \in Nat
    BY DEF Init, Part
  <2> QED BY <1>1, <2>1, <2>2, <2>3 DEF TypeOK, BInv
<1>3. Protocol /\ Delivered
  BY DEF Init, Protocol, Delivered, Current
<1> QED BY <1>1, <1>2, <1>3 DEF PInv

-----------------------------------------------------------------------------
(* What the ColdFire does to the builder's state it does by load commands  *)
(* that keep the contract.                                                 *)
LEMMA FillLoads ==
  PInv /\ (Pass \/ Arrives \/ ReadError \/ Fails \/ Change) => [LoadCommand]_buildVars
<1> SUFFICES ASSUME PInv, Pass \/ Arrives \/ ReadError \/ Fails \/ Change
             PROVE  [LoadCommand]_buildVars
  OBVIOUS
<1>1. CASE Pass \/ ReadError \/ Fails \/ Change
  BY <1>1 DEF Pass, Begin, Clear, EmptyEntry, SendTable, SendDirectory, SendMagic, Done, Ask,
              ReadError, Fails, Change, ListChange, Upload
<1>2. CASE Arrives
  <2>1. CASE load = "clear" /\ PutMagic(FALSE)
    BY <2>1 DEF LoadCommand
  <2>2. CASE load = "table" /\ PutPair(next - 1, part, store[slots[next - 1]])
    <3>1. state = "filling" /\ ~magic
      BY <1>2, <2>2 DEF Arrives, PInv, Protocol, TypeOK, States
    <3>2. next - 1 \in Entries /\ part \in Part /\ slots[next - 1] \in Slots
      BY <2>2 DEF PInv, TypeOK, Entries, Lists
    <3>3. store[slots[next - 1]] \in Tables
      BY <3>2 DEF PInv, TypeOK
    <3> QED BY <2>2, <3>1, <3>2, <3>3 DEF LoadCommand
  <2>3. CASE load = "directory" /\ PutDirectory({e \in Entries : slots[e] # None})
    <3>1. ~magic BY <1>2, <2>3 DEF Arrives, PInv, Protocol, TypeOK, States
    <3> QED BY <2>3, <3>1 DEF LoadCommand
  <2>4. CASE load = "magic" /\ PutMagic(TRUE)
    <3>1. ~magic /\ ~seen BY <1>2, <2>4 DEF Arrives, PInv, Protocol, TypeOK, States
    <3> QED BY <2>4, <3>1 DEF LoadCommand
  <2> QED BY <1>2, <2>1, <2>2, <2>3, <2>4 DEF Arrives
<1> QED BY <1>1, <1>2

(* Every step of the pool is one of WrBuild, or leaves it alone.           *)
LEMMA StepKeepsContract == PInv /\ [Next]_vars => [BuildNext]_buildVars
<1>1. UNCHANGED vars => UNCHANGED buildVars BY DEF vars
<1>2. Dsp => BuildNext BY DEF Dsp, BuildNext
<1> QED BY <1>1, <1>2, FillLoads DEF Next, BuildNext

-----------------------------------------------------------------------------
(* A pass that only asks, or moves on.                                     *)
LEMMA PassInv == PInv /\ Pass => PInv'
<1> SUFFICES ASSUME PInv, Pass PROVE PInv'
  OBVIOUS
<1>0. UNCHANGED <<buildVars, store, list, stale>> \/ Begin
  BY DEF Pass, Clear, EmptyEntry, SendTable, SendDirectory, SendMagic, Done, Ask, drive
<1>1. BInv'
  <2>1. UNCHANGED buildVars BY <1>0 DEF Begin
  <2> QED BY <2>1, BuildStepInv DEF PInv
<1>a. UNCHANGED <<magic, listed, raw, seen>> /\ BuildTypeOK'
  BY <1>0, <1>1 DEF Begin, buildVars, BInv
<1>2. CASE Begin
  <2>1. TypeOK'
    <3>0. lost' \in BOOLEAN /\ stale' \in BOOLEAN
      BY <1>2 DEF Begin
    <3>1. slots' \in Lists /\ changes' \in Nat
      BY <1>2 DEF Begin, Counted, PInv, TypeOK
    <3>2. state' \in States /\ next' \in 0..Count
      BY <1>2 DEF Begin, States
    <3>3. load' = "none"
      BY <1>2 DEF Begin, Idle, PInv, Protocol
    <3> QED BY <1>2, <1>a, <3>0, <3>1, <3>2, <3>3 DEF Begin, PInv, TypeOK
  <2>2. Protocol' BY <1>2 DEF Begin, Idle, PInv, Protocol
  <2>3. Delivered' BY <1>2 DEF Begin, Delivered, Current, Sent
  <2> QED BY <1>1, <2>1, <2>2, <2>3 DEF PInv
<1>3. CASE Clear
  <2>0. /\ state = "clearing" /\ state' = "filling" /\ load' = "clear" /\ part' = 1
        /\ UNCHANGED <<store, list, stale, lost, changes, slots, next>>
    BY <1>3 DEF Clear, Ask, drive
  <2>1. TypeOK' BY <1>a, <2>0 DEF PInv, TypeOK, States, Loads, Part
  <2>2. Protocol' BY <2>0 DEF Protocol
  <2>3. Delivered'
    BY <1>a, <2>0 DEF PInv, Protocol, Delivered, Current, Sent, Wanted, Entries
  <2> QED BY <1>1, <2>1, <2>2, <2>3 DEF PInv
<1>4. CASE EmptyEntry
  <2>0. /\ state = "filling" /\ load = "none" /\ next \in Entries /\ slots[next] = None /\ next' = next + 1
        /\ UNCHANGED <<store, list, stale, lost, changes, state, slots, load, part>>
    BY <1>4 DEF EmptyEntry, Filling, Idle, drive
  <2>1. TypeOK' BY <1>a, <2>0 DEF PInv, TypeOK, Entries
  <2>2. Protocol' BY <1>a, <2>0 DEF PInv, Protocol
  <2>3. Delivered'
    BY <1>a, <2>0 DEF PInv, TypeOK, Delivered, Current, Sent, Wanted, Entries
  <2> QED BY <1>1, <2>1, <2>2, <2>3 DEF PInv
<1>5. CASE SendTable
  <2>0. /\ state = "filling" /\ load = "none" /\ next \in Entries /\ slots[next] # None /\ next' = next + 1
        /\ load' = "table" /\ part' = 1
        /\ UNCHANGED <<store, list, stale, lost, changes, state, slots>>
    BY <1>5 DEF SendTable, Filling, Ask, Idle, drive
  <2>1. TypeOK'
    <3>1. next' \in 0..Count /\ next' > 0 /\ next' - 1 = next /\ part' \in Part
      BY <2>0 DEF Entries, Part
    <3> QED BY <1>a, <2>0, <3>1 DEF PInv, TypeOK, Loads
  <2>2. Protocol' BY <1>a, <2>0 DEF PInv, Protocol
  <2>3. Delivered'
    <3> SUFFICES ASSUME Current, NEW e \in Wanted, NEW p \in Part, Sent(e, p)' PROVE Sent(e, p)
      BY <1>a, <2>0 DEF PInv, Delivered, Current, Wanted
    <3> QED BY <2>0 DEF Sent, Wanted, Entries, Part
  <2> QED BY <1>1, <2>1, <2>2, <2>3 DEF PInv
<1>6. CASE SendDirectory
  <2>0. /\ state = "filling" /\ load = "none" /\ next \notin Filling /\ state' = "magic"
        /\ load' = "directory" /\ part' = 1
        /\ UNCHANGED <<store, list, stale, lost, changes, slots, next>>
    BY <1>6 DEF SendDirectory, Ask, Idle, drive
  <2>1. TypeOK' BY <1>a, <2>0 DEF PInv, TypeOK, Loads, States, Part
  <2>2. Protocol' BY <1>a, <2>0 DEF PInv, Protocol
  <2>3. Delivered'
    <3>1. \A e \in Wanted : e < next
      <4> SUFFICES ASSUME NEW e \in Wanted, ~(e < next) PROVE FALSE
        OBVIOUS
      <4>1. next \in Entries /\ e >= next /\ slots[e] # None /\ e \in Entries
        BY DEF Wanted, Entries, PInv, TypeOK
      <4> QED BY <2>0, <4>1 DEF Filling
    <3> QED BY <1>a, <2>0, <3>1 DEF PInv, Delivered, Current, Sent, Wanted
  <2> QED BY <1>1, <2>1, <2>2, <2>3 DEF PInv
<1>7. CASE SendMagic
  <2>0. /\ state = "magic" /\ load = "none" /\ state' = "directory" /\ load' = "magic" /\ part' = 1
        /\ UNCHANGED <<store, list, stale, lost, changes, slots, next>>
    BY <1>7 DEF SendMagic, Ask, Idle, drive
  <2>1. TypeOK' BY <1>a, <2>0 DEF PInv, TypeOK, Loads, States, Part
  <2>2. Protocol' BY <1>a, <2>0 DEF PInv, Protocol, Wanted
  <2>3. Delivered' BY <1>a, <2>0 DEF PInv, Delivered, Current, Sent, Wanted
  <2> QED BY <1>1, <2>1, <2>2, <2>3 DEF PInv
<1>8. CASE Done
  <2>0. /\ state = "directory" /\ load = "none" /\ state' = "ready"
        /\ UNCHANGED <<store, list, stale, lost, changes, slots, next, load, part>>
    BY <1>8 DEF Done, Idle, drive
  <2>1. TypeOK' BY <1>a, <2>0 DEF PInv, TypeOK, States
  <2>2. Protocol' BY <1>a, <2>0 DEF PInv, Protocol, Wanted
  <2>3. Delivered' BY <1>a, <2>0 DEF PInv, Delivered, Current, Sent, Wanted
  <2> QED BY <1>1, <2>1, <2>2, <2>3 DEF PInv
<1> QED BY <1>2, <1>3, <1>4, <1>5, <1>6, <1>7, <1>8 DEF Pass

-----------------------------------------------------------------------------
(* A message arrives: it was the one the state says.                       *)
LEMMA ArrivesInv == PInv /\ Arrives => PInv'
<1> SUFFICES ASSUME PInv, Arrives PROVE PInv'
  OBVIOUS
<1>0. state # "failed" /\ UNCHANGED <<store, list, stale, lost, changes, state, slots, next>>
  BY DEF Arrives, drive, fill
<1>1. BInv'
  BY StepKeepsContract, BuildStepInv DEF PInv, Next
<1>2. BuildTypeOK' BY <1>1 DEF BInv
<1>3. CASE load = "clear" /\ PutMagic(FALSE) /\ load' = "none" /\ UNCHANGED part
  <2>0. state = "filling" BY <1>0, <1>3 DEF PInv, Protocol, TypeOK, States
  <2>1. TypeOK' BY <1>0, <1>2, <1>3 DEF PInv, TypeOK, Loads
  <2>2. Protocol' BY <1>0, <1>3, <2>0 DEF Protocol, PutMagic
  <2>3. Delivered'
    BY <1>0, <1>3, <2>0 DEF PInv, Delivered, Current, Sent, Wanted, PutMagic
  <2> QED BY <1>1, <2>1, <2>2, <2>3 DEF PInv
<1>4. CASE /\ load = "table"
           /\ PutPair(next - 1, part, store[slots[next - 1]])
           /\ IF part < Pairs THEN part' = part + 1 /\ UNCHANGED load
                              ELSE load' = "none" /\ part' = 1
  <2>0. state = "filling" /\ next - 1 \in Entries /\ part \in Part /\ slots[next - 1] # None
    BY <1>0, <1>4 DEF PInv, Protocol, TypeOK, States, Entries
  <2>1. TypeOK' BY <1>0, <1>2, <1>4, <2>0 DEF PInv, TypeOK, Loads, Part
  <2>2. Protocol' BY <1>0, <1>4, <2>0 DEF PInv, Protocol, PutPair
  <2>3. Delivered'
    <3> SUFFICES ASSUME Current, NEW e \in Wanted, NEW p \in Part, Sent(e, p)'
                 PROVE  raw'[e][p] = store[slots[e]]
      BY <1>0 DEF PInv, Delivered, Current, Wanted
    <3>1. raw'[e][p] = IF e = next - 1 /\ p = part THEN store[slots[next - 1]] ELSE raw[e][p]
      BY <1>4, <2>0 DEF PutPair, PInv, TypeOK, BuildTypeOK, Content, Wanted
    <3>2. CASE e = next - 1 /\ p = part BY <3>1, <3>2
    <3>3. CASE ~(e = next - 1 /\ p = part)
      <4>1. Sent(e, p)
        BY <1>0, <1>4, <2>0, <3>3 DEF Sent, Part, Wanted, Entries
      <4> QED BY <3>1, <3>3, <4>1 DEF PInv, Delivered
    <3> QED BY <3>2, <3>3
  <2> QED BY <1>1, <2>1, <2>2, <2>3 DEF PInv
<1>5. CASE load = "directory" /\ PutDirectory(Wanted) /\ load' = "none" /\ UNCHANGED part
  <2>0. state = "magic" BY <1>0, <1>5 DEF PInv, Protocol, TypeOK, States
  <2>1. TypeOK' BY <1>0, <1>2, <1>5 DEF PInv, TypeOK, Loads
  <2>2. Protocol' BY <1>0, <1>5, <2>0 DEF PInv, Protocol, PutDirectory, Wanted
  <2>3. Delivered'
    BY <1>0, <1>5, <2>0 DEF PInv, Delivered, Current, Sent, Wanted, PutDirectory
  <2> QED BY <1>1, <2>1, <2>2, <2>3 DEF PInv
<1>6. CASE load = "magic" /\ PutMagic(TRUE) /\ load' = "none" /\ UNCHANGED part
  <2>0. state = "directory" BY <1>0, <1>6 DEF PInv, Protocol, TypeOK, States
  <2>1. TypeOK' BY <1>0, <1>2, <1>6 DEF PInv, TypeOK, Loads
  <2>2. Protocol' BY <1>0, <1>6, <2>0 DEF PInv, Protocol, PutMagic, Wanted
  <2>3. Delivered'
    BY <1>0, <1>6, <2>0 DEF PInv, Delivered, Current, Sent, Wanted, PutMagic
  <2> QED BY <1>1, <2>1, <2>2, <2>3 DEF PInv
<1> QED BY <1>3, <1>4, <1>5, <1>6 DEF Arrives, Wanted

-----------------------------------------------------------------------------
(* A change or an error is recorded: stale, or lost.                       *)
LEMMA DriveInv == PInv /\ (ReadError \/ Fails \/ Change) => PInv'
<1> SUFFICES ASSUME PInv, ReadError \/ Fails \/ Change PROVE PInv'
  OBVIOUS
<1>0. UNCHANGED buildVars
  BY DEF ReadError, Fails, Change, ListChange, Upload
<1>1. BInv' BY <1>0, BuildStepInv DEF PInv
<1>a. UNCHANGED <<magic, listed, raw, seen>> /\ BuildTypeOK'
  BY <1>0, <1>1 DEF buildVars, BInv
<1>2. CASE ReadError
  <2>0. /\ load = "table" /\ load' = "none" /\ part' = 1 /\ lost' = TRUE /\ changes' = changes + 1
        /\ state # "failed" /\ UNCHANGED <<store, list, stale, state, slots, next>>
    BY <1>2 DEF ReadError, Counted, fill
  <2>1. TypeOK' BY <1>a, <2>0 DEF PInv, TypeOK, Loads, Part
  <2>2. Protocol' BY <1>a, <2>0 DEF PInv, TypeOK, States, Protocol
  <2>3. Delivered' BY <2>0 DEF Delivered, Current
  <2> QED BY <1>1, <2>1, <2>2, <2>3 DEF PInv
<1>3. CASE Fails
  <2>0. /\ state' = "failed" /\ load' = "none" /\ part' = 1
        /\ UNCHANGED <<store, list, stale, lost, changes, slots, next>>
    BY <1>3 DEF Fails, drive
  <2>1. TypeOK' BY <1>a, <2>0 DEF PInv, TypeOK, Loads, States, Part
  <2>2. Protocol' BY <2>0 DEF Protocol
  <2>3. Delivered' BY <2>0 DEF Delivered, Current
  <2> QED BY <1>1, <2>1, <2>2, <2>3 DEF PInv
<1>4. CASE Change
  <2>0. /\ changes' = changes + 1 /\ UNCHANGED <<state, slots, next, load, part>>
        /\ store' \in [Slots -> Tables] /\ list' \in Lists
        /\ stale' \in BOOLEAN /\ lost' \in BOOLEAN /\ (stale' \/ lost')
    <3>1. CASE ListChange
      BY <3>1 DEF ListChange, Counted, fill, PInv, TypeOK
    <3>2. ASSUME NEW n \in Slots, NEW t \in Tables, NEW ok \in BOOLEAN, Upload(n, t, ok) PROVE <2>0!:
      <4>1. store' \in [Slots -> Tables] BY <3>2 DEF Upload, PInv, TypeOK
      <4>2. stale' \/ lost' BY <3>2 DEF Upload
      <4>3. stale' \in BOOLEAN /\ lost' \in BOOLEAN BY <3>2 DEF Upload, PInv, TypeOK
      <4> QED BY <3>2, <4>1, <4>2, <4>3 DEF Upload, Counted, fill, PInv, TypeOK
    <3> QED BY <1>4, <3>1, <3>2 DEF Change
  <2>1. TypeOK' BY <1>a, <2>0 DEF PInv, TypeOK
  <2>2. Protocol' BY <1>a, <2>0 DEF PInv, Protocol, Wanted
  <2>3. Delivered' BY <2>0 DEF Delivered, Current
  <2> QED BY <1>1, <2>1, <2>2, <2>3 DEF PInv
<1> QED BY <1>2, <1>3, <1>4

(* The DSP writes neither tables nor directory, and sees a generation only *)
(* under its magic.                                                        *)
LEMMA DspInv == PInv /\ Dsp => PInv'
<1> SUFFICES ASSUME PInv, Dsp PROVE PInv'
  OBVIOUS
<1>0. UNCHANGED <<store, list, stale, lost, changes, state, slots, next, load, part>>
  BY DEF Dsp, drive, fill
<1>1. BInv' BY StepKeepsContract, BuildStepInv DEF PInv, Next
<1>2. UNCHANGED <<magic, listed, raw>> /\ (~magic => seen' = seen)
  BY DEF Dsp, Build, Block, Skip, Wait, Start, Finish, Called, directory
<1>3. TypeOK' BY <1>0, <1>1 DEF PInv, TypeOK, BInv
<1>4. Protocol' BY <1>0, <1>2 DEF PInv, Protocol, Wanted
<1>5. Delivered' BY <1>0, <1>2 DEF PInv, Delivered, Current, Sent, Wanted
<1> QED BY <1>1, <1>3, <1>4, <1>5 DEF PInv

-----------------------------------------------------------------------------
(* Every step preserves the invariant.                                     *)
LEMMA PoolStep == PInv /\ [Next]_vars => PInv'
<1> SUFFICES ASSUME PInv, [Next]_vars PROVE PInv'
  OBVIOUS
<1>1. CASE UNCHANGED vars
  <2>0. UNCHANGED <<store, list, stale, lost, changes, state, slots, next, load, part, magic, listed, raw, seen>>
    BY <1>1 DEF vars, buildVars
  <2>1. BInv' BY <1>1, BuildStepInv DEF PInv, vars
  <2>2. TypeOK' BY <2>0, <2>1 DEF PInv, TypeOK, BInv
  <2>3. (Protocol /\ Delivered)'
    BY <2>0 DEF PInv, Protocol, Delivered, Current, Sent, Wanted
  <2> QED BY <2>1, <2>2, <2>3 DEF PInv
<1> QED BY <1>1, PassInv, ArrivesInv, DriveInv, DspInv DEF Next

(* Ready, with nothing changed or lost and every entry passed: the levels  *)
(* are the loaded tables, which are the stored ones.                       *)
LEMMA PoolMeaning == PInv => TypeOK /\ BuiltAsLoaded /\ SettledIsRight
<1> SUFFICES ASSUME PInv PROVE TypeOK /\ BuiltAsLoaded /\ SettledIsRight
  OBVIOUS
<1>1. TypeOK /\ BuiltAsLoaded BY DEF PInv, BInv
<1>2. ASSUME state = "ready", ~stale, ~lost, seen, j = Count PROVE Right
  <2>1. magic /\ listed = Wanted /\ slots = list
    BY <1>2 DEF PInv, Protocol, Delivered, Current
  <2> SUFFICES ASSUME NEW e \in Entries
               PROVE  IF list[e] = None THEN built[e] = None
                      ELSE built[e] # None /\ \A p \in Part : levels[built[e]][p] = store[list[e]]
    BY DEF Right
  <2>2. e < j BY <1>2 DEF Entries
  <2>3. /\ built[e] # None <=> list[e] # None
        /\ list[e] # None => levels[built[e]] = raw[e]
    BY <1>1, <1>2, <2>1, <2>2 DEF BuiltAsLoaded, Wanted
  <2>4. list[e] # None => \A p \in Part : raw[e][p] = store[list[e]]
    BY <1>2, <2>1 DEF PInv, Delivered, Current, Sent, Wanted
  <2> QED BY <2>3, <2>4
<1> QED BY <1>1, <1>2 DEF SettledIsRight

-----------------------------------------------------------------------------
(* Types of the pool's state.                                              *)
THEOREM PoolTyped == Spec => []TypeOK
BY PoolInit, PoolStep, PoolMeaning, PTL DEF Spec

(* The fill implements the contract the builder relies on, whatever fails  *)
(* and however its messages and the builder's calls interleave.            *)
THEOREM PoolKeepsContract == Spec => KeepsContract
<1>1. Init => BuildInit BY DEF Init
<1> QED BY <1>1, PoolInit, PoolStep, StepKeepsContract, PTL DEF Spec, KeepsContract, BuildSpec

(* So what is named in a generation is the whole table as loaded.          *)
THEOREM PoolBuildsAsLoaded == Spec => []BuiltAsLoaded
BY PoolInit, PoolStep, PoolMeaning, PTL DEF Spec

(* And it is what the list and the store say, once nothing has changed or  *)
(* failed since begin(), for every number of entries, pairs and changes.   *)
THEOREM PoolSettlesRight == Spec => []SettledIsRight
BY PoolInit, PoolStep, PoolMeaning, PTL DEF Spec
=============================================================================
