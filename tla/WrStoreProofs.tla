--------------------------- MODULE WrStoreProofs ---------------------------
(***************************************************************************)
(* WrStore, proved for any slots, tables, names and bounds.                *)
(*                                                                         *)
(* Type correctness first.  Then the inductive invariant: a group's        *)
(* generation is below the current one's unless it is the current group    *)
(* (GroupInv), so the index written over the other group cannot become     *)
(* current before its superblock does; and the commit under way is the     *)
(* current index with one entry changed, aimed at the other group          *)
(* (JobInv).  From these follow durability, the tables' integrity and the  *)
(* refinement of StoreSpec, for a device whose reads do not fail under a   *)
(* commit (CommitReadErrors = FALSE): one that fails makes the other group *)
(* look current, and the commit writes over the one that is.               *)
(***************************************************************************)
EXTENDS WrStore, TLAPS

-----------------------------------------------------------------------------
(* Types.                                                                  *)

LEMMA AfterType ==
  ASSUME NEW S, NEW o, NEW old \in S \union {None}, NEW new \in S
  PROVE  After(o, old, new) \in S \union {None}
BY DEF After

(* The group wr_store_index chooses is one it could read, and valid.       *)
LEMMA ChosenValid ==
  ASSUME NEW readable, Chosen(readable) # None
  PROVE  /\ Chosen(readable) \in Groups
         /\ Valid(Chosen(readable))
BY DEF Chosen, Groups

(* The index it returns is an index: a valid group's is not torn.          *)
LEMMA ChosenIndex ==
  ASSUME TypeOK, NEW readable
  PROVE  /\ IndexIn(Chosen(readable)) \in Index
         /\ GenIn(Chosen(readable)) \in Nat
<1>1. CASE Chosen(readable) = None
  BY <1>1 DEF IndexIn, GenIn, EmptyIndex, Index, Entries
<1>2. CASE Chosen(readable) # None
  BY <1>2, ChosenValid DEF IndexIn, GenIn, Valid, TypeOK, Superblock
<1> QED BY <1>1, <1>2

LEMMA NoJobType == NoJob \in Job
BY DEF NoJob, Job, Steps, Entries, EmptyIndex, Index, Groups

LEMMA StartType ==
  ASSUME TypeOK, NEW n \in Slots, NEW e \in Entries,
         NEW t \in Tables \union {None}, Start(n, e, t)
  PROVE  /\ job' \in Job
         /\ acked' \in [Slots -> Entries \union {None}]
<1>1. job' \in Job
  BY NoJobType DEF Start, Job, Steps
<1>2. acked' \in [Slots -> Entries \union {None}]
  BY DEF Start, TypeOK
<1> QED BY <1>1, <1>2

LEMMA ExtentType ==
  ASSUME TypeOK, NEW o, Extent(o)
  PROVE  /\ data' \in [Slots -> Tables \union {None}]
         /\ damaged' \subseteq Slots \union {job.slot}
BY DEF Extent, After, TypeOK, Job

LEMMA IndexSectorsType ==
  ASSUME TypeOK, NEW readable, NEW o, IndexSectors(o, Chosen(readable))
  PROVE  /\ NewImage(Chosen(readable)) \in Index
         /\ Target(Chosen(readable)) \in Groups
         /\ idx' \in [Groups -> Index \union {None}]
<1> DEFINE c == Chosen(readable)
<1>1. IndexIn(c) \in Index
  BY ChosenIndex
<1>2. job.entry \in Entries
  BY DEF TypeOK, Job
<1>3. NewImage(c) \in Index
  BY <1>1, <1>2 DEF NewImage, Index
<1>4. Target(c) \in Groups
  BY DEF Target, Other, Groups
<1>5. After(o, idx[Target(c)], NewImage(c)) \in Index \union {None}
  BY <1>3, <1>4 DEF After, TypeOK
<1>6. idx' \in [Groups -> Index \union {None}]
  <2> DEFINE w == After(o, idx[Target(c)], NewImage(c))
  <2>1. idx' = [idx EXCEPT ![Target(c)] = w]
    BY DEF IndexSectors
  <2> HIDE DEF w
  <2> QED BY <2>1, <1>5 DEF TypeOK, w
<1> QED BY <1>3, <1>4, <1>6

LEMMA SuperblockSectorType ==
  ASSUME TypeOK, NEW o, SuperblockSector(o)
  PROVE  /\ sb' \in [Groups -> Superblock \union {None}]
         /\ damaged' \subseteq Slots
<1>1. NewSuperblock \in Superblock
  BY DEF NewSuperblock, Superblock, TypeOK, Job
<1>2. After(o, sb[job.target], NewSuperblock) \in Superblock \union {None}
  BY <1>1 DEF After, TypeOK, Job
<1>3. sb' \in [Groups -> Superblock \union {None}]
  BY <1>2 DEF SuperblockSector, TypeOK
<1>4. damaged' \subseteq Slots
  BY DEF SuperblockSector, TypeOK
<1> QED BY <1>3, <1>4

(* A commit under way is a commit of some slot, an open transfer writes    *)
(* one, and a body that passes the entry checks says something.            *)
JobSlot      == ~Idle => job.slot \in Slots
TransferSlot == transfer # NoTransfer => transfer.slot \in Slots
Wellformed   == transfer.fits => /\ transfer.hash \in Tables
                                 /\ transfer.name \in Names
                                 /\ transfer.table \in Tables

TypeInv == TypeOK /\ JobSlot /\ TransferSlot /\ Wellformed

LEMMA NoTransferType == NoTransfer \in Transfer /\ ~NoTransfer.fits
BY DEF NoTransfer, Transfer

(* The parts of TypeInv about the transfer, and about the job.             *)
TransferOK == transfer \in Transfer /\ TransferSlot /\ Wellformed
JobOK      == job \in Job /\ JobSlot

LEMMA OpenTableType ==
  ASSUME TypeInv, NEW n \in Slots, OpenTable(n) PROVE TypeInv'
<1>1. TransferOK'
  <2>1. CASE transfer' = [NoTransfer EXCEPT !.kind = "table", !.slot = n]
    BY <2>1 DEF TransferOK, Transfer, NoTransfer, TransferSlot, Wellformed
  <2>2. ASSUME NEW h \in Tables, NEW x \in Names, NEW t \in Tables,
               transfer' = [kind |-> "table", slot |-> n, fits |-> TRUE,
                            hash |-> h, name |-> x, table |-> t]
        PROVE  TransferOK'
    BY <2>2 DEF TransferOK, Transfer, TransferSlot, Wellformed
  <2> QED BY <2>1, <2>2 DEF OpenTable
<1> QED BY <1>1 DEF OpenTable, device, history, TypeInv, TypeOK, TransferOK,
                    JobSlot, Idle

LEMMA OpenRenameType ==
  ASSUME TypeInv, NEW n \in Slots, OpenRename(n) PROVE TypeInv'
<1>1. TransferOK'
  BY DEF OpenRename, TransferOK, Transfer, NoTransfer, TransferSlot, Wellformed
<1> QED BY <1>1 DEF OpenRename, device, history, TypeInv, TypeOK, TransferOK,
                    JobSlot, Idle

(* The transfer ends, and nothing else changes.                            *)
LEMMA TransferEnds == transfer' = NoTransfer => TransferOK'
BY NoTransferType DEF TransferOK, TransferSlot, Wellformed

LEMMA AbortType == TypeInv /\ Abort => TypeInv'
BY TransferEnds DEF Abort, device, history, TypeInv, TypeOK, TransferOK, JobSlot, Idle

LEMMA StartJob ==
  ASSUME TypeInv, NEW n \in Slots, NEW e \in Entries,
         NEW t \in Tables \union {None}, Start(n, e, t)
  PROVE  JobOK' /\ acked' \in [Slots -> Entries \union {None}]
<1>1. job'.slot = n
  BY DEF Start, NoJob
<1> QED BY <1>1, StartType DEF JobOK, JobSlot, TypeInv

LEMMA CommitTableType == TypeInv /\ CommitTable => TypeInv'
<1> SUFFICES ASSUME TypeInv, CommitTable PROVE TypeInv'
  OBVIOUS
<1>1. JobOK' /\ acked' \in [Slots -> Entries \union {None}]
  <2>1. CASE transfer.fits /\ transfer.table = transfer.hash
    <3> DEFINE e == [hash |-> transfer.hash, name |-> transfer.name]
    <3>1. Start(transfer.slot, e, transfer.table)
      BY <2>1 DEF CommitTable
    <3>2. e \in Entries /\ transfer.table \in Tables
      BY <2>1 DEF TypeInv, Wellformed, Entries, Entry
    <3>3. transfer.slot \in Slots
      BY DEF CommitTable, TypeInv, TransferSlot, NoTransfer
    <3> HIDE DEF e
    <3> QED BY <3>1, <3>2, <3>3, StartJob
  <2>2. CASE ~(transfer.fits /\ transfer.table = transfer.hash)
    BY <2>2 DEF CommitTable, Refuse, TypeInv, TypeOK, JobOK, JobSlot, Idle
  <2> QED BY <2>1, <2>2
<1> QED BY <1>1, TransferEnds DEF CommitTable, device, TypeInv, TypeOK,
                                  TransferOK, JobOK

LEMMA CommitRenameType == TypeInv /\ CommitRename => TypeInv'
<1> SUFFICES ASSUME TypeInv, CommitRename PROVE TypeInv'
  OBVIOUS
<1>1. JobOK' /\ acked' \in [Slots -> Entries \union {None}]
  <2>1. PICK readable \in Readable :
          LET old == IndexIn(Chosen(readable))[transfer.slot]
          IN  IF old # Free /\ transfer.name # None
              THEN Start(transfer.slot,
                         [hash |-> old.hash, name |-> transfer.name], None)
              ELSE Refuse
    BY DEF CommitRename
  <2> DEFINE old == IndexIn(Chosen(readable))[transfer.slot]
             e   == [hash |-> old.hash, name |-> transfer.name]
  <2>2. transfer.slot \in Slots
    BY DEF CommitRename, TypeInv, TransferSlot, NoTransfer
  <2>3. old \in Entries
    BY <2>2, ChosenIndex DEF TypeInv, Index
  <2>4. CASE old # Free /\ transfer.name # None
    <3>1. Start(transfer.slot, e, None)
      BY <2>1, <2>4
    <3>2. e \in Entries
      BY <2>3, <2>4 DEF Entries, Entry, TypeInv, TypeOK, Transfer
    <3> HIDE DEF e
    <3> QED BY <3>1, <3>2, <2>2, StartJob
  <2>5. CASE ~(old # Free /\ transfer.name # None)
    BY <2>1, <2>5 DEF Refuse, TypeInv, TypeOK, JobOK, JobSlot, Idle
  <2> QED BY <2>4, <2>5
<1> QED BY <1>1, TransferEnds DEF CommitRename, device, TypeInv, TypeOK,
                                  TransferOK, JobOK

LEMMA DeleteType ==
  ASSUME TypeInv, NEW n \in Slots, Delete(n) PROVE TypeInv'
<1>1. JobOK' /\ acked' \in [Slots -> Entries \union {None}]
  BY StartJob DEF Delete, Entries
<1> QED BY <1>1 DEF Delete, device, TypeInv, TypeOK, JobOK, TransferSlot, Wellformed

(* The writes of a commit.                                                 *)
LEMMA FailType == Fail => JobOK'
BY NoJobType DEF Fail, JobOK, JobSlot, Idle, NoJob

LEMMA WriteTableType ==
  ASSUME TypeInv, NEW o \in Outcomes, WriteTable(o) PROVE TypeInv'
<1>1. JobOK'
  <2>1. CASE o = "done"
    BY <2>1 DEF WriteTable, Extent, JobOK, JobSlot, Idle, TypeInv, TypeOK, Job, Steps
  <2>2. CASE o # "done"
    BY <2>2, FailType DEF WriteTable
  <2> QED BY <2>1, <2>2
<1>2. job.slot \in Slots
  BY DEF WriteTable, Extent, TypeInv, JobSlot, Idle
<1> QED BY <1>1, <1>2, ExtentType DEF WriteTable, Extent, TypeInv, TypeOK, JobOK,
                                      TransferSlot, Wellformed

LEMMA WriteIndexType ==
  ASSUME TypeInv, NEW o \in Outcomes, WriteIndex(o) PROVE TypeInv'
<1>1. PICK readable \in Readable :
        /\ IndexSectors(o, Chosen(readable))
        /\ IF o = "done"
           THEN job' = [job EXCEPT !.step = "superblock",
                                   !.target = Target(Chosen(readable)),
                                   !.gen = GenIn(Chosen(readable)),
                                   !.image = NewImage(Chosen(readable))]
           ELSE Fail
  BY DEF WriteIndex
<1> DEFINE c == Chosen(readable)
<1>2. /\ NewImage(c) \in Index
      /\ Target(c) \in Groups
      /\ idx' \in [Groups -> Index \union {None}]
  BY <1>1, IndexSectorsType DEF TypeInv
<1>3. GenIn(c) \in Nat
  BY ChosenIndex DEF TypeInv
<1>4. JobOK'
  <2>1. CASE o = "done"
    <3> DEFINE i == NewImage(c)
               t == Target(c)
               k == GenIn(c)
    <3>1. job' = [job EXCEPT !.step = "superblock", !.target = t, !.gen = k,
                             !.image = i]
      BY <1>1, <2>1
    <3>2. job.slot \in Slots
      BY <1>1 DEF IndexSectors, TypeInv, JobSlot, Idle
    <3>3. i \in Index /\ t \in Groups /\ k \in Nat
      BY <1>2, <1>3
    <3> HIDE DEF i, t, k
    <3>4. job' \in Job
      BY <3>1, <3>3 DEF TypeInv, TypeOK, Job, Steps
    <3>5. job'.slot = job.slot
      BY <3>1 DEF TypeInv, TypeOK, Job
    <3> QED BY <3>2, <3>4, <3>5 DEF JobOK, JobSlot
  <2>2. CASE o # "done"
    BY <1>1, <2>2, FailType
  <2> QED BY <2>1, <2>2
<1> QED BY <1>1, <1>2, <1>4 DEF WriteIndex, IndexSectors, TypeInv, TypeOK, JobOK,
                                TransferSlot, Wellformed

LEMMA WriteSuperblockType ==
  ASSUME TypeInv, NEW o \in Outcomes, WriteSuperblock(o) PROVE TypeInv'
<1>1. JobOK'
  BY FailType DEF WriteSuperblock, Fail
<1>2. acked' \in [Slots -> Entries \union {None}] /\ changes' \in Nat
  BY DEF WriteSuperblock, TypeInv, TypeOK, Job
<1> QED BY <1>1, <1>2, SuperblockSectorType
        DEF WriteSuperblock, SuperblockSector, TypeInv, TypeOK, JobOK,
            TransferSlot, Wellformed

LEMMA PowerLossType == TypeInv /\ PowerLoss => TypeInv'
<1> SUFFICES ASSUME TypeInv, PowerLoss PROVE TypeInv'
  OBVIOUS
<1>1. JobOK' /\ TransferOK' /\ changes' \in Nat
  BY FailType, TransferEnds DEF PowerLoss, Fail
<1>2. CASE UNCHANGED <<device, damaged>>
  BY <1>1, <1>2 DEF PowerLoss, device, TypeInv, TypeOK, JobOK, TransferOK
<1>3. ASSUME NEW o \in Cuts, Extent(o) PROVE TypeInv'
  <2>1. job.slot \in Slots
    BY <1>3 DEF Extent, TypeInv, JobSlot, Idle
  <2> QED BY <1>1, <1>3, <2>1, ExtentType
          DEF PowerLoss, Extent, TypeInv, TypeOK, JobOK, TransferOK
<1>4. ASSUME NEW o \in Cuts, NEW readable \in Readable,
             IndexSectors(o, Chosen(readable))
      PROVE  TypeInv'
  BY <1>1, <1>4, IndexSectorsType
     DEF PowerLoss, IndexSectors, TypeInv, TypeOK, JobOK, TransferOK
<1>5. ASSUME NEW o \in Cuts, SuperblockSector(o) PROVE TypeInv'
  BY <1>1, <1>5, SuperblockSectorType
     DEF PowerLoss, SuperblockSector, TypeInv, TypeOK, JobOK, TransferOK
<1> QED BY <1>2, <1>3, <1>4, <1>5 DEF PowerLoss

LEMMA TypeInit == Init => TypeInv
BY NoJobType, NoTransferType
   DEF Init, TypeInv, TypeOK, JobSlot, TransferSlot, Wellformed, Idle, NoJob,
       EmptyIndex, Index, Entries

LEMMA TypeStep == TypeInv /\ [Next]_vars => TypeInv'
<1>1. TypeInv /\ UNCHANGED vars => TypeInv'
  BY DEF vars, TypeInv, TypeOK, JobSlot, Idle, TransferSlot, Wellformed
<1>2. TypeInv /\ Next => TypeInv'
  BY OpenTableType, OpenRenameType, DeleteType, AbortType, CommitTableType,
     CommitRenameType, WriteTableType, WriteIndexType, WriteSuperblockType,
     PowerLossType DEF Next
<1> QED BY <1>1, <1>2

LEMMA TypeAlways == Spec => []TypeInv
BY TypeInit, TypeStep, PTL DEF Spec

(* Every reachable state is well typed, read errors or not.                *)
THEOREM StoreTypes == Spec => []TypeOK
<1>1. TypeInv => TypeOK
  BY DEF TypeInv
<1> QED BY <1>1, TypeAlways, PTL

-----------------------------------------------------------------------------
(* Which group is current after a step.                                    *)

(* The current group keeps its sectors and the other's superblock is at    *)
(* most lost: the current group stays, whatever the other's index holds.   *)
GroupsKept == /\ \A g \in Groups : sb'[g] = sb[g] \/ (g # Current /\ sb'[g] = None)
              /\ Current # None => idx'[Current] = idx[Current]

LEMMA CurrentStays ==
  ASSUME TypeOK, GroupInv, GroupsKept
  PROVE  /\ Current' = Current
         /\ CurrentIndex' = CurrentIndex
         /\ GenIn(Current)' = GenIn(Current)
         /\ GroupInv'
<1>1. CASE Current = None
  <2>1. \A g \in Groups : sb[g] = None /\ sb'[g] = None
    BY <1>1 DEF GroupInv, GroupsKept
  <2>2. Current' = None
    BY <2>1 DEF Current, Chosen, Valid, Groups
  <2> QED BY <1>1, <2>1, <2>2 DEF CurrentIndex, IndexIn, GenIn, GroupInv
<1>2. CASE Current # None
  <2> DEFINE c == Current
  <2>1. c \in Groups /\ Valid(c)
    BY <1>2, ChosenValid DEF Current
  <2>2. sb'[c] = sb[c] /\ idx'[c] = idx[c] /\ sb'[c] # None
    BY <1>2, <2>1 DEF GroupsKept, Valid
  <2>3. \A g \in Groups : g # c /\ sb'[g] # None => sb'[g].gen < sb'[c].gen
    BY <2>1, <2>2 DEF GroupsKept, GroupInv
  <2>4. \A g \in Groups : sb'[g] # None => sb'[g].gen \in Nat
    BY DEF GroupsKept, TypeOK, Superblock
  <2>5. Current' = c
    BY <2>1, <2>2, <2>3, <2>4 DEF Current, Chosen, Valid, Groups
  <2> QED BY <1>2, <2>1, <2>2, <2>3, <2>5
          DEF CurrentIndex, IndexIn, GenIn, GroupInv
<1> QED BY <1>1, <1>2

(* The other group gets a superblock for the index it holds, one           *)
(* generation up: it is current now.                                       *)
LEMMA OtherTakesOver ==
  ASSUME TypeOK, GroupInv, NEW t, t = Target(Current), idx[t] \in Index,
         UNCHANGED idx,
         sb' = [sb EXCEPT ![t] = [gen |-> GenIn(Current) + 1, hash |-> idx[t]]]
  PROVE  /\ Current' = t
         /\ CurrentIndex' = idx[t]
         /\ GroupInv'
<1> DEFINE new == [gen |-> GenIn(Current) + 1, hash |-> idx[t]]
<1>1. t \in Groups /\ t # None
  BY StoreAssumption DEF Target, Other, Groups
<1>2. GenIn(Current) \in Nat
  BY ChosenIndex DEF Current
<1>3. new \in Superblock /\ new # None
  BY <1>2, StoreAssumption DEF Superblock
<1>4. sb'[t] = new /\ \A g \in Groups : g # t => sb'[g] = sb[g]
  BY <1>1 DEF TypeOK
<1>5. Valid(t)'
  BY <1>3, <1>4 DEF Valid
<1>6. \A g \in Groups : g # t /\ sb'[g] # None => sb'[g].gen < sb'[t].gen
  <2> SUFFICES ASSUME NEW g \in Groups, g # t, sb[g] # None
               PROVE  sb[g].gen < GenIn(Current) + 1
    BY <1>4
  <2>1. Current # None
    BY DEF GroupInv
  <2>2. g = Current
    BY <2>1, ChosenValid DEF Current, Target, Other, Groups
  <2> QED BY <1>2, <2>1, <2>2 DEF GenIn
<1>7. \A g \in Groups : sb'[g] # None => sb'[g].gen \in Nat
  BY <1>3, <1>4 DEF TypeOK, Superblock
<1>8. Current' = t
  <2>1. CASE t = "A"
    <3>1. sb'["A"] # None /\ sb'["A"].hash = idx'["A"]
      BY <2>1, <1>5 DEF Valid
    <3>2. sb'["B"] # None => ~(sb'["B"].gen > sb'["A"].gen)
      BY <2>1, <1>5, <1>6, <1>7 DEF Valid, Groups
    <3> QED BY <2>1, <3>1, <3>2 DEF Current, Chosen, Valid, Groups
  <2>2. CASE t = "B"
    <3>1. sb'["B"] # None /\ sb'["B"].hash = idx'["B"]
      BY <2>2, <1>5 DEF Valid
    <3>2. sb'["A"] # None => sb'["B"].gen > sb'["A"].gen
      BY <2>2, <1>5, <1>6, <1>7 DEF Valid, Groups
    <3> QED BY <2>2, <3>1, <3>2 DEF Current, Chosen, Valid, Groups
  <2> QED BY <1>1, <2>1, <2>2 DEF Groups
<1> QED BY <1>1, <1>6, <1>8 DEF CurrentIndex, IndexIn, GroupInv

-----------------------------------------------------------------------------
(* The three writes, whether a handler finishes them or a loss of power    *)
(* cuts them.                                                              *)

LEMMA CurrentIndexType == TypeOK => CurrentIndex \in Index /\ GenIn(Current) \in Nat
BY ChosenIndex DEF CurrentIndex, Current

LEMMA TargetType == Target(Current) \in Groups /\ Target(Current) # Current
BY StoreAssumption DEF Target, Other, Groups

(* The table goes to the slot's own extent, which is damaged if it changed *)
LEMMA ExtentKeeps ==
  ASSUME TypeInv, IInv, NEW o, Extent(o)
  PROVE  /\ Current' = Current /\ CurrentIndex' = CurrentIndex
         /\ GenIn(Current)' = GenIn(Current)
         /\ GroupInv' /\ TablesIntact' /\ CurrentGroupKept
<1>1. GroupsKept /\ CurrentGroupKept
  BY DEF Extent, GroupsKept, CurrentGroupKept
<1>2. /\ Current' = Current /\ CurrentIndex' = CurrentIndex
      /\ GenIn(Current)' = GenIn(Current) /\ GroupInv'
  BY <1>1, CurrentStays DEF TypeInv, IInv
<1>3. \A n \in Slots \ damaged' : n \notin damaged /\ data'[n] = data[n]
  BY DEF Extent, TypeInv, TypeOK
<1>4. TablesIntact'
  BY <1>2, <1>3 DEF TablesIntact, IInv, Described
<1> QED BY <1>1, <1>2, <1>4

(* The index goes to the group that is not current.                        *)
LEMMA IndexKeeps ==
  ASSUME TypeInv, IInv, NEW o, IndexSectors(o, Current)
  PROVE  /\ Current' = Current /\ CurrentIndex' = CurrentIndex
         /\ GenIn(Current)' = GenIn(Current)
         /\ GroupInv' /\ TablesIntact' /\ CurrentGroupKept
<1>1. GroupsKept /\ CurrentGroupKept
  BY TargetType, ChosenValid
     DEF IndexSectors, GroupsKept, CurrentGroupKept, TypeInv, TypeOK, Current
<1>2. /\ Current' = Current /\ CurrentIndex' = CurrentIndex
      /\ GenIn(Current)' = GenIn(Current) /\ GroupInv'
  BY <1>1, CurrentStays DEF TypeInv, IInv
<1>3. TablesIntact'
  BY <1>2 DEF TablesIntact, IInv, Described, IndexSectors
<1> QED BY <1>1, <1>2, <1>3

(* The superblock makes the change whole, or the current group stays.      *)
Applied == CurrentIndex' = [CurrentIndex EXCEPT ![job.slot] = job.entry]

LEMMA SuperblockKeeps ==
  ASSUME TypeInv, IInv, NEW o \in Outcomes, SuperblockSector(o)
  PROVE  /\ o \in {"done", "new"} => Applied
         /\ o \in {"old", "torn"} => CurrentIndex' = CurrentIndex
         /\ GroupInv' /\ TablesIntact' /\ CurrentGroupKept
<1> DEFINE t == job.target
<1>1. /\ job.slot \in Slots /\ t = Target(Current) /\ t \in Groups
      /\ job.gen = GenIn(Current) /\ job.image = idx[t]
      /\ idx[t] = [CurrentIndex EXCEPT ![job.slot] = job.entry]
      /\ job.image \in Index
  <2>1. ~Idle
    BY DEF SuperblockSector, Idle
  <2> QED BY <2>1, TargetType
          DEF SuperblockSector, IInv, JobInv, TypeInv, TypeOK, Job, JobSlot,
              NewImage, CurrentIndex
<1>2. CurrentGroupKept
  BY <1>1, TargetType DEF CurrentGroupKept, SuperblockSector, TypeInv, TypeOK
<1>3. CASE o \in {"done", "new"}
  <2>1. sb' = [sb EXCEPT ![t] = [gen |-> GenIn(Current) + 1, hash |-> idx[t]]]
    BY <1>1, <1>3 DEF SuperblockSector, After, NewSuperblock
  <2>2. CurrentIndex' = idx[t] /\ GroupInv'
    BY <1>1, <2>1, OtherTakesOver DEF SuperblockSector, TypeInv, IInv
  <2>3. TablesIntact'
    <3> SUFFICES ASSUME NEW n \in Slots \ damaged', CurrentIndex'[n] # Free
                 PROVE  data[n] = CurrentIndex'[n].hash
      BY DEF TablesIntact, Described, SuperblockSector
    <3>1. CASE n # job.slot
      <4>1. CurrentIndex'[n] = CurrentIndex[n]
        BY <1>1, <2>2, <3>1, CurrentIndexType DEF TypeInv, Index
      <4>2. n \notin damaged
        BY <3>1 DEF SuperblockSector
      <4> QED BY <4>1, <4>2 DEF IInv, TablesIntact, Described
    <3>2. CASE n = job.slot
      <4>1. CurrentIndex'[n] = job.entry
        BY <1>1, <2>2, <3>2, CurrentIndexType DEF TypeInv, Index
      <4>2. CASE job.table # None
        BY <3>2, <4>1, <4>2 DEF IInv, UploadInv, SuperblockSector
      <4>3. CASE job.table = None
        <5>1. n \notin damaged
          BY <4>1, <4>3 DEF SuperblockSector
        <5>2. CurrentIndex[n] # Free /\ CurrentIndex[n].hash = job.entry.hash
          BY <3>2, <4>1, <4>3 DEF IInv, RenameInv, Idle, SuperblockSector
        <5> QED BY <4>1, <5>1, <5>2 DEF IInv, TablesIntact, Described
      <4> QED BY <4>2, <4>3
    <3> QED BY <3>1, <3>2
  <2> QED BY <1>1, <1>2, <1>3, <2>2, <2>3 DEF Applied
<1>4. CASE o \in {"old", "torn"}
  <2>1. GroupsKept
    BY <1>1, <1>4, TargetType
       DEF GroupsKept, SuperblockSector, After, TypeInv, TypeOK
  <2>2. CurrentIndex' = CurrentIndex /\ GroupInv'
    BY <2>1, CurrentStays DEF TypeInv, IInv
  <2>3. TablesIntact'
    BY <1>4, <2>2 DEF TablesIntact, IInv, Described, SuperblockSector
  <2> QED BY <1>2, <1>4, <2>2, <2>3
<1> QED BY <1>3, <1>4 DEF Outcomes

-----------------------------------------------------------------------------
(* The inductive invariant.                                                *)

(* With no commit under way, the invariants of the commit hold.            *)
LEMMA NoJobKeeps == job' = NoJob => Idle' /\ UploadInv' /\ RenameInv' /\ JobInv'
BY DEF NoJob, Idle, UploadInv, RenameInv, JobInv

(* What every step does: keep the invariant and the current group, and     *)
(* take a step of the abstract store, or none.                             *)
Stutter == CurrentIndex' = CurrentIndex /\ Asked' = Asked
Good    == IInv' /\ CurrentGroupKept /\ (Abstract!Next \/ Stutter)

(* A step that leaves the device, the job and the history alone.           *)
LEMMA UntouchedKeeps ==
  ASSUME IInv, UNCHANGED <<device, job, history>>
  PROVE  Good
<1>1. Current' = Current /\ CurrentIndex' = CurrentIndex
      /\ GenIn(Current)' = GenIn(Current) /\ NewImage(Current)' = NewImage(Current)
  BY DEF device, Current, Chosen, Valid, Groups, CurrentIndex, IndexIn, GenIn, NewImage
<1>2. IInv' /\ CurrentGroupKept
  BY <1>1
     DEF device, history, IInv, GroupInv, UploadInv, RenameInv, JobInv, Durable,
         TablesIntact, Described, CurrentGroupKept, Idle, Target
<1>3. Stutter
  BY <1>1 DEF Stutter, Asked, Idle
<1> QED BY <1>2, <1>3 DEF Good

(* A commit starts: of an upload whose entry names its table, of a rename  *)
(* of a stored entry, or of a free entry.                                  *)
LEMMA StartKeeps ==
  ASSUME TypeInv, IInv, Idle, NEW n \in Slots, NEW e \in Entries,
         NEW t \in Tables \union {None}, Start(n, e, t),
         UNCHANGED <<device, damaged>>,
         t # None => e # Free /\ e.hash = t,
         t = None /\ e # Free => /\ CurrentIndex[n] # Free
                                /\ CurrentIndex[n].hash = e.hash
  PROVE  Good
<1>1. Current' = Current /\ CurrentIndex' = CurrentIndex
  BY DEF device, Current, Chosen, Valid, Groups, CurrentIndex, IndexIn
<1>2. /\ job'.slot = n /\ job'.entry = e /\ job'.table = t
      /\ job'.step = IF t = None THEN "index" ELSE "table"
  BY DEF Start, NoJob
<1>3. GroupInv' /\ TablesIntact' /\ CurrentGroupKept
  BY <1>1 DEF IInv, GroupInv, TablesIntact, Described, CurrentGroupKept, device
<1>4. acked'[n] = None /\ \A m \in Slots : m # n => acked'[m] = acked[m]
  BY DEF Start, TypeInv, TypeOK
<1>5. Durable'
  BY <1>1, <1>4 DEF Durable, IInv
<1>6. UploadInv' /\ RenameInv' /\ JobInv'
  BY <1>1, <1>2, <1>4 DEF UploadInv, RenameInv, JobInv, Idle
<1>7. Abstract!Ask
  BY <1>1, <1>2 DEF Abstract!Ask, Abstract!Requests, Asked, Idle, Entries
<1> QED BY <1>3, <1>5, <1>6, <1>7 DEF IInv, Good, Abstract!Next

(* The index found with the change, or as it was: what is acknowledged     *)
(* about the other slots stays.                                            *)
LEMMA DurableKeeps ==
  ASSUME TypeInv, IInv, ~Idle, CurrentIndex' = CurrentIndex \/ Applied,
         UNCHANGED acked
  PROVE  Durable'
<1>1. acked[job.slot] = None
  BY DEF IInv, JobInv
<1>2. \A n \in Slots : n # job.slot => CurrentIndex'[n] = CurrentIndex[n]
  BY CurrentIndexType DEF Applied, TypeInv, Index
<1> QED BY <1>1, <1>2 DEF IInv, Durable

(* A commit that ends: the change is applied, or given up.                 *)
LEMMA EndKeeps ==
  ASSUME TypeInv, IInv, ~Idle, job' = NoJob,
         GroupInv', TablesIntact', Durable', CurrentGroupKept,
         CurrentIndex' = CurrentIndex \/ Applied
  PROVE  Good
<1>1. IInv'
  BY NoJobKeeps DEF IInv
<1>2. Asked = <<job.slot, job.entry>> /\ Asked' = None
  BY NoJobKeeps DEF Asked
<1>3. Asked \in Abstract!Requests /\ Asked # None
  BY <1>2, StoreAssumption
     DEF TypeInv, JobSlot, TypeOK, Job, Abstract!Requests, Entries
<1>4. CASE CurrentIndex' = CurrentIndex
  BY <1>1, <1>2, <1>3, <1>4 DEF Abstract!GiveUp, Abstract!Next, Good
<1>5. CASE Applied
  BY <1>1, <1>2, <1>3, <1>5 DEF Applied, Abstract!Apply, Abstract!Next, Good
<1> QED BY <1>4, <1>5

LEMMA CommitTableKeeps == TypeInv /\ IInv /\ CommitTable => Good
<1> SUFFICES ASSUME TypeInv, IInv, CommitTable PROVE Good
  OBVIOUS
<1>1. CASE transfer.fits /\ transfer.table = transfer.hash
  <2> DEFINE e == [hash |-> transfer.hash, name |-> transfer.name]
             t == transfer.table
  <2>1. /\ Idle /\ Start(transfer.slot, e, t) /\ UNCHANGED <<device, damaged>>
        /\ e.hash = t
    BY <1>1 DEF CommitTable
  <2>2. e \in Entry /\ t \in Tables /\ t # None /\ e # Free
    BY <1>1, StoreAssumption DEF TypeInv, Wellformed, Entry
  <2>3. transfer.slot \in Slots
    BY DEF CommitTable, TypeInv, TransferSlot, NoTransfer
  <2> HIDE DEF e, t
  <2> QED BY <2>1, <2>2, <2>3, StartKeeps DEF Entries
<1>2. CASE ~(transfer.fits /\ transfer.table = transfer.hash)
  BY <1>2, UntouchedKeeps DEF CommitTable, Refuse, history
<1> QED BY <1>1, <1>2

LEMMA CommitRenameKeeps ==
  ASSUME CommitReadErrors = FALSE, TypeInv, IInv, CommitRename PROVE Good
<1> DEFINE old == CurrentIndex[transfer.slot]
           e   == [hash |-> old.hash, name |-> transfer.name]
<1>1. IF old # Free /\ transfer.name # None
      THEN Start(transfer.slot, e, None)
      ELSE Refuse
  BY DEF CommitRename, Readable, CurrentIndex, Current
<1>2. transfer.slot \in Slots
  BY DEF CommitRename, TypeInv, TransferSlot, NoTransfer
<1>3. Idle /\ UNCHANGED <<device, damaged>>
  BY DEF CommitRename
<1>4. CASE old # Free /\ transfer.name # None
  <2>1. old \in Entry
    BY <1>2, <1>4, CurrentIndexType DEF TypeInv, Index, Entries
  <2>2. e \in Entries /\ e.hash = old.hash
    BY <2>1, <1>4 DEF Entries, Entry, TypeInv, TypeOK, Transfer
  <2>3. Start(transfer.slot, e, None)
    BY <1>1, <1>4
  <2> HIDE DEF e
  <2> QED BY <1>2, <1>3, <1>4, <2>2, <2>3, StartKeeps
<1>5. CASE ~(old # Free /\ transfer.name # None)
  BY <1>1, <1>3, <1>5, UntouchedKeeps DEF Refuse, history
<1> QED BY <1>4, <1>5

LEMMA DeleteKeeps ==
  ASSUME TypeInv, IInv, NEW n \in Slots, Delete(n) PROVE Good
BY StartKeeps DEF Delete, Entries

LEMMA WriteTableKeeps ==
  ASSUME TypeInv, IInv, NEW o \in Outcomes, WriteTable(o) PROVE Good
<1>1. /\ Current' = Current /\ CurrentIndex' = CurrentIndex
      /\ GenIn(Current)' = GenIn(Current)
      /\ GroupInv' /\ TablesIntact' /\ CurrentGroupKept
  BY ExtentKeeps DEF WriteTable
<1>2. ~Idle /\ job.step = "table" /\ job.slot \in Slots /\ job.table # None
  BY DEF WriteTable, Extent, Idle, TypeInv, JobSlot, IInv, JobInv
<1>3. Durable'
  BY <1>1, <1>2, DurableKeeps DEF WriteTable
<1>4. CASE o = "done"
  <2>1. job' = [job EXCEPT !.step = "index"]
    BY <1>4 DEF WriteTable
  <2>2. /\ job'.step = "index" /\ job'.slot = job.slot
        /\ job'.entry = job.entry /\ job'.table = job.table
    BY <2>1 DEF TypeInv, TypeOK, Job
  <2>3. data'[job.slot] = job.table
    BY <1>2, <1>4 DEF WriteTable, Extent, After, TypeInv, TypeOK
  <2>4. IInv'
    BY <1>1, <1>2, <1>3, <2>2, <2>3
       DEF IInv, UploadInv, RenameInv, JobInv, Idle, WriteTable
  <2>5. Stutter
    BY <1>1, <1>2, <2>2 DEF Stutter, Asked, Idle
  <2> QED BY <1>1, <2>4, <2>5 DEF Good
<1>5. CASE o # "done"
  BY <1>1, <1>2, <1>3, <1>5, EndKeeps DEF WriteTable, Fail
<1> QED BY <1>4, <1>5

LEMMA WriteIndexKeeps ==
  ASSUME CommitReadErrors = FALSE, TypeInv, IInv, NEW o \in Outcomes, WriteIndex(o)
  PROVE  Good
<1>1. /\ IndexSectors(o, Current)
      /\ IF o = "done"
         THEN job' = [job EXCEPT !.step = "superblock", !.target = Target(Current),
                                 !.gen = GenIn(Current), !.image = NewImage(Current)]
         ELSE Fail
  BY DEF WriteIndex, Readable, Current
<1>2. /\ Current' = Current /\ CurrentIndex' = CurrentIndex
      /\ GenIn(Current)' = GenIn(Current)
      /\ GroupInv' /\ TablesIntact' /\ CurrentGroupKept
  BY <1>1, IndexKeeps
<1>3. ~Idle /\ job.step = "index" /\ job.slot \in Slots
  BY <1>1 DEF IndexSectors, Idle, TypeInv, JobSlot
<1>4. Durable'
  BY <1>2, <1>3, DurableKeeps DEF WriteIndex
<1>5. CASE o = "done"
  <2> DEFINE i == NewImage(Current)
             t == Target(Current)
             k == GenIn(Current)
  <2>1. job' = [job EXCEPT !.step = "superblock", !.target = t, !.gen = k,
                           !.image = i]
    BY <1>1, <1>5
  <2>2. t \in Groups
    BY TargetType
  <2>3. idx'[t] = i
    BY <1>1, <1>5, <2>2 DEF IndexSectors, After, TypeInv, TypeOK
  <2>4. t' = t /\ k' = k
    BY <1>2 DEF Target
  <2> HIDE DEF t, k
  <2>5. /\ job'.step = "superblock" /\ job'.slot = job.slot
        /\ job'.entry = job.entry /\ job'.table = job.table
        /\ job'.target = t /\ job'.gen = k /\ job'.image = i
    BY <2>1 DEF TypeInv, TypeOK, Job
  <2>6. i' = i
    BY <1>2, <2>5 DEF NewImage, CurrentIndex
  <2>7. UploadInv' /\ RenameInv' /\ JobInv'
    <3>1. UploadInv' /\ RenameInv'
      BY <1>1, <1>2, <1>3, <2>5
         DEF IInv, UploadInv, RenameInv, Idle, IndexSectors
    <3>2. JobInv'
      BY <1>3, <2>3, <2>4, <2>5, <2>6
         DEF IInv, JobInv, Idle, WriteIndex, t, k
    <3> QED BY <3>1, <3>2
  <2>8. Stutter
    BY <1>2, <1>3, <2>5 DEF Stutter, Asked, Idle
  <2> QED BY <1>2, <1>4, <2>7, <2>8 DEF Good, IInv
<1>6. CASE o # "done"
  BY <1>1, <1>2, <1>3, <1>4, <1>6, EndKeeps DEF Fail
<1> QED BY <1>5, <1>6

LEMMA WriteSuperblockKeeps ==
  ASSUME TypeInv, IInv, NEW o \in Outcomes, WriteSuperblock(o) PROVE Good
<1>1. /\ o \in {"done", "new"} => Applied
      /\ o \in {"old", "torn"} => CurrentIndex' = CurrentIndex
      /\ GroupInv' /\ TablesIntact' /\ CurrentGroupKept
  BY SuperblockKeeps DEF WriteSuperblock
<1>2. ~Idle /\ job.slot \in Slots /\ job' = NoJob
  BY DEF WriteSuperblock, SuperblockSector, Idle, TypeInv, JobSlot, Fail
<1>3. CurrentIndex' = CurrentIndex \/ Applied
  BY <1>1 DEF Outcomes
<1>4. Durable'
  <2>1. CASE o = "done"
    <3>1. \A n \in Slots : acked'[n] = IF n = job.slot THEN job.entry ELSE acked[n]
      BY <2>1 DEF WriteSuperblock, TypeInv, TypeOK
    <3>2. \A n \in Slots :
            CurrentIndex'[n] = IF n = job.slot THEN job.entry ELSE CurrentIndex[n]
      BY <1>1, <2>1, CurrentIndexType DEF Applied, TypeInv, Index
    <3> QED BY <3>1, <3>2 DEF IInv, Durable
  <2>2. CASE o # "done"
    BY <1>2, <1>3, <2>2, DurableKeeps DEF WriteSuperblock
  <2> QED BY <2>1, <2>2
<1> QED BY <1>1, <1>2, <1>3, <1>4, EndKeeps

(* A loss of power does what a write does, and forgets the commit.         *)
LEMMA PowerLossKeeps ==
  ASSUME CommitReadErrors = FALSE, TypeInv, IInv, PowerLoss PROVE Good
<1> DEFINE Facts == GroupInv' /\ TablesIntact' /\ CurrentGroupKept
<1>1. job' = NoJob /\ UNCHANGED acked
  BY DEF PowerLoss
<1>2. CASE UNCHANGED <<device, damaged>>
  <2>1. Current' = Current /\ CurrentIndex' = CurrentIndex
    BY <1>2 DEF device, Current, Chosen, Valid, Groups, CurrentIndex, IndexIn
  <2>2. Facts
    BY <1>2, <2>1
       DEF IInv, GroupInv, TablesIntact, Described, CurrentGroupKept, device
  <2>3. Durable'
    BY <1>1, <2>1 DEF IInv, Durable
  <2>4. CASE Idle
    BY <1>1, <2>1, <2>2, <2>3, <2>4, NoJobKeeps DEF IInv, Good, Stutter, Asked
  <2>5. CASE ~Idle
    BY <1>1, <2>1, <2>2, <2>3, <2>5, EndKeeps
  <2> QED BY <2>4, <2>5
<1>3. ASSUME ~Idle, Facts, CurrentIndex' = CurrentIndex \/ Applied
      PROVE  Good
  BY <1>1, <1>3, DurableKeeps, EndKeeps
<1>4. ASSUME NEW o \in Cuts, Extent(o) PROVE Good
  BY <1>3, <1>4, ExtentKeeps DEF Extent, Idle
<1>5. ASSUME NEW o \in Cuts, IndexSectors(o, Current) PROVE Good
  BY <1>3, <1>5, IndexKeeps DEF IndexSectors, Idle
<1>6. ASSUME NEW o \in Cuts, SuperblockSector(o) PROVE Good
  <2>1. o \in Outcomes /\ (o \in {"done", "new"} \/ o \in {"old", "torn"})
    BY DEF Cuts, Outcomes
  <2> QED BY <1>3, <1>6, <2>1, SuperblockKeeps DEF SuperblockSector, Idle
<1> QED BY <1>2, <1>4, <1>5, <1>6 DEF PowerLoss, Readable, Current

LEMMA IInvInit == Init => IInv /\ Abstract!Init
<1> SUFFICES ASSUME Init PROVE IInv /\ Abstract!Init
  OBVIOUS
<1>1. Current = None /\ CurrentIndex = EmptyIndex
  BY DEF Init, Current, Chosen, Valid, Groups, CurrentIndex, IndexIn
<1>2. Idle /\ job.table = None
  BY DEF Init, Idle, NoJob
<1>3. IInv
  BY <1>1, <1>2
     DEF Init, IInv, GroupInv, UploadInv, RenameInv, JobInv, Durable, TablesIntact,
         Described, EmptyIndex, Idle, Groups
<1>4. Abstract!Init
  BY <1>1, <1>2 DEF Abstract!Init, Asked, EmptyIndex
<1> QED BY <1>3, <1>4

LEMMA StepKeeps ==
  ASSUME CommitReadErrors = FALSE, TypeInv, IInv, [Next]_vars PROVE Good
<1>1. CASE UNCHANGED vars
  BY <1>1, UntouchedKeeps DEF vars, device, history
<1>2. ASSUME NEW n \in Slots, OpenTable(n) \/ OpenRename(n) PROVE Good
  BY <1>2, UntouchedKeeps DEF OpenTable, OpenRename
<1>3. ASSUME Abort PROVE Good
  BY <1>3, UntouchedKeeps DEF Abort
<1>4. CASE Next
  BY <1>2, <1>3, <1>4, DeleteKeeps, CommitTableKeeps, CommitRenameKeeps,
     WriteTableKeeps, WriteIndexKeeps, WriteSuperblockKeeps, PowerLossKeeps
     DEF Next
<1> QED BY <1>1, <1>4

-----------------------------------------------------------------------------
(* The theorems about a device whose reads do not fail under a commit.     *)

(* The inductive invariant holds always.                                   *)
THEOREM StoreInvariant == CommitReadErrors = FALSE => (Spec => []IInv)
<1> SUFFICES ASSUME CommitReadErrors = FALSE PROVE Spec => []IInv
  OBVIOUS
<1>1. Init => TypeInv /\ IInv
  BY TypeInit, IInvInit
<1>2. TypeInv /\ IInv /\ [Next]_vars => (TypeInv /\ IInv)'
  BY TypeStep, StepKeeps DEF Good
<1>3. Spec => [](TypeInv /\ IInv)
  BY <1>1, <1>2, PTL DEF Spec
<1> QED BY <1>3, PTL

(* What wr_store_commit_entry acknowledged stays what a reader finds,      *)
(* through failed and torn writes and losses of power.                     *)
THEOREM AcknowledgedIsDurable == CommitReadErrors = FALSE => (Spec => []Durable)
<1>1. IInv => Durable
  BY DEF IInv
<1> QED BY <1>1, StoreInvariant, PTL

(* Every slot but the ones with an unfinished upload serves the bytes its  *)
(* entry describes.                                                        *)
THEOREM OthersTablesIntact == CommitReadErrors = FALSE => (Spec => []TablesIntact)
<1>1. IInv => TablesIntact
  BY DEF IInv
<1> QED BY <1>1, StoreInvariant, PTL

(* No step writes a sector of the current group.                           *)
THEOREM CurrentGroupSafe == CommitReadErrors = FALSE => (Spec => NeverWritesCurrent)
<1> SUFFICES ASSUME CommitReadErrors = FALSE PROVE Spec => NeverWritesCurrent
  OBVIOUS
<1>1. TypeInv /\ IInv /\ [Next]_vars => [CurrentGroupKept]_vars
  BY StepKeeps DEF Good
<1> QED BY <1>1, TypeAlways, StoreInvariant, PTL DEF Spec, NeverWritesCurrent

(* The two groups implement one index that changes a whole entry at a time *)
THEOREM GroupsImplementOneIndex ==
  CommitReadErrors = FALSE => (Spec => CommitsAtomically)
<1> SUFFICES ASSUME CommitReadErrors = FALSE PROVE Spec => CommitsAtomically
  OBVIOUS
<1>1. Init => Abstract!Init
  BY IInvInit
<1>2. TypeInv /\ IInv /\ [Next]_vars => [Abstract!Next]_(Abstract!vars)
  BY StepKeeps DEF Good, Stutter, Abstract!vars
<1> QED BY <1>1, <1>2, TypeAlways, StoreInvariant, PTL
        DEF Spec, CommitsAtomically, Abstract!Spec
=============================================================================
