------------------------------ MODULE WrStore ------------------------------
(***************************************************************************)
(* The Waverider store on the +Drive (csrc/wrstore/store.c and route.c):   *)
(* two groups A and B, each a superblock and an index, and one fixed       *)
(* extent of sectors per slot.                                             *)
(*                                                                         *)
(* All of it runs on the UI task (store.h:5), so nothing interleaves with  *)
(* a handler but a loss of power.  Each +Drive write is a step of its own  *)
(* and ends in one of four ways (Outcomes); a power loss cuts it in one of *)
(* three.                                                                  *)
(*                                                                         *)
(* Abstractions: a hash is the content it was computed over (xxHash32 is   *)
(* taken to be collision-free); a table and a name are model values; the   *)
(* field checks of an uploaded entry are one Boolean, `fits'.  DNX makes   *)
(* one transfer at a time (route.c:122), so the stage is the body of the   *)
(* transfer that is open.                                                  *)
(***************************************************************************)
EXTENDS Naturals

CONSTANTS Slots,            (* the store slots, 0..255 in the code         *)
          Tables,           (* table contents                              *)
          Names,            (* table names                                 *)
          Free,             (* an index entry of zeros                     *)
          None,             (* no superblock, unreadable bytes, no table   *)
          MaxGen,           (* bound: the highest generation written       *)
          MaxChanges,       (* bound: wr_store.changes                     *)
          CommitReadErrors  (* may a read fail while a commit looks for    *)
                            (* the current group?                          *)

Entry   == [hash : Tables, name : Names]
Entries == Entry \union {Free}
Index   == [Slots -> Entries]
Superblock == [gen : Nat \ {0}, hash : Index]
Groups  == {"A", "B"}
Steps   == {"idle", "table", "index", "superblock"}

ASSUME StoreAssumption ==
  /\ Slots # {}
  /\ Free \notin Entry
  /\ None \notin Groups \union Tables \union Names \union Slots
  /\ None \notin Entries \union Index
  /\ None \notin Superblock /\ None \notin Slots \X Entries
  /\ MaxGen \in Nat /\ MaxChanges \in Nat /\ CommitReadErrors \in BOOLEAN

VARIABLES
  sb,        (* [Groups -> superblock or None]: generation and index hash   *)
  idx,       (* [Groups -> Index or None]: None is what no hash matches     *)
  data,      (* [Slots -> Tables or None]: each slot's extent               *)
  changes,   (* wr_store.changes                                            *)
  transfer,  (* the write DNX has open, with its stage                      *)
  job,       (* the commit under way, with its locals                       *)
  acked,     (* history: slot n's entry as last acknowledged (W_OK), None   *)
             (* from the next attempt on it                                 *)
  damaged    (* history: slots whose extent was rewritten and the entry not *)

device  == <<sb, idx, data>>
history == <<acked, damaged>>
vars    == <<sb, idx, data, changes, transfer, job, acked, damaged>>

Transfer   == [kind : {"none", "table", "rename"}, slot : Slots \union {None},
               fits : BOOLEAN, hash : Tables \union {None},
               name : Names \union {None}, table : Tables \union {None}]
Job        == [step : Steps, slot : Slots \union {None}, entry : Entries,
               table : Tables \union {None}, target : Groups, gen : Nat,
               image : Index]

NoTransfer == [kind |-> "none", slot |-> None, fits |-> FALSE, hash |-> None,
               name |-> None, table |-> None]
EmptyIndex == [n \in Slots |-> Free]
NoJob      == [step |-> "idle", slot |-> None, entry |-> Free, table |-> None,
               target |-> "A", gen |-> 0, image |-> EmptyIndex]

-----------------------------------------------------------------------------
(* Finding the current group (store.c).                                    *)

Other(g) == IF g = "A" THEN "B" ELSE "A"

(* A group counts when its superblock checks and names the index beside it *)
Valid(g) == sb[g] # None /\ sb[g].hash = idx[g]

(* wr_store_index over the groups it could read: the valid one with the    *)
(* higher generation, A on a tie, None for an empty store.                 *)
Chosen_FirstValid(readable) ==        (* mutant: the generation is ignored *)
  IF "A" \in readable /\ Valid("A") THEN "A"
  ELSE IF "B" \in readable /\ Valid("B") THEN "B"
  ELSE None

Chosen(readable) ==
  LET ok(g) == g \in readable /\ Valid(g)
  IN  IF ok("B") /\ (ok("A") => sb["B"].gen > sb["A"].gen) THEN "B"
      ELSE IF ok("A") THEN "A"
      ELSE None

IndexIn(c) == IF c = None THEN EmptyIndex ELSE idx[c]
GenIn(c)   == IF c = None THEN 0 ELSE sb[c].gen

Current      == Chosen(Groups)
CurrentIndex == IndexIn(Current)

(* What a commit's reads of the store may get through: with a read error,  *)
(* any group can be missing (store.c counts it and goes on).               *)
Readable == IF CommitReadErrors THEN SUBSET Groups ELSE {Groups}

-----------------------------------------------------------------------------
(* How a +Drive write ends: "done" returned success; after the others it   *)
(* returned an error, and the medium holds the old bytes, the new, or      *)
(* neither.                                                                *)
Outcomes == {"done", "old", "new", "torn"}
Cuts     == Outcomes \ {"done"}

After(o, old, new) == IF o = "old" THEN old ELSE IF o = "torn" THEN None ELSE new

Idle == job.step = "idle"

(* Room under the bounds for one more commit.                              *)
Bounded == changes < MaxChanges /\ GenIn(Current) < MaxGen

(* The way into wr_store_commit_entry(n, e).  t is None but for an upload, *)
(* whose table is written first.                                           *)
Start(n, e, t) ==
  /\ job' = [NoJob EXCEPT !.step = IF t = None THEN "index" ELSE "table",
                          !.slot = n, !.entry = e, !.table = t]
  /\ acked' = [acked EXCEPT ![n] = None]

Refuse == UNCHANGED <<job, acked>>

-----------------------------------------------------------------------------
(* DNX's transfers and the wavetable page.                                 *)

(* A write of an entry and a table opens; its chunks fill the stage, with  *)
(* an entry that does not fit the slot and the length, or with one that    *)
(* does and the hash of the table, or of another.                          *)
OpenTable(n) ==
  /\ Idle /\ transfer = NoTransfer
  /\ \/ transfer' = [NoTransfer EXCEPT !.kind = "table", !.slot = n]
     \/ \E h \in Tables, x \in Names, t \in Tables :
          transfer' = [kind |-> "table", slot |-> n, fits |-> TRUE, hash |-> h,
                       name |-> x, table |-> t]
  /\ UNCHANGED <<device, changes, job, history>>

(* A write of an entry alone is a rename; its first chunk is refused on a  *)
(* free slot (wr_header_fill).  None is a name with no NUL in its 64 bytes *)
OpenRename(n) ==
  /\ Idle /\ transfer = NoTransfer
  /\ CurrentIndex[n] # Free
  /\ \E x \in Names \union {None} :
       transfer' = [NoTransfer EXCEPT !.kind = "rename", !.slot = n, !.name = x]
  /\ UNCHANGED <<device, changes, job, history>>

(* The upload fails: the callback comes with no header.                    *)
Abort ==
  /\ Idle /\ transfer # NoTransfer
  /\ transfer' = NoTransfer
  /\ UNCHANGED <<device, changes, job, history>>

(* wr_commit_fill of an upload checks the entry, then the table's hash.    *)
CommitTable_NoHash ==          (* mutant: the table's hash is not checked *)
  /\ Idle /\ Bounded /\ transfer.kind = "table"
  /\ transfer' = NoTransfer
  /\ IF transfer.fits
     THEN Start(transfer.slot, [hash |-> transfer.hash, name |-> transfer.name],
                transfer.table)
     ELSE Refuse
  /\ UNCHANGED <<device, changes, damaged>>

CommitTable ==
  /\ Idle /\ Bounded /\ transfer.kind = "table"
  /\ transfer' = NoTransfer
  /\ IF transfer.fits /\ transfer.table = transfer.hash
     THEN Start(transfer.slot, [hash |-> transfer.hash, name |-> transfer.name],
                transfer.table)
     ELSE Refuse
  /\ UNCHANGED <<device, changes, damaged>>

(* rename_slot: the stored entry with the name from the body.  The slot    *)
(* may have been freed since the transfer opened, by the wavetable page.   *)
CommitRename ==
  /\ Idle /\ Bounded /\ transfer.kind = "rename"
  /\ transfer' = NoTransfer
  /\ \E readable \in Readable :
       LET old == IndexIn(Chosen(readable))[transfer.slot]
       IN  IF old # Free /\ transfer.name # None
           THEN Start(transfer.slot, [hash |-> old.hash, name |-> transfer.name],
                      None)
           ELSE Refuse
  /\ UNCHANGED <<device, changes, damaged>>

(* A delete, by DNX or by the wavetable page (wt_store_delete): a free     *)
(* entry, whether or not the slot is in use.  The page's may come while a  *)
(* transfer is open.                                                       *)
Delete(n) ==
  /\ Idle /\ Bounded
  /\ Start(n, Free, None)
  /\ UNCHANGED <<device, changes, transfer, damaged>>

-----------------------------------------------------------------------------
(* The three writes of a commit, in order.  A failed one ends it (W_DRIVE).*)

Fail == job' = NoJob

(* 1. The table, into the slot's own extent.                               *)
Extent(o) ==
  /\ job.step = "table"
  /\ data' = [data EXCEPT ![job.slot] = After(o, @, job.table)]
  /\ damaged' = IF data' = data THEN damaged ELSE damaged \union {job.slot}
  /\ UNCHANGED <<sb, idx>>

(* 2. The index with the entry changed, into the group that is not         *)
(* current, as far as the reads show.                                      *)
NewImage_Fresh(c) ==     (* mutant: the other slots' entries are not kept *)
  [EmptyIndex EXCEPT ![job.slot] = job.entry]
Target_AlwaysB(c) == IF c = None THEN "A" ELSE "B"              (* mutant *)

NewImage(c) == [IndexIn(c) EXCEPT ![job.slot] = job.entry]
Target(c)   == IF c = None THEN "A" ELSE Other(c)

IndexSectors(o, c) ==
  /\ job.step = "index"
  /\ idx' = [idx EXCEPT ![Target(c)] = After(o, @, NewImage(c))]
  /\ UNCHANGED <<sb, data, damaged>>

(* 3. Its superblock, generation + 1: the moment the change takes effect.  *)
NewSuperblock_SameGen == [gen |-> job.gen, hash |-> job.image]   (* mutant *)

NewSuperblock == [gen |-> job.gen + 1, hash |-> job.image]

SuperblockSector(o) ==
  /\ job.step = "superblock"
  /\ sb' = [sb EXCEPT ![job.target] = After(o, @, NewSuperblock)]
  /\ damaged' = IF o \in {"done", "new"} /\ (job.table # None \/ job.entry = Free)
                THEN damaged \ {job.slot} ELSE damaged
  /\ UNCHANGED <<idx, data>>

WriteTable(o) ==
  /\ Extent(o)
  /\ IF o = "done" THEN job' = [job EXCEPT !.step = "index"] ELSE Fail
  /\ UNCHANGED <<changes, transfer, acked>>

WriteIndex(o) ==
  /\ \E readable \in Readable :
       LET c == Chosen(readable)
       IN  /\ IndexSectors(o, c)
           /\ IF o = "done"
              THEN job' = [job EXCEPT !.step = "superblock", !.target = Target(c),
                                      !.gen = GenIn(c), !.image = NewImage(c)]
              ELSE Fail
  /\ UNCHANGED <<changes, transfer, acked>>

WriteSuperblock(o) ==
  /\ SuperblockSector(o)
  /\ IF o = "done"
     THEN /\ changes' = changes + 1
          /\ acked' = [acked EXCEPT ![job.slot] = job.entry]
          /\ job' = NoJob
     ELSE Fail /\ UNCHANGED <<changes, acked>>
  /\ UNCHANGED transfer

(* The power goes, in the middle of a write or between two: the RAM is as  *)
(* at start-up, the medium holds what it holds.                            *)
PowerLoss ==
  /\ changes' = 0 /\ job' = NoJob /\ transfer' = NoTransfer
  /\ UNCHANGED acked
  /\ \/ UNCHANGED <<device, damaged>>
     \/ \E o \in Cuts :
          \/ Extent(o)
          \/ \E readable \in Readable : IndexSectors(o, Chosen(readable))
          \/ SuperblockSector(o)

-----------------------------------------------------------------------------
(* A +Drive that never held a store: no valid group.                       *)
Init ==
  /\ sb = [g \in Groups |-> None]
  /\ idx = [g \in Groups |-> None]
  /\ data = [n \in Slots |-> None]
  /\ changes = 0
  /\ transfer = NoTransfer /\ job = NoJob
  /\ acked = EmptyIndex
  /\ damaged = {}

Next ==
  \/ \E n \in Slots : OpenTable(n) \/ OpenRename(n) \/ Delete(n)
  \/ Abort \/ CommitTable \/ CommitRename
  \/ \E o \in Outcomes : WriteTable(o) \/ WriteIndex(o) \/ WriteSuperblock(o)
  \/ PowerLoss

Spec == Init /\ [][Next]_vars

-----------------------------------------------------------------------------
TypeOK ==
  /\ sb \in [Groups -> Superblock \union {None}]
  /\ idx \in [Groups -> Index \union {None}]
  /\ data \in [Slots -> Tables \union {None}]
  /\ changes \in Nat
  /\ transfer \in Transfer
  /\ job \in Job
  /\ acked \in [Slots -> Entries \union {None}]
  /\ damaged \subseteq Slots

-----------------------------------------------------------------------------
(* What a writer was told is stored stays stored, through failed writes    *)
(* and losses of power, until the next attempt on that slot                *)
(* (wr_store_commit_entry answers W_OK after its superblock).              *)
Durable == \A n \in Slots : acked[n] # None => CurrentIndex[n] = acked[n]

(* A read of /waverider/n is served the slot's entry and the bytes of its  *)
(* extent (wr_check_fill): the bytes are the ones the entry's hash names.  *)
Described(n) == CurrentIndex[n] # Free => data[n] = CurrentIndex[n].hash

(* Only an unfinished upload can cost a table, and only its own slot's:    *)
(* every other slot in use is served the bytes its entry describes (fixed  *)
(* extents, wr_commit_fill writing the slot's own).                        *)
TablesIntact == \A n \in Slots \ damaged : Described(n)

(* Data first, then the index of the group that is not current, then its   *)
(* superblock: no step writes a sector of the current group.               *)
CurrentGroupKept ==
  Current # None => /\ sb'[Current] = sb[Current]
                    /\ idx'[Current] = idx[Current]
NeverWritesCurrent == [][CurrentGroupKept]_vars

(* Every change of the index is the whole of one write that was asked for, *)
(* at one moment, and a loss of power never leaves a mixture.              *)
Asked == IF Idle THEN None ELSE <<job.slot, job.entry>>
Abstract == INSTANCE StoreSpec WITH index <- CurrentIndex, asked <- Asked
CommitsAtomically == Abstract!Spec

(* The inductive invariant, for commits whose reads do not fail: a group   *)
(* that is not current has a lower generation (so writing its index cannot *)
(* make it current before its superblock is written), ...                  *)
GroupInv == \A g \in Groups : sb[g] # None =>
              /\ Current # None
              /\ g # Current => sb[g].gen < sb[Current].gen

(* ... an upload's table is in its extent before its entry is written, a   *)
(* rename keeps the stored entry's hash, ...                               *)
UploadInv == job.table # None =>
               /\ job.entry # Free /\ job.entry.hash = job.table
               /\ job.step # "table" => data[job.slot] = job.table
RenameInv == (~Idle /\ job.table = None /\ job.entry # Free) =>
               /\ CurrentIndex[job.slot] # Free
               /\ CurrentIndex[job.slot].hash = job.entry.hash

(* ... and a superblock is written beside the index it is about, the       *)
(* current one with one entry changed.                                     *)
JobInv == /\ Idle => job.table = None
          /\ job.step = "table" => job.table # None
          /\ ~Idle => acked[job.slot] = None
          /\ job.step = "superblock" => /\ job.target = Target(Current)
                                        /\ job.gen = GenIn(Current)
                                        /\ job.image = NewImage(Current)
                                        /\ job.image = idx[job.target]

IInv == GroupInv /\ UploadInv /\ RenameInv /\ JobInv /\ Durable /\ TablesIntact

(* docs/waverider-store.md, "A failed or cancelled write costs that        *)
(* attempt only; the other group still describes the store as it was":     *)
(* between two writes, every entry in use describes its extent's table.    *)
FailedWriteCostsOnlyItself == Idle => \A n \in Slots : Described(n)
=============================================================================
