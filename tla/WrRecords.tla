----------------------------- MODULE WrRecords -----------------------------
(***************************************************************************)
(* The projects' pool lists on the +Drive: csrc/wrstore/records.c, and its *)
(* four writers: DNX over /wavepool (poolroute.c), the wavetable page      *)
(* (csrc/waverider/wtedit.c), SAVE, LOAD and CREATE NEW (projects.c).      *)
(*                                                                         *)
(* A project has two sectors, A and B, written alternately; the current    *)
(* record is the valid one with the higher generation.  Everything runs on *)
(* the UI task, so a handler is one step, with its one sector write ending *)
(* as the +Drive or a loss of power lets it.  What interleaves are the     *)
(* writers: a DNX client reads a list, edits it at its leisure, and writes *)
(* it back with the generation it read.                                    *)
(*                                                                         *)
(* Abstractions: a record that does not check (torn, never written, of     *)
(* another project) is None; version 1 records are what they convert to;   *)
(* wr_store.changes against the pool's changes_seen is one Boolean.  The   *)
(* erase control is not here.                                              *)
(***************************************************************************)
EXTENDS Naturals, FiniteSets

CONSTANTS Others,        (* the project slots but the working one, 1..128   *)
          Working,       (* project slot 0, the working project             *)
          Clients,       (* writers over /wavepool                          *)
          Slots,         (* store slots, in order                           *)
          PoolEntries,   (* a list's length, 128                            *)
          Empty,         (* an empty entry, RECORD_NONE                     *)
          None,          (* no valid record, no view, nothing known         *)
          MaxGen,        (* bound: the sum of the projects' generations     *)
          MaxFailed,     (* bound: lists tried since the one acknowledged   *)
          ReadErrors     (* may a read of a sector fail?                    *)

Projects == Others \union {Working}
Sectors  == {"A", "B"}
Entries  == [1..PoolEntries -> Slots \union {Empty}]
NoEntries == [j \in 1..PoolEntries |-> Empty]

(* A list that follows the store carries no entries (wr_record_check).     *)
List == {l \in [follows : BOOLEAN, entries : Entries] :
           l.follows => l.entries = NoEntries}
Explicit(e) == [follows |-> FALSE, entries |-> e]
EmptyList   == Explicit(NoEntries)

Record == [gen : Nat \ {0}, list : List]
View   == [project : Projects, gen : Nat, fresh : BOOLEAN]
Held   == [project : Projects, version : Nat]      (* a view, but its history *)

ASSUME RecordsAssumption ==
  /\ Working \notin Others
  /\ Slots \subseteq Nat /\ Empty \notin Slots /\ PoolEntries \in Nat
  /\ None \notin Record \union List \union View \union Held \union Clients \union Sectors
  /\ MaxGen \in Nat /\ MaxFailed \in Nat /\ ReadErrors \in BOOLEAN

VARIABLES
  rec,       (* [Projects -> [Sectors -> Record or None]]: the +Drive       *)
  playable,  (* the store slots with a table the DSP plays                  *)
  stale,     (* wr_store.changes differs from what the pool has seen        *)
  untold,    (* history: the playable tables changed since the pool was    *)
             (* filled, and wr_store.changes was not stepped               *)
  pool,      (* the entries the pool was last filled with                   *)
  view,      (* [Clients -> View or None]: what a client read, and (history)*)
             (* whether no record of the project was written since          *)
  acked      (* history: what a project's list may be, the one acknowledged *)
             (* last and those that failed writes tried since               *)

vars == <<rec, playable, stale, untold, pool, view, acked>>

-----------------------------------------------------------------------------
(* Reading (records.c).  `readable' is the sectors whose read succeeds.    *)

Readable == IF ReadErrors THEN SUBSET Sectors ELSE {Sectors}

GenAt(p, s, readable) ==
  IF s \in readable /\ rec[p][s] # None THEN rec[p][s].gen ELSE 0

CurrentIsB(p, readable) == GenAt(p, "B", readable) > GenAt(p, "A", readable)
Side(p, readable) == IF CurrentIsB(p, readable) THEN "B" ELSE "A"
Gen(p, readable)  == GenAt(p, Side(p, readable), readable)

(* No record is an empty pool (wr_record_resolve, copy_record).            *)
ListIn(p, readable) == IF Gen(p, readable) = 0 THEN EmptyList
                       ELSE rec[p][Side(p, readable)].list

Rank(S, n) == Cardinality({m \in S : m <= n})

(* The store-order pool: the first playable slots, in order.               *)
InOrder == [j \in 1..PoolEntries |->
              IF \E n \in playable : Rank(playable, n) = j
              THEN CHOOSE n \in playable : Rank(playable, n) = j
              ELSE Empty]

(* What a project plays: its list's entries, or the store-order pool.      *)
Resolve(l) == IF l.follows THEN InOrder ELSE l.entries

(* What the pool's fill takes of it: entries the DSP plays (pool.c).       *)
Fill(l) == [j \in 1..PoolEntries |->
              IF Resolve(l)[j] \in playable THEN Resolve(l)[j] ELSE Empty]

Current(p) == ListIn(p, Sectors)

-----------------------------------------------------------------------------
(* Writing (wr_record_write): one sector, the one that is not current.     *)

Outcomes == {"done", "old", "new", "torn"}
Cuts     == Outcomes \ {"done"}
After(o, old, new) == IF o = "old" THEN old ELSE IF o = "torn" THEN None ELSE new

Target_Swapped(p, readable) ==                    (* mutant: the other way *)
  IF CurrentIsB(p, readable) THEN "B" ELSE "A"

NextGen_Same(p, readable) == Gen(p, readable)     (* mutant: not raised *)

NextGen(p, readable) == Gen(p, readable) + 1
Target(p, readable) ==
  IF CurrentIsB(p, readable) \/ NextGen(p, readable) = 1 THEN "A" ELSE "B"

(* The other clients' views of the project are no longer fresh.            *)
Seen(p, o, by) ==
  [c \in Clients |-> IF c = by THEN None
                     ELSE IF view[c] # None /\ view[c].project = p /\ o \in {"done", "new"}
                     THEN [view[c] EXCEPT !.fresh = FALSE]
                     ELSE view[c]]

(* The generations used, of all projects.                                  *)
Writes == UNION {{q} \X (1..Gen(q, Sectors)) : q \in Projects}

Room == Cardinality(Writes) < MaxGen

Bounded(o) == o # "done" => \A p \in Projects : Cardinality(acked[p]) <= MaxFailed

Write(p, l, o, readable, by) ==
  /\ Bounded(o)
  /\ rec' = [rec EXCEPT ![p][Target(p, readable)] =
                          After(o, @, [gen |-> NextGen(p, readable), list |-> l])]
  /\ acked' = [acked EXCEPT ![p] = IF o = "done" THEN {l} ELSE @ \union {l}]
  /\ view' = Seen(p, o, by)

Refuse(c) ==
  /\ view' = [view EXCEPT ![c] = None]
  /\ UNCHANGED <<rec, stale, untold, acked>>

(* wr_store.changes++, which makes the pool refill.                        *)
Counts(yes) == IF yes THEN stale' = TRUE /\ untold' = FALSE
                      ELSE UNCHANGED <<stale, untold>>

-----------------------------------------------------------------------------
(* /wavepool: a client reads a list with its generation, ...               *)
ClientRead(c, p) ==
  /\ \E readable \in Readable :
       view' = [view EXCEPT ![c] = [project |-> p, gen |-> Gen(p, readable),
                                    fresh |-> readable = Sectors]]
  /\ UNCHANGED <<rec, playable, stale, untold, pool, acked>>

Swap_NoCheck(c, l, o, seen, found) ==      (* mutant: no generation compared *)
  LET p == view[c].project
  IN  Write(p, l, o, found, c) /\ Counts(o = "done" /\ p = Working)

(* ... and writes one back with the generation it read, compared with the  *)
(* current one at the commit; generation 0 is not compared.                *)
Swap(c, l, o, seen, found) ==
  LET p == view[c].project
  IN  /\ view[c].gen # 0 => view[c].gen = Gen(p, seen)
      /\ Write(p, l, o, found, c)
      /\ Counts(o = "done" /\ p = Working)

(* Any may be refused: as a record that does not check (wr_record_check).  *)
ClientWrite(c, o) ==
  /\ view[c] # None
  /\ \/ Refuse(c)
     \/ Room /\ \E l \in List, seen \in Readable, found \in Readable :
                  Swap(c, l, o, seen, found)
  /\ UNCHANGED <<playable, pool>>

(* The wavetable page edits what plays (wtedit.c: start, finish).          *)
Edited(e, o, readable) ==
  /\ Write(Working, Explicit(e), o, readable, None)
  /\ Counts(o = "done")
  /\ UNCHANGED <<playable, pool>>

Plays(readable) == Resolve(ListIn(Working, readable))
Free(e) == {j \in 1..PoolEntries : e[j] = Empty}

(* The picked tables, in store order (the rows of wtlist.c), but the ones  *)
(* already there, go into the empty entries in order; the rest find the    *)
(* pool full.                                                              *)
Added(e, picked) ==
  LET new == {s \in picked : \A j \in 1..PoolEntries : e[j] # s}
  IN  [j \in 1..PoolEntries |->
         IF j \in Free(e) /\ \E s \in new : Rank(new, s) = Rank(Free(e), j)
         THEN CHOOSE s \in new : Rank(new, s) = Rank(Free(e), j)
         ELSE e[j]]

(* wt_pool_add, wt_pool_add_many: nothing added writes nothing.            *)
PageAdd(picked, o) ==
  \E start \in Readable, found \in Readable :
    LET e == Added(Plays(start), picked)
    IN  e # Plays(start) /\ Edited(e, o, found)

(* wt_pool_clear, wt_pool_clear_many                                       *)
PageClear(picked, o) ==
  \E start \in Readable, found \in Readable :
    Edited([j \in 1..PoolEntries |-> IF j \in picked THEN Empty ELSE Plays(start)[j]],
           o, found)

(* copy_record, after the stock routine succeeded.  A failed copy of LOAD  *)
(* or CREATE NEW still makes the pool refill.                              *)
Copy(from, to, o) ==
  \E start \in Readable, found \in Readable :
    Write(to, ListIn(from, start), o, found, None)

Save(p, o) == Copy(Working, p, o) /\ UNCHANGED <<playable, stale, untold, pool>>
Load_NoRefill(p, o) == Copy(p, Working, o) /\ UNCHANGED <<playable, stale, untold, pool>>
                                                                 (* mutant *)
Load(p, o) == Copy(p, Working, o) /\ Counts(TRUE) /\ UNCHANGED <<playable, pool>>
Create(o)  == /\ \E found \in Readable : Write(Working, EmptyList, o, found, None)
              /\ Counts(TRUE)
              /\ UNCHANGED <<playable, pool>>

(* The store commits a table or a delete (WrStore), ...                    *)
SlotChanges == \E n \in Slots : playable' \in {playable \union {n}, playable \ {n}}

StoreCommits ==
  /\ SlotChanges
  /\ Counts(TRUE)
  /\ UNCHANGED <<rec, pool, view, acked>>

(* ... or its superblock's write reports an error and landed all the same: *)
(* wr_store_commit_entry returns before it counts the change.              *)
StoreFails ==
  /\ SlotChanges /\ playable' # playable
  /\ untold' = ~stale
  /\ UNCHANGED <<rec, stale, pool, view, acked>>

(* The pool's fill starts (pool.c, begin).                                 *)
Refill ==
  /\ stale
  /\ stale' = FALSE
  /\ \E readable \in Readable : pool' = Fill(ListIn(Working, readable))
  /\ UNCHANGED <<rec, playable, untold, view, acked>>

(* The power goes, in the middle of a write (of any list: a client may ask *)
(* for any, or of the store's superblock) or not.  The clients stay.  The  *)
(* pool fills after start-up.                                              *)
PowerLoss ==
  /\ Counts(TRUE) /\ pool' = NoEntries
  /\ \/ SlotChanges /\ UNCHANGED <<rec, view, acked>>
     \/ UNCHANGED playable /\ Room
        /\ \E p \in Projects, l \in List, o \in Cuts, readable \in Readable :
             Write(p, l, o, readable, None)

-----------------------------------------------------------------------------
Init ==
  /\ rec = [p \in Projects |-> [s \in Sectors |-> None]]
  /\ playable = {}
  /\ stale = TRUE /\ untold = FALSE
  /\ pool = NoEntries
  /\ view = [c \in Clients |-> None]
  /\ acked = [p \in Projects |-> {EmptyList}]

Next ==
  \/ \E c \in Clients : (\E p \in Projects : ClientRead(c, p))
                        \/ (\E o \in Outcomes : ClientWrite(c, o))
  \/ /\ Room
     /\ \E o \in Outcomes : \/ \E picked \in SUBSET Slots : PageAdd(picked, o)
                            \/ \E picked \in SUBSET (1..PoolEntries) : PageClear(picked, o)
                            \/ \E p \in Others : Save(p, o) \/ Load(p, o)
                            \/ Create(o)
  \/ StoreCommits \/ StoreFails \/ Refill \/ PowerLoss

Spec == Init /\ [][Next]_vars

-----------------------------------------------------------------------------
TypeOK ==
  /\ rec \in [Projects -> [Sectors -> Record \union {None}]]
  /\ playable \subseteq Slots
  /\ stale \in BOOLEAN /\ untold \in BOOLEAN
  /\ pool \in Entries
  /\ view \in [Clients -> View \union {None}]
  /\ acked \in [Projects -> SUBSET List]

-----------------------------------------------------------------------------
(* A list a writer was told is stored stays the project's list until a     *)
(* write of another lands, whatever writes fail, tear or are cut by a loss *)
(* of power: a failed write leaves the old list or the new (records.h: the *)
(* current record is the valid one with the higher generation, the sectors *)
(* are written alternately).                                               *)
ListDurable == \A p \in Projects : Current(p) \in acked[p]

(* Every writer of the working list, and the store, makes the pool refill  *)
(* (wr_store.changes): a pool that sees no change holds what plays, unless *)
(* a write of another list failed since the last that did not, or the      *)
(* tables did, by a store write that failed and landed, none counted since.*)
PoolUpToDate ==
  ~stale /\ ~untold /\ acked[Working] = {Current(Working)}
    => pool = Fill(Current(Working))

(* A client's view is fresh exactly when it holds the current generation.  *)
ViewInv == \A c \in Clients : view[c] # None =>
             IF view[c].fresh THEN view[c].gen = Gen(view[c].project, Sectors)
                              ELSE view[c].gen < Gen(view[c].project, Sectors)

(* No step writes the sector that holds a project's current record         *)
(* (wr_record_write: "the sector that is not current").                    *)
CurrentSectorKept ==
  \A p \in Projects : Gen(p, Sectors) # 0 =>
    rec'[p][Side(p, Sectors)] = rec[p][Side(p, Sectors)]
NeverWritesCurrentSector == [][CurrentSectorKept]_vars

(* The compare-and-swap: a client that sends the generation it read, and   *)
(* it is not 0, never writes over a record another writer stored since     *)
(* (wp_commit_fill).                                                       *)
ClientWrote(c) == view[c] # None /\ view'[c] = None /\ rec' # rec
NoLostEdit ==
  [][\A c \in Clients : ClientWrote(c) /\ view[c].gen # 0 => view[c].fresh]_vars

(* poolroute.c:13, "A non-zero generation sent must be the current one (0  *)
(* for a slot with no record), or the write is refused: two writers can't  *)
(* lose each other's edit", of writers that send the generation they read. *)
TwoWritersKeepEdits ==
  [][\A c \in Clients : ClientWrote(c) => view[c].fresh]_vars
-----------------------------------------------------------------------------
(* What a reader finds of a project: its list and the generation, or an    *)
(* empty list and 0.                                                       *)
Shown(p) == LET r == rec[p][Side(p, Sectors)]
            IN  IF r = None THEN [list |-> EmptyList, version |-> 0]
                ELSE [list |-> r.list, version |-> r.gen]

(* The two sectors, their generations and the compare-and-swap, seen from  *)
(* outside, are one list a project with a version (ListSpec): a write      *)
(* replaces the list whole or not at all, however it fails or is cut, no   *)
(* generation is used for two lists, and a client swaps the one it read    *)
(* (records.h, poolroute.c).                                               *)
OneList == INSTANCE ListSpec WITH
  Lists <- List, NoList <- EmptyList, promised <- acked,
  stored <- [p \in Projects |-> Shown(p)],
  held <- [c \in Clients |->
             IF view[c] = None THEN None
             ELSE [project |-> view[c].project, version |-> view[c].gen]]
KeepsOneList == OneList!Spec
=============================================================================
