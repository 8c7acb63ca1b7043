-------------------------- MODULE WrRecordsProofs --------------------------
(***************************************************************************)
(* WrRecords, proved for any projects, clients, lists and bounds; all but  *)
(* the types for sectors that can be read (ReadErrors = FALSE).            *)
(*                                                                         *)
(* Everything rests on what one sector write does to its project           *)
(* (WriteEffect): the other projects keep their sectors, this one keeps    *)
(* its current sector, and either the record written is current, one       *)
(* generation up, or the current record stays.  So generations never       *)
(* repeat, a view is fresh exactly when its generation is current          *)
(* (ViewInv), and a compare-and-swap protects what was stored since.       *)
(***************************************************************************)
EXTENDS WrRecords, TLAPS

-----------------------------------------------------------------------------
(* Types.                                                                  *)

LEMMA EmptyListType == EmptyList \in List /\ NoEntries \in Entries
BY DEF EmptyList, Explicit, List, NoEntries, Entries

LEMMA ExplicitType == ASSUME NEW e \in Entries PROVE Explicit(e) \in List
BY DEF Explicit, List

LEMMA GenType ==
  ASSUME TypeOK, NEW p \in Projects, NEW readable
  PROVE  /\ \A s \in Sectors : GenAt(p, s, readable) \in Nat
         /\ Gen(p, readable) \in Nat
         /\ ListIn(p, readable) \in List
<1>1. \A s \in Sectors : GenAt(p, s, readable) \in Nat
  BY DEF GenAt, TypeOK, Record
<1>2. Side(p, readable) \in Sectors
  BY DEF Side, Sectors
<1>3. Gen(p, readable) \in Nat
  BY <1>1, <1>2 DEF Gen
<1>4. CASE Gen(p, readable) = 0
  BY <1>1, <1>3, <1>4, EmptyListType DEF ListIn
<1>5. CASE Gen(p, readable) # 0
  BY <1>1, <1>2, <1>3, <1>5 DEF ListIn, Gen, GenAt, TypeOK, Record
<1> QED BY <1>1, <1>3, <1>4, <1>5

LEMMA ResolveType ==
  ASSUME TypeOK, NEW l \in List
  PROVE  Resolve(l) \in Entries /\ Fill(l) \in Entries
<1>1. InOrder \in Entries
  BY DEF InOrder, Entries, TypeOK
<1>2. Resolve(l) \in Entries
  BY <1>1 DEF Resolve, List
<1>3. Fill(l) \in Entries
  BY <1>2 DEF Fill, Entries
<1> QED BY <1>2, <1>3

LEMMA PlaysType ==
  ASSUME TypeOK, NEW readable PROVE Plays(readable) \in Entries
BY GenType, ResolveType DEF Plays, Projects

LEMMA AddedType ==
  ASSUME NEW e \in Entries, NEW picked \in SUBSET Slots
  PROVE  Added(e, picked) \in Entries
<1> DEFINE new == {s \in picked : \A j \in 1..PoolEntries : e[j] # s}
           at(j) == IF j \in Free(e) /\ \E s \in new : Rank(new, s) = Rank(Free(e), j)
                    THEN CHOOSE s \in new : Rank(new, s) = Rank(Free(e), j)
                    ELSE e[j]
<1>1. ASSUME NEW j \in 1..PoolEntries PROVE at(j) \in Slots \union {Empty}
  <2>1. CASE j \in Free(e) /\ \E s \in new : Rank(new, s) = Rank(Free(e), j)
    <3>1. at(j) \in new
      BY <2>1
    <3> QED BY <3>1
  <2>2. CASE ~(j \in Free(e) /\ \E s \in new : Rank(new, s) = Rank(Free(e), j))
    <3>1. at(j) = e[j]
      BY <2>2
    <3> QED BY <3>1 DEF Entries
  <2> QED BY <2>1, <2>2
<1>2. Added(e, picked) = [j \in 1..PoolEntries |-> at(j)]
  BY DEF Added
<1> HIDE DEF at
<1> QED BY <1>1, <1>2 DEF Entries

(* A sector write keeps the types, whoever asks for it (None: the          *)
(* instrument).                                                            *)
LEMMA WriteType ==
  ASSUME TypeOK, NEW p \in Projects, NEW l \in List, NEW o, NEW readable, NEW by,
         Write(p, l, o, readable, by)
  PROVE  /\ rec' \in [Projects -> [Sectors -> Record \union {None}]]
         /\ view' \in [Clients -> View \union {None}]
         /\ acked' \in [Projects -> SUBSET List]
<1> DEFINE t == Target(p, readable)
           r == [gen |-> NextGen(p, readable), list |-> l]
<1>1. t \in Sectors
  BY DEF Target, Sectors
<1>2. r \in Record
  BY GenType DEF NextGen, Record
<1>3. rec[p] \in [Sectors -> Record \union {None}]
  BY DEF TypeOK
<1>4. After(o, rec[p][t], r) \in Record \union {None}
  BY <1>1, <1>2, <1>3 DEF After
<1>5. rec' = [rec EXCEPT ![p] = [rec[p] EXCEPT ![t] = After(o, rec[p][t], r)]]
  BY <1>1, <1>3 DEF Write, TypeOK
<1>6. [rec[p] EXCEPT ![t] = After(o, rec[p][t], r)]
        \in [Sectors -> Record \union {None}]
  BY <1>3, <1>4
<1> HIDE DEF t, r
<1>7. rec' \in [Projects -> [Sectors -> Record \union {None}]]
  BY <1>5, <1>6 DEF TypeOK
<1>8. view' \in [Clients -> View \union {None}]
  BY DEF Write, Seen, TypeOK, View
<1>9. acked' \in [Projects -> SUBSET List]
  BY DEF Write, TypeOK
<1> QED BY <1>7, <1>8, <1>9

(* What a write does to the records: every other project's stay, and so    *)
(* does this one's current record, unless the new one is current.          *)
RecordsKept(p) == /\ \A q \in Projects : q # p => rec'[q] = rec[q]
                  /\ CurrentSectorKept

Landed(p, l) == Gen(p, Sectors)' = Gen(p, Sectors) + 1 /\ Current(p)' = l
Missed(p) == Gen(p, Sectors)' = Gen(p, Sectors) /\ Current(p)' = Current(p)

LEMMA WriteEffect ==
  ASSUME TypeOK, NEW p \in Projects, NEW l \in List, NEW o \in Outcomes, NEW by,
         Write(p, l, o, Sectors, by)
  PROVE  /\ RecordsKept(p)
         /\ o \in {"done", "new"} => Landed(p, l)
         /\ o \in {"old", "torn"} => Missed(p)
<1> DEFINE r == [gen |-> NextGen(p, Sectors), list |-> l]
           g == Gen(p, Sectors)
<1>1. PICK t \in Sectors, u \in Sectors :
        t = Target(p, Sectors) /\ u # t /\ Sectors = {t, u}
  BY DEF Target, Sectors
<1>2. /\ rec'[p][t] = After(o, rec[p][t], r)
      /\ rec'[p][u] = rec[p][u]
      /\ \A q \in Projects : q # p => rec'[q] = rec[q]
  BY <1>1 DEF Write, TypeOK
<1>3. g \in Nat /\ \A s \in Sectors : GenAt(p, s, Sectors) \in Nat
  BY GenType
<1>4. /\ g = GenAt(p, u, Sectors) /\ GenAt(p, t, Sectors) <= g
      /\ g # 0 => Side(p, Sectors) = u
  <2>1. CASE CurrentIsB(p, Sectors)
    BY <1>1, <1>3, <2>1 DEF Target, NextGen, CurrentIsB, Side, Gen, Sectors
  <2>2. CASE ~CurrentIsB(p, Sectors)
    BY <1>1, <1>3, <2>2 DEF Target, NextGen, CurrentIsB, Side, Gen, Sectors
  <2> QED BY <2>1, <2>2
<1>5. RecordsKept(p)
  BY <1>1, <1>2, <1>4 DEF RecordsKept, CurrentSectorKept
<1>6. GenAt(p, u, Sectors)' = GenAt(p, u, Sectors)
  BY <1>1, <1>2 DEF GenAt
<1>7. r # None /\ r.gen = g + 1 /\ r.list = l
  <2>1. r \in Record
    BY <1>3 DEF Record, NextGen
  <2> QED BY <2>1, RecordsAssumption DEF NextGen
<1> HIDE DEF r, g
<1>8. CASE o \in {"done", "new"}
  <2>1. rec'[p][t] = r
    BY <1>2, <1>8 DEF After
  <2>2. GenAt(p, t, Sectors)' = g + 1
    BY <1>1, <1>7, <2>1 DEF GenAt
  <2>3. Side(p, Sectors)' = t
    BY <1>1, <1>3, <1>4, <1>6, <2>2 DEF Side, CurrentIsB, Sectors
  <2>4. Gen(p, Sectors)' = g + 1
    BY <2>2, <2>3 DEF Gen
  <2>5. Current(p)' = l
    BY <1>3, <1>7, <2>1, <2>3, <2>4 DEF Current, ListIn
  <2> QED BY <1>5, <1>8, <2>4, <2>5 DEF Landed, g
<1>9. CASE o \in {"old", "torn"}
  <2>1. rec'[p][t] = rec[p][t] \/ rec'[p][t] = None
    BY <1>2, <1>9 DEF After
  <2>2. GenAt(p, t, Sectors)' = GenAt(p, t, Sectors) \/ GenAt(p, t, Sectors)' = 0
    BY <2>1 DEF GenAt
  <2>3. Gen(p, Sectors)' = g /\ (g # 0 => Side(p, Sectors)' = u)
    BY <1>1, <1>3, <1>4, <1>6, <2>2 DEF Side, CurrentIsB, Gen, Sectors
  <2>4. Current(p)' = Current(p)
    BY <1>2, <1>4, <2>3 DEF Current, ListIn, g
  <2> QED BY <1>5, <1>9, <2>3, <2>4 DEF Missed, g
<1> QED BY <1>5, <1>8, <1>9 DEF Outcomes

-----------------------------------------------------------------------------
(* The invariant, and what every step keeps beside it.                     *)
IInv == TypeOK /\ ListDurable /\ PoolUpToDate /\ ViewInv

EditKept == \A c \in Clients : ClientWrote(c) /\ view[c].gen # 0 => view[c].fresh
Good     == IInv' /\ CurrentSectorKept /\ EditKept

LEMMA OtherProjects ==
  ASSUME NEW p, NEW q \in Projects, q # p, RecordsKept(p)
  PROVE  Current(q)' = Current(q) /\ Gen(q, Sectors)' = Gen(q, Sectors)
BY DEF RecordsKept, Current, ListIn, Gen, Side, CurrentIsB, GenAt

(* One sector written: the acknowledged lists stay, and the views of its   *)
(* project are fresh no more if the record is current now.                 *)
LEMMA WriteKeeps ==
  ASSUME IInv, NEW p \in Projects, NEW l \in List, NEW o \in Outcomes,
         NEW by \in Clients \union {None}, Write(p, l, o, Sectors, by)
  PROVE  ListDurable' /\ ViewInv' /\ CurrentSectorKept
<1>1. /\ RecordsKept(p)
      /\ o \in {"done", "new"} => Landed(p, l)
      /\ o \in {"old", "torn"} => Missed(p)
  BY WriteEffect DEF IInv
<1>2. ListDurable'
  <2> SUFFICES ASSUME NEW q \in Projects PROVE Current(q)' \in acked'[q]
    BY DEF ListDurable
  <2>1. CASE q # p
    <3>1. acked'[q] = acked[q]
      BY <2>1 DEF Write, IInv, TypeOK
    <3> QED BY <1>1, <2>1, <3>1, OtherProjects DEF IInv, ListDurable
  <2>2. CASE q = p
    <3>1. l \in acked'[q] /\ (o # "done" => acked[q] \subseteq acked'[q])
      BY <2>2 DEF Write, IInv, TypeOK
    <3>2. Current(q)' = l \/ (o # "done" /\ Current(q)' = Current(q))
      BY <1>1, <2>2 DEF Landed, Missed, Outcomes
    <3> QED BY <3>1, <3>2 DEF IInv, ListDurable
  <2> QED BY <2>1, <2>2
<1>3. ViewInv'
  <2>1. view' \in [Clients -> View \union {None}]
    BY WriteType DEF IInv
  <2> SUFFICES ASSUME NEW c \in Clients, view'[c] # None,
                      NEW q \in Projects, view'[c].project = q
               PROVE  IF view'[c].fresh THEN view'[c].gen = Gen(q, Sectors)'
                                        ELSE view'[c].gen < Gen(q, Sectors)'
    BY <2>1 DEF ViewInv, View
  <2>2. /\ view[c] # None /\ view[c] \in View
        /\ view'[c] = IF view[c].project = p /\ o \in {"done", "new"}
                      THEN [view[c] EXCEPT !.fresh = FALSE] ELSE view[c]
    BY DEF Write, Seen, IInv, TypeOK
  <2>3. /\ view[c].project = q /\ view[c].gen \in Nat /\ Gen(q, Sectors) \in Nat
        /\ view'[c].gen = view[c].gen
    BY <2>2, GenType DEF View, IInv
  <2>4. IF view[c].fresh THEN view[c].gen = Gen(q, Sectors)
                         ELSE view[c].gen < Gen(q, Sectors)
    BY <2>2, <2>3 DEF IInv, ViewInv
  <2>5. CASE q # p
    <3>1. Gen(q, Sectors)' = Gen(q, Sectors) /\ view'[c] = view[c]
      BY <1>1, <2>2, <2>3, <2>5, OtherProjects
    <3> QED BY <2>4, <3>1
  <2>6. CASE q = p /\ o \in {"done", "new"}
    <3>1. view'[c].fresh = FALSE
      BY <2>2, <2>3, <2>6 DEF View
    <3>2. Gen(q, Sectors)' = Gen(q, Sectors) + 1
      BY <1>1, <2>6 DEF Landed
    <3> QED BY <2>3, <2>4, <3>1, <3>2
  <2>7. CASE q = p /\ o \in {"old", "torn"}
    <3>1. Gen(q, Sectors)' = Gen(q, Sectors) /\ view'[c] = view[c]
      BY <1>1, <2>2, <2>7 DEF Missed
    <3> QED BY <2>4, <3>1
  <2> QED BY <2>5, <2>6, <2>7 DEF Outcomes
<1> QED BY <1>1, <1>2, <1>3 DEF RecordsKept

(* The pool, when the write makes it refill if it must.                    *)
LEMMA PoolKeeps ==
  ASSUME IInv, NEW p \in Projects, NEW l \in List, NEW o \in Outcomes, NEW by,
         Write(p, l, o, Sectors, by), UNCHANGED <<playable, pool>>,
         UNCHANGED <<stale, untold>>, ~(o = "done" /\ p = Working)
  PROVE  PoolUpToDate'
<1>1. CASE p = Working
  <2>1. acked'[Working] = acked[Working] \union {l}
    BY <1>1 DEF Write, IInv, TypeOK
  <2>2. Current(Working)' \in {l, Current(Working)}
    BY <1>1, WriteEffect DEF IInv, Landed, Missed, Outcomes
  <2>3. ASSUME acked'[Working] = {Current(Working)'}
        PROVE  /\ Current(Working)' = Current(Working)
               /\ acked[Working] = {Current(Working)}
    <3>1. Current(Working) \in acked[Working]
      BY DEF IInv, ListDurable, Projects
    <3> QED BY <2>1, <2>2, <2>3, <3>1
  <2> QED BY <2>1, <2>3 DEF IInv, PoolUpToDate, Fill, Resolve, InOrder
<1>2. CASE p # Working
  <2>1. Current(Working)' = Current(Working) /\ acked'[Working] = acked[Working]
    BY <1>2, WriteEffect, OtherProjects DEF IInv, Write, TypeOK, Projects
  <2> QED BY <2>1 DEF IInv, PoolUpToDate, Fill, Resolve, InOrder
<1> QED BY <1>1, <1>2

(* A write of the instrument's: no client's.                               *)
LEMMA OwnWriteKeeps ==
  ASSUME IInv, NEW p \in Projects, NEW l \in List, NEW o \in Outcomes,
         Write(p, l, o, Sectors, None), playable' \subseteq Slots,
         stale' \in BOOLEAN, untold' \in BOOLEAN, pool' \in Entries,
         PoolUpToDate'
  PROVE  Good
<1>1. TypeOK'
  BY WriteType DEF IInv, TypeOK
<1>2. ListDurable' /\ ViewInv' /\ CurrentSectorKept
  BY WriteKeeps
<1>3. EditKept
  BY RecordsAssumption DEF EditKept, ClientWrote, Write, Seen, IInv, TypeOK, View
<1> QED BY <1>1, <1>2, <1>3 DEF Good, IInv

LEMMA StaleKeeps == stale' = TRUE => PoolUpToDate'
BY DEF PoolUpToDate

(* What counting a change, or not, leaves of the two flags.                *)
LEMMA CountsEffect ==
  ASSUME TypeOK, NEW yes \in BOOLEAN, Counts(yes)
  PROVE  /\ stale' \in BOOLEAN /\ untold' \in BOOLEAN
         /\ IF yes THEN stale' = TRUE ELSE UNCHANGED <<stale, untold>>
BY DEF Counts, TypeOK

-----------------------------------------------------------------------------
(* The actions.                                                            *)
ReadsWork == ReadErrors = FALSE

LEMMA AllReadable == ReadsWork => Readable = {Sectors}
BY DEF ReadsWork, Readable

(* A step that writes no record.                                           *)
LEMMA NoWriteKeeps ==
  ASSUME IInv, UNCHANGED <<rec, view, acked>>, playable' \subseteq Slots,
         stale' \in BOOLEAN, untold' \in BOOLEAN, pool' \in Entries,
         PoolUpToDate'
  PROVE  Good
<1>1. \A q \in Projects : Current(q)' = Current(q) /\ Gen(q, Sectors)' = Gen(q, Sectors)
  BY DEF Current, ListIn, Gen, Side, CurrentIsB, GenAt
<1>2. ListDurable'
  BY <1>1 DEF IInv, ListDurable
<1>3. ViewInv'
  BY <1>1 DEF IInv, ViewInv, TypeOK, View
<1>4. CurrentSectorKept /\ EditKept
  BY DEF CurrentSectorKept, EditKept, ClientWrote
<1> QED BY <1>2, <1>3, <1>4 DEF Good, IInv, TypeOK

LEMMA ClientReadKeeps ==
  ASSUME ReadsWork, IInv, NEW c \in Clients, NEW p \in Projects, ClientRead(c, p)
  PROVE  Good
<1> DEFINE v == [project |-> p, gen |-> Gen(p, Sectors), fresh |-> TRUE]
<1>1. view' = [view EXCEPT ![c] = v] /\ UNCHANGED <<rec, playable, stale, untold, pool, acked>>
  BY AllReadable DEF ClientRead
<1>2. v \in View
  BY GenType DEF View, IInv
<1>3. \A q \in Projects : Current(q)' = Current(q) /\ Gen(q, Sectors)' = Gen(q, Sectors)
  BY <1>1 DEF Current, ListIn, Gen, Side, CurrentIsB, GenAt
<1>4. ListDurable' /\ PoolUpToDate'
  BY <1>1, <1>3
     DEF IInv, ListDurable, PoolUpToDate, Fill, Resolve, InOrder, Projects
<1>5. ViewInv'
  <2> SUFFICES ASSUME NEW d \in Clients, view'[d] # None,
                      NEW q \in Projects, view'[d].project = q
               PROVE  IF view'[d].fresh THEN view'[d].gen = Gen(q, Sectors)
                                        ELSE view'[d].gen < Gen(q, Sectors)
    BY <1>1, <1>2, <1>3 DEF ViewInv, View, IInv, TypeOK
  <2>1. CASE d = c
    BY <1>1, <2>1 DEF IInv, TypeOK
  <2>2. CASE d # c
    BY <1>1, <2>2 DEF IInv, TypeOK, ViewInv
  <2> QED BY <2>1, <2>2
<1>6. CurrentSectorKept /\ EditKept
  BY <1>1 DEF CurrentSectorKept, EditKept, ClientWrote
<1> QED BY <1>1, <1>2, <1>4, <1>5, <1>6 DEF Good, IInv, TypeOK

LEMMA RefuseKeeps ==
  ASSUME IInv, NEW c \in Clients, Refuse(c), UNCHANGED <<playable, pool>>
  PROVE  Good
<1>1. \A q \in Projects : Current(q)' = Current(q) /\ Gen(q, Sectors)' = Gen(q, Sectors)
  BY DEF Refuse, Current, ListIn, Gen, Side, CurrentIsB, GenAt
<1>2. ListDurable' /\ PoolUpToDate'
  BY <1>1
     DEF Refuse, IInv, ListDurable, PoolUpToDate, Fill, Resolve, InOrder, Projects
<1>3. view' \in [Clients -> View \union {None}]
      /\ \A d \in Clients : view'[d] # None => view'[d] = view[d]
  BY DEF Refuse, IInv, TypeOK
<1>4. ViewInv'
  BY <1>1, <1>3 DEF ViewInv, View, IInv
<1>5. CurrentSectorKept /\ EditKept
  BY DEF Refuse, CurrentSectorKept, EditKept, ClientWrote
<1> QED BY <1>2, <1>3, <1>4, <1>5 DEF Good, IInv, TypeOK, Refuse

LEMMA ClientWriteKeeps ==
  ASSUME ReadsWork, IInv, NEW c \in Clients, NEW o \in Outcomes, ClientWrite(c, o)
  PROVE  Good
<1> DEFINE p == view[c].project
           checked == view[c].gen = 0 \/ view[c].gen = Gen(p, Sectors)
<1>1. /\ view[c] # None /\ UNCHANGED <<playable, pool>>
      /\ \/ Refuse(c)
         \/ checked /\ \E l \in List : /\ Write(p, l, o, Sectors, c)
                                      /\ Counts(o = "done" /\ p = Working)
  BY AllReadable DEF ClientWrite, Swap
<1>2. view[c] \in View
  BY <1>1 DEF IInv, TypeOK
<1>3. ASSUME checked, NEW l \in List, Write(p, l, o, Sectors, c),
             Counts(o = "done" /\ p = Working)
      PROVE  Good
  <2>1. p \in Projects
    BY <1>2 DEF View
  <2> DEFINE q == p
  <2>2. PICK r \in Projects : r = p
    BY <2>1
  <2>3. Write(r, l, o, Sectors, c)
    BY <1>3, <2>2
  <2>4. ListDurable' /\ ViewInv' /\ CurrentSectorKept
    BY <2>3, WriteKeeps
  <2>5. PoolUpToDate'
    <3>1. CASE o = "done" /\ r = Working
      BY <1>3, <2>2, <3>1, StaleKeeps DEF Counts
    <3>2. CASE ~(o = "done" /\ r = Working)
      <4>1. UNCHANGED <<stale, untold>>
        BY <1>3, <2>2, <3>2 DEF Counts
      <4> QED BY <1>1, <2>3, <3>2, <4>1, PoolKeeps
    <3> QED BY <3>1, <3>2
  <2>6. EditKept
    <3>1. \A d \in Clients : d # c => view'[d] # None \/ view[d] = None
      BY <2>3, RecordsAssumption DEF Write, Seen, IInv, TypeOK, View
    <3>2. view[c].gen # 0 => view[c].fresh
      <4>1. view[c].gen \in Nat /\ Gen(p, Sectors) \in Nat
        BY <1>2, <2>1, GenType DEF View, IInv
      <4> QED BY <1>1, <1>3, <4>1 DEF IInv, ViewInv
    <3> QED BY <3>1, <3>2 DEF EditKept, ClientWrote
  <2>7. TypeOK'
    <3>1. /\ rec' \in [Projects -> [Sectors -> Record \union {None}]]
          /\ view' \in [Clients -> View \union {None}]
          /\ acked' \in [Projects -> SUBSET List]
      BY <2>3, WriteType DEF IInv
    <3>2. stale' \in BOOLEAN /\ untold' \in BOOLEAN
      BY <1>3, CountsEffect DEF IInv
    <3> QED BY <1>1, <3>1, <3>2 DEF IInv, TypeOK
  <2> QED BY <2>4, <2>5, <2>6, <2>7 DEF Good, IInv
<1> QED BY <1>1, <1>3, RefuseKeeps

(* An edit of the wavetable page.                                          *)
LEMMA EditedKeeps ==
  ASSUME IInv, NEW e \in Entries, NEW o \in Outcomes, Edited(e, o, Sectors)
  PROVE  Good
<1>1. /\ Write(Working, Explicit(e), o, Sectors, None)
      /\ UNCHANGED <<playable, pool>> /\ Counts(o = "done")
  BY DEF Edited
<1>2. Explicit(e) \in List /\ Working \in Projects
  BY ExplicitType DEF Projects
<1>3. /\ stale' \in BOOLEAN /\ untold' \in BOOLEAN
      /\ stale' = TRUE \/ (o # "done" /\ UNCHANGED <<stale, untold>>)
  BY <1>1, CountsEffect DEF IInv
<1>4. PoolUpToDate'
  BY <1>1, <1>2, <1>3, StaleKeeps, PoolKeeps
<1>5. playable' \subseteq Slots /\ pool' \in Entries
  BY <1>1 DEF IInv, TypeOK
<1> QED BY <1>1, <1>2, <1>3, <1>4, <1>5, OwnWriteKeeps

LEMMA PageAddKeeps ==
  ASSUME ReadsWork, IInv, NEW picked \in SUBSET Slots, NEW o \in Outcomes,
         PageAdd(picked, o)
  PROVE  Good
<1>1. Edited(Added(Plays(Sectors), picked), o, Sectors)
  BY AllReadable DEF PageAdd
<1>2. Added(Plays(Sectors), picked) \in Entries
  BY PlaysType, AddedType DEF IInv
<1> QED BY <1>1, <1>2, EditedKeeps

LEMMA PageClearKeeps ==
  ASSUME ReadsWork, IInv, NEW picked, NEW o \in Outcomes, PageClear(picked, o)
  PROVE  Good
<1> DEFINE e == [j \in 1..PoolEntries |->
                   IF j \in picked THEN Empty ELSE Plays(Sectors)[j]]
<1>1. Edited(e, o, Sectors)
  BY AllReadable DEF PageClear
<1>2. e \in Entries
  BY PlaysType DEF IInv, Entries
<1> HIDE DEF e
<1> QED BY <1>1, <1>2, EditedKeeps

(* SAVE, LOAD, CREATE NEW.                                                 *)
LEMMA CopiesKeep ==
  ASSUME ReadsWork, IInv, NEW o \in Outcomes,
         Create(o) \/ \E p \in Others : Save(p, o) \/ Load(p, o)
  PROVE  Good
<1>1. CASE Create(o)
  <2>1. /\ Write(Working, EmptyList, o, Sectors, None)
        /\ stale' = TRUE /\ untold' = FALSE /\ UNCHANGED <<playable, pool>>
    BY <1>1, AllReadable DEF Create, Counts
  <2> QED BY <2>1, EmptyListType, StaleKeeps, OwnWriteKeeps
          DEF Projects, IInv, TypeOK
<1>2. ASSUME NEW p \in Others, Load(p, o) PROVE Good
  <2>1. /\ Write(Working, ListIn(p, Sectors), o, Sectors, None)
        /\ stale' = TRUE /\ untold' = FALSE /\ UNCHANGED <<playable, pool>>
    BY <1>2, AllReadable DEF Load, Copy, Counts
  <2>2. ListIn(p, Sectors) \in List
    BY GenType DEF IInv, Projects
  <2> QED BY <2>1, <2>2, StaleKeeps, OwnWriteKeeps DEF Projects, IInv, TypeOK
<1>3. ASSUME NEW p \in Others, Save(p, o) PROVE Good
  <2>1. /\ Write(p, ListIn(Working, Sectors), o, Sectors, None)
        /\ UNCHANGED <<playable, stale, untold, pool>>
    BY <1>3, AllReadable DEF Save, Copy
  <2>2. ListIn(Working, Sectors) \in List
    BY GenType DEF IInv, Projects
  <2>3. PoolUpToDate'
    BY <2>1, <2>2, PoolKeeps, RecordsAssumption DEF Projects
  <2> QED BY <2>1, <2>2, <2>3, OwnWriteKeeps DEF Projects, IInv, TypeOK
<1> QED BY <1>1, <1>2, <1>3

LEMMA RefillKeeps == ASSUME ReadsWork, IInv, Refill PROVE Good
<1>1. /\ pool' = Fill(Current(Working)) /\ stale' = FALSE
      /\ UNCHANGED <<rec, playable, untold, view, acked>>
  BY AllReadable DEF Refill, Current
<1>2. pool' \in Entries
  BY <1>1, GenType, ResolveType DEF IInv, Current, Projects
<1>3. PoolUpToDate'
  <2>1. Current(Working)' = Current(Working)
    BY <1>1 DEF Current, ListIn, Gen, Side, CurrentIsB, GenAt
  <2> QED BY <1>1, <2>1 DEF PoolUpToDate, Fill, Resolve, InOrder
<1> QED BY <1>1, <1>2, <1>3, NoWriteKeeps DEF IInv, TypeOK

LEMMA StoreCommitsKeeps == ASSUME IInv, StoreCommits PROVE Good
BY StaleKeeps, NoWriteKeeps DEF StoreCommits, SlotChanges, Counts, IInv, TypeOK

(* The tables change untold: nothing is said of the pool, unless it is to  *)
(* refill.                                                                 *)
LEMMA StoreFailsKeeps == ASSUME IInv, StoreFails PROVE Good
<1>1. playable' \subseteq Slots /\ untold' \in BOOLEAN /\ (stale' \/ untold')
  BY DEF StoreFails, SlotChanges, IInv, TypeOK
<1>2. PoolUpToDate'
  BY <1>1 DEF PoolUpToDate
<1> QED BY <1>1, <1>2, NoWriteKeeps DEF StoreFails, IInv, TypeOK

LEMMA PowerLossKeeps == ASSUME ReadsWork, IInv, PowerLoss PROVE Good
<1>1. /\ stale' = TRUE /\ untold' = FALSE /\ pool' = NoEntries
      /\ playable' = playable \/ SlotChanges
      /\ \/ UNCHANGED <<rec, view, acked>>
         \/ \E p \in Projects, l \in List, o \in Cuts : Write(p, l, o, Sectors, None)
  BY AllReadable DEF PowerLoss, Counts
<1>2. playable' \subseteq Slots /\ pool' \in Entries /\ PoolUpToDate'
  BY <1>1, EmptyListType, StaleKeeps DEF SlotChanges, IInv, TypeOK
<1>3. CASE UNCHANGED <<rec, view, acked>>
  BY <1>1, <1>2, <1>3, NoWriteKeeps
<1>4. ASSUME NEW p \in Projects, NEW l \in List, NEW o \in Cuts,
             Write(p, l, o, Sectors, None)
      PROVE  Good
  BY <1>1, <1>2, <1>4, OwnWriteKeeps DEF Cuts
<1> QED BY <1>1, <1>3, <1>4

LEMMA InitHolds == Init => IInv
<1> SUFFICES ASSUME Init PROVE IInv
  OBVIOUS
<1>1. \A p \in Projects : Gen(p, Sectors) = 0 /\ Current(p) = EmptyList
  BY DEF Init, Gen, GenAt, Side, CurrentIsB, Current, ListIn, Sectors
<1>2. TypeOK
  BY EmptyListType DEF Init, TypeOK
<1> QED BY <1>1, <1>2 DEF Init, IInv, ListDurable, PoolUpToDate, ViewInv

LEMMA StepKeeps == ASSUME ReadsWork, IInv, [Next]_vars PROVE Good
<1>1. CASE UNCHANGED vars
  <2>1. PoolUpToDate'
    <3>1. Current(Working)' = Current(Working)
      BY <1>1 DEF vars, Current, ListIn, Gen, Side, CurrentIsB, GenAt
    <3> QED BY <1>1, <3>1 DEF vars, IInv, PoolUpToDate, Fill, Resolve, InOrder
  <2> QED BY <1>1, <2>1, NoWriteKeeps DEF vars, IInv, TypeOK
<1>2. CASE Next
  BY <1>2, ClientReadKeeps, ClientWriteKeeps, PageAddKeeps, PageClearKeeps, CopiesKeep,
     StoreCommitsKeeps, StoreFailsKeeps, RefillKeeps, PowerLossKeeps DEF Next
<1> QED BY <1>1, <1>2

-----------------------------------------------------------------------------
(* Types, whatever reads fail.                                             *)

(* A sector write with what the handler does beside it.                    *)
LEMMA WriteStepType ==
  ASSUME TypeOK, NEW p \in Projects, NEW l \in List, NEW o, NEW readable, NEW by,
         Write(p, l, o, readable, by), playable' \subseteq Slots,
         stale' \in BOOLEAN, untold' \in BOOLEAN, pool' \in Entries
  PROVE  TypeOK'
BY WriteType DEF TypeOK

LEMMA EditedType ==
  ASSUME TypeOK, NEW e \in Entries, NEW o, NEW readable, Edited(e, o, readable)
  PROVE  TypeOK'
<1>1. Explicit(e) \in List /\ Working \in Projects
  BY ExplicitType DEF Projects
<1>2. Write(Working, Explicit(e), o, readable, None) /\ playable' \subseteq Slots
  BY DEF Edited, TypeOK
<1>3. stale' \in BOOLEAN /\ untold' \in BOOLEAN /\ pool' \in Entries
  BY CountsEffect DEF Edited, TypeOK
<1> QED BY <1>1, <1>2, <1>3, WriteStepType

LEMMA ClientType ==
  ASSUME TypeOK, NEW c \in Clients,
         (\E p \in Projects : ClientRead(c, p)) \/ (\E o \in Outcomes : ClientWrite(c, o))
  PROVE  TypeOK'
<1>1. ASSUME NEW p \in Projects, ClientRead(c, p) PROVE TypeOK'
  <2>1. PICK readable \in Readable :
          view' = [view EXCEPT ![c] = [project |-> p, gen |-> Gen(p, readable),
                                       fresh |-> readable = Sectors]]
    BY <1>1 DEF ClientRead
  <2>2. [project |-> p, gen |-> Gen(p, readable), fresh |-> readable = Sectors] \in View
    BY GenType DEF View
  <2>3. view' \in [Clients -> View \union {None}]
    BY <2>1, <2>2 DEF TypeOK
  <2> QED BY <1>1, <2>3 DEF ClientRead, TypeOK
<1>2. ASSUME NEW o \in Outcomes, ClientWrite(c, o) PROVE TypeOK'
  <2>1. view[c] # None /\ playable' \subseteq Slots /\ pool' = pool
    BY <1>2 DEF ClientWrite, TypeOK
  <2>2. view[c].project \in Projects
    BY <2>1 DEF TypeOK, View
  <2>3. ASSUME Refuse(c) PROVE TypeOK'
    BY <2>1, <2>3 DEF Refuse, TypeOK
  <2>4. ASSUME NEW p \in Projects, NEW l \in List, NEW found,
               Write(p, l, o, found, c), Counts(o = "done" /\ p = Working)
        PROVE  TypeOK'
    <3>1. stale' \in BOOLEAN /\ untold' \in BOOLEAN
      BY <2>4, CountsEffect
    <3>2. pool' \in Entries
      BY <2>1 DEF TypeOK
    <3> QED BY <2>1, <2>4, <3>1, <3>2, WriteStepType
  <2> QED BY <1>2, <2>2, <2>3, <2>4 DEF ClientWrite, Swap
<1> QED BY <1>1, <1>2

LEMMA PageType ==
  ASSUME TypeOK, NEW o \in Outcomes,
         \/ \E picked \in SUBSET Slots : PageAdd(picked, o)
         \/ \E picked \in SUBSET (1..PoolEntries) : PageClear(picked, o)
  PROVE  TypeOK'
<1>1. ASSUME NEW picked \in SUBSET Slots, PageAdd(picked, o) PROVE TypeOK'
  <2>1. PICK start \in Readable, found \in Readable :
          Edited(Added(Plays(start), picked), o, found)
    BY <1>1 DEF PageAdd
  <2> QED BY <2>1, PlaysType, AddedType, EditedType
<1>2. ASSUME NEW picked \in SUBSET (1..PoolEntries), PageClear(picked, o) PROVE TypeOK'
  <2> DEFINE e(start) == [j \in 1..PoolEntries |->
                            IF j \in picked THEN Empty ELSE Plays(start)[j]]
  <2>1. PICK start \in Readable, found \in Readable : Edited(e(start), o, found)
    BY <1>2 DEF PageClear
  <2>2. e(start) \in Entries
    BY PlaysType DEF Entries
  <2> HIDE DEF e
  <2> QED BY <2>1, <2>2, EditedType
<1> QED BY <1>1, <1>2

LEMMA CopiesType ==
  ASSUME TypeOK, NEW o \in Outcomes, Create(o) \/ \E p \in Others : Save(p, o) \/ Load(p, o)
  PROVE  TypeOK'
<1>1. \A q \in Projects, readable \in Readable : ListIn(q, readable) \in List
  BY GenType
<1>2. PICK p \in Projects, l \in List, readable \in Readable : Write(p, l, o, readable, None)
  BY <1>1, EmptyListType DEF Create, Save, Load, Copy, Projects
<1>3. playable' = playable /\ pool' = pool /\ \E yes \in BOOLEAN : Counts(yes)
  BY DEF Create, Save, Load, Copy, Counts
<1>4. /\ stale' \in BOOLEAN /\ untold' \in BOOLEAN /\ pool' \in Entries
      /\ playable' \subseteq Slots
  BY <1>3, CountsEffect DEF TypeOK
<1> QED BY <1>2, <1>3, <1>4, WriteStepType

LEMMA OtherType ==
  ASSUME TypeOK, StoreCommits \/ StoreFails \/ Refill \/ PowerLoss PROVE TypeOK'
<1>1. CASE StoreCommits \/ StoreFails
  BY <1>1 DEF StoreCommits, StoreFails, SlotChanges, Counts, TypeOK
<1>2. CASE Refill
  <2>1. \A readable \in Readable : Fill(ListIn(Working, readable)) \in Entries
    BY GenType, ResolveType DEF Projects
  <2>2. pool' \in Entries
    BY <1>2, <2>1 DEF Refill
  <2> QED BY <1>2, <2>2 DEF Refill, TypeOK
<1>3. CASE PowerLoss
  <2>1. /\ stale' \in BOOLEAN /\ untold' \in BOOLEAN /\ pool' \in Entries
        /\ playable' \subseteq Slots
    BY <1>3, EmptyListType DEF PowerLoss, SlotChanges, Counts, TypeOK
  <2>2. CASE UNCHANGED <<rec, view, acked>>
    BY <2>1, <2>2 DEF TypeOK
  <2>3. CASE \E p \in Projects, l \in List, o \in Cuts, readable \in Readable :
               Write(p, l, o, readable, None)
    BY <2>1, <2>3, WriteStepType
  <2> QED BY <1>3, <2>2, <2>3 DEF PowerLoss
<1> QED BY <1>1, <1>2, <1>3

(* Every list and record the code ever reads back or fills the pool from   *)
(* is one of its types, also when sectors cannot be read.                  *)
THEOREM RecordsTypes == Spec => []TypeOK
<1>1. Init => TypeOK
  BY InitHolds DEF IInv
<1>2. TypeOK /\ [Next]_vars => TypeOK'
  <2> SUFFICES ASSUME TypeOK, [Next]_vars PROVE TypeOK'
    OBVIOUS
  <2>1. CASE UNCHANGED vars
    BY <2>1 DEF vars, TypeOK
  <2>2. CASE Next
    BY <2>2, ClientType, PageType, CopiesType, OtherType DEF Next
  <2> QED BY <2>1, <2>2
<1> QED BY <1>1, <1>2, PTL DEF Spec

-----------------------------------------------------------------------------
(* The theorems, for sectors that can be read.                             *)

(* The types, durability, the pool and the views, always.                  *)
THEOREM RecordsInvariant ==
  ReadsWork => (Spec => [](TypeOK /\ ListDurable /\ PoolUpToDate /\ ViewInv))
<1> SUFFICES ASSUME ReadsWork
             PROVE  Spec => [](TypeOK /\ ListDurable /\ PoolUpToDate /\ ViewInv)
  OBVIOUS
<1>1. IInv /\ [Next]_vars => IInv'
  BY StepKeeps DEF Good
<1>2. IInv <=> TypeOK /\ ListDurable /\ PoolUpToDate /\ ViewInv
  BY DEF IInv
<1> QED BY <1>1, <1>2, InitHolds, PTL DEF Spec

(* An acknowledged list stays until the next attempt to write it.          *)
THEOREM AcknowledgedListIsDurable == ReadsWork => (Spec => []ListDurable)
BY RecordsInvariant, PTL

(* A pool that sees no change holds what the working project plays, but    *)
(* for the two failures that land and are told to nobody (PoolUpToDate).   *)
THEOREM PoolFollowsTheList == ReadsWork => (Spec => []PoolUpToDate)
BY RecordsInvariant, PTL

(* No step writes a sector that holds a current record.                    *)
THEOREM CurrentSectorSafe == ReadsWork => (Spec => NeverWritesCurrentSector)
<1> SUFFICES ASSUME ReadsWork PROVE Spec => NeverWritesCurrentSector
  OBVIOUS
<1>1. IInv /\ [Next]_vars => [CurrentSectorKept]_vars /\ IInv'
  BY StepKeeps DEF Good
<1> QED BY <1>1, InitHolds, PTL DEF Spec, NeverWritesCurrentSector

(* The compare-and-swap never lets a client that sends a generation write  *)
(* over what another writer stored since.                                  *)
THEOREM CompareAndSwapWorks == ReadsWork => (Spec => NoLostEdit)
<1> SUFFICES ASSUME ReadsWork PROVE Spec => NoLostEdit
  OBVIOUS
<1>1. IInv /\ [Next]_vars => [EditKept]_vars /\ IInv'
  BY StepKeeps DEF Good
<1> QED BY <1>1, InitHolds, PTL DEF Spec, NoLostEdit, EditKept

-----------------------------------------------------------------------------
(* The two sectors as one list with a version (ListSpec).                  *)

ShowsCurrent ==
  \A p \in Projects : Shown(p) = [list |-> Current(p), version |-> Gen(p, Sectors)]

LEMMA ShownIs == TypeOK => ShowsCurrent
<1> SUFFICES ASSUME TypeOK, NEW p \in Projects
             PROVE  Shown(p) = [list |-> Current(p), version |-> Gen(p, Sectors)]
  BY DEF ShowsCurrent
<1> DEFINE s == Side(p, Sectors)
<1>1. s \in Sectors /\ rec[p][s] \in Record \union {None}
  BY DEF Side, Sectors, TypeOK
<1>2. Gen(p, Sectors) = IF rec[p][s] # None THEN rec[p][s].gen ELSE 0
  BY <1>1 DEF Gen, GenAt
<1>3. CASE rec[p][s] = None
  BY <1>2, <1>3 DEF Shown, Current, ListIn
<1>4. CASE rec[p][s] # None
  <2>1. rec[p][s].gen # 0
    BY <1>1, <1>4 DEF Record
  <2> QED BY <1>2, <1>4, <2>1 DEF Shown, Current, ListIn
<1> QED BY <1>3, <1>4

(* What ListSpec sees of the sectors and of the clients.                   *)
StoredNow == [p \in Projects |-> Shown(p)]
HeldNow   == [c \in Clients |->
                IF view[c] = None THEN None
                ELSE [project |-> view[c].project, version |-> view[c].gen]]

(* A sector write stores the list whole, or leaves the one before.         *)
LEMMA WriteLands ==
  ASSUME TypeOK, TypeOK', NEW p \in Projects, NEW l \in List, NEW o \in Outcomes, NEW by,
         Write(p, l, o, Sectors, by)
  PROVE  \E told \in BOOLEAN : OneList!Try(p, l, told) /\ OneList!Land(p, l, told)
<1>0. (o = "done") \in BOOLEAN /\ OneList!Try(p, l, o = "done")
  BY DEF Write, OneList!Try
<1>1. /\ RecordsKept(p)
      /\ o \in {"done", "new"} => Landed(p, l)
      /\ o \in {"old", "torn"} => Missed(p)
  BY WriteEffect
<1>2. \A q \in Projects : q # p => Shown(q)' = Shown(q)
  BY <1>1 DEF RecordsKept, Shown, Side, CurrentIsB, GenAt
<1>3. /\ Shown(p) = [list |-> Current(p), version |-> Gen(p, Sectors)]
      /\ Shown(p)' = [list |-> Current(p)', version |-> Gen(p, Sectors)']
  <2>1. ShowsCurrent /\ ShowsCurrent'
    BY ShownIs, PTL
  <2> QED BY <2>1 DEF ShowsCurrent
<1>4. CASE o \in {"done", "new"}
  <2>1. Shown(p)' = [list |-> l, version |-> Shown(p).version + 1]
    BY <1>1, <1>3, <1>4 DEF Landed
  <2>2. StoredNow' = [StoredNow EXCEPT ![p] = [list |-> l, version |-> @.version + 1]]
    BY <1>2, <2>1 DEF StoredNow
  <2>3. OneList!Store(p, l)
    BY <2>2 DEF StoredNow, OneList!Store
  <2> QED BY <1>0, <2>3 DEF OneList!Land
<1>5. CASE o \in {"old", "torn"}
  <2>1. Shown(p)' = Shown(p)
    BY <1>1, <1>3, <1>5 DEF Missed
  <2>2. StoredNow' = StoredNow
    BY <1>2, <2>1 DEF StoredNow
  <2> QED BY <1>0, <1>5, <2>2 DEF StoredNow, OneList!Land
<1> QED BY <1>4, <1>5 DEF Outcomes

(* A write of one leaves what the other clients hold.                      *)
LEMMA OthersHold ==
  ASSUME TypeOK, NEW p, NEW l, NEW o, NEW by, Write(p, l, o, Sectors, by),
         NEW c \in Clients, c # by
  PROVE  /\ view'[c] = None <=> view[c] = None
         /\ view[c] # None => /\ view'[c].project = view[c].project
                              /\ view'[c].gen = view[c].gen
<1>1. view'[c] = IF view[c] # None /\ view[c].project = p /\ o \in {"done", "new"}
                 THEN [view[c] EXCEPT !.fresh = FALSE] ELSE view[c]
  BY DEF Write, Seen
<1>2. CASE view[c] = None
  BY <1>1, <1>2
<1>3. CASE view[c] # None
  <2>1. view[c] \in View
    BY <1>3 DEF TypeOK
  <2>2. [view[c] EXCEPT !.fresh = FALSE] \in View
    BY <2>1 DEF View
  <2>3. /\ [view[c] EXCEPT !.fresh = FALSE].project = view[c].project
        /\ [view[c] EXCEPT !.fresh = FALSE].gen = view[c].gen
    BY <2>1 DEF View
  <2> QED BY <1>1, <1>3, <2>2, <2>3, RecordsAssumption
<1> QED BY <1>2, <1>3

(* A write of the instrument's leaves what the clients hold.               *)
LEMMA OwnWriteIsPut ==
  ASSUME TypeOK, TypeOK', NEW p \in Projects, NEW l \in List, NEW o \in Outcomes,
         Write(p, l, o, Sectors, None)
  PROVE  OneList!Next
<1>1. HeldNow' = HeldNow
  <2>1. ASSUME NEW c \in Clients
        PROVE  /\ view'[c] = None <=> view[c] = None
               /\ view[c] # None => /\ view'[c].project = view[c].project
                                    /\ view'[c].gen = view[c].gen
    BY RecordsAssumption, OthersHold
  <2> QED BY <2>1 DEF HeldNow
<1>2. OneList!Put(p, l)
  BY <1>1, WriteLands DEF HeldNow, OneList!Put
<1> QED BY <1>2 DEF OneList!Next

(* A client's write is a swap of the version it holds.                     *)
LEMMA ClientWriteIsSwap ==
  ASSUME ReadsWork, TypeOK, TypeOK', NEW c \in Clients, NEW o \in Outcomes, ClientWrite(c, o)
  PROVE  OneList!Next
<1> DEFINE p == view[c].project
<1>1. /\ view[c] # None /\ UNCHANGED <<playable, pool>>
      /\ \/ Refuse(c)
         \/ /\ view[c].gen = 0 \/ view[c].gen = Gen(p, Sectors)
            /\ \E l \in List : Write(p, l, o, Sectors, c)
  BY AllReadable DEF ClientWrite, Swap
<1>2. view[c] \in View /\ p \in Projects
  BY <1>1 DEF TypeOK, View
<1>3. CASE Refuse(c)
  <2>1. HeldNow' = [HeldNow EXCEPT ![c] = None]
    BY <1>3 DEF Refuse, HeldNow, TypeOK
  <2>2. StoredNow' = StoredNow /\ acked' = acked
    BY <1>3 DEF Refuse, StoredNow, Shown, Side, CurrentIsB, GenAt
  <2> QED BY <2>1, <2>2 DEF HeldNow, StoredNow, OneList!Refuse, OneList!Next
<1>4. ASSUME view[c].gen = 0 \/ view[c].gen = Gen(p, Sectors),
             NEW l \in List, Write(p, l, o, Sectors, c)
      PROVE  OneList!Next
  <2>1. HeldNow' = [HeldNow EXCEPT ![c] = None]
    <3>1. view'[c] = None
      BY <1>4 DEF Write, Seen
    <3>2. ASSUME NEW d \in Clients, d # c
          PROVE  /\ view'[d] = None <=> view[d] = None
                 /\ view[d] # None => /\ view'[d].project = view[d].project
                                      /\ view'[d].gen = view[d].gen
      BY <1>4, <3>2, OthersHold
    <3> QED BY <3>1, <3>2 DEF HeldNow
  <2>2. HeldNow[c] = [project |-> p, version |-> view[c].gen]
    BY <1>1 DEF HeldNow
  <2>3. HeldNow[c].version \in {0, StoredNow[HeldNow[c].project].version}
    BY <1>2, <1>4, <2>2, ShownIs DEF StoredNow, ShowsCurrent
  <2>4. HeldNow[c] # None
    <3>1. HeldNow[c] \in Held
      BY <1>2, <2>2 DEF Held, View
    <3> QED BY <3>1, RecordsAssumption
  <2>5. \E told \in BOOLEAN : /\ OneList!Try(HeldNow[c].project, l, told)
                             /\ OneList!Land(HeldNow[c].project, l, told)
    BY <1>2, <1>4, <2>2, WriteLands
  <2>6. OneList!Swap(c, l)
    BY <2>1, <2>3, <2>4, <2>5 DEF HeldNow, StoredNow, OneList!Swap
  <2> QED BY <2>6 DEF OneList!Next
<1> QED BY <1>1, <1>3, <1>4

(* A step with the records and the clients as they were.                   *)
LEMMA NothingShown ==
  UNCHANGED <<rec, view, acked>> => UNCHANGED <<StoredNow, acked, HeldNow>>
BY DEF StoredNow, HeldNow, Shown, Side, CurrentIsB, GenAt

LEMMA ClientReadIsRead ==
  ASSUME ReadsWork, TypeOK, NEW c \in Clients, NEW p \in Projects, ClientRead(c, p)
  PROVE  OneList!Next
<1> DEFINE v == [project |-> p, gen |-> Gen(p, Sectors), fresh |-> TRUE]
<1>1. view' = [view EXCEPT ![c] = v] /\ UNCHANGED <<rec, acked>>
  BY AllReadable DEF ClientRead
<1>2. StoredNow' = StoredNow
  BY <1>1 DEF StoredNow, Shown, Side, CurrentIsB, GenAt
<1>3. v # None
  <2>1. v \in View
    BY GenType DEF View
  <2> QED BY <2>1, RecordsAssumption
<1>4. HeldNow' = [HeldNow EXCEPT ![c] = [project |-> p, version |-> Gen(p, Sectors)]]
  BY <1>1, <1>3 DEF HeldNow, TypeOK
<1>5. StoredNow[p].version = Gen(p, Sectors)
  BY ShownIs DEF StoredNow, ShowsCurrent
<1>6. OneList!Read(c, p)
  BY <1>1, <1>2, <1>4, <1>5 DEF StoredNow, HeldNow, OneList!Read
<1> QED BY <1>6 DEF OneList!Next

LEMMA WritersPut ==
  ASSUME ReadsWork, TypeOK, TypeOK', NEW o \in Outcomes,
         \/ \E picked \in SUBSET Slots : PageAdd(picked, o)
         \/ \E picked \in SUBSET (1..PoolEntries) : PageClear(picked, o)
         \/ \E p \in Others : Save(p, o) \/ Load(p, o)
         \/ Create(o)
  PROVE  OneList!Next
<1>1. \A q \in Projects : ListIn(q, Sectors) \in List
  BY GenType
<1>2. ASSUME NEW e \in Entries, Edited(e, o, Sectors) PROVE OneList!Next
  <2>1. Write(Working, Explicit(e), o, Sectors, None)
    BY <1>2 DEF Edited
  <2> QED BY <2>1, ExplicitType, OwnWriteIsPut DEF Projects
<1>3. ASSUME NEW picked \in SUBSET Slots, PageAdd(picked, o) PROVE OneList!Next
  <2>1. Edited(Added(Plays(Sectors), picked), o, Sectors)
    BY <1>3, AllReadable DEF PageAdd
  <2> QED BY <1>2, <2>1, PlaysType, AddedType
<1>4. ASSUME NEW picked \in SUBSET (1..PoolEntries), PageClear(picked, o)
      PROVE  OneList!Next
  <2> DEFINE e == [j \in 1..PoolEntries |->
                     IF j \in picked THEN Empty ELSE Plays(Sectors)[j]]
  <2>1. Edited(e, o, Sectors)
    BY <1>4, AllReadable DEF PageClear
  <2>2. e \in Entries
    BY PlaysType DEF Entries
  <2> HIDE DEF e
  <2> QED BY <1>2, <2>1, <2>2
<1>5. ASSUME NEW p \in Others, Save(p, o) \/ Load(p, o) PROVE OneList!Next
  <2>1. p \in Projects /\ Working \in Projects
    BY DEF Projects
  <2>2. \/ Write(p, ListIn(Working, Sectors), o, Sectors, None)
        \/ Write(Working, ListIn(p, Sectors), o, Sectors, None)
    BY <1>5, AllReadable DEF Save, Load, Copy
  <2> QED BY <1>1, <2>1, <2>2, OwnWriteIsPut
<1>6. CASE Create(o)
  BY <1>6, AllReadable, EmptyListType, OwnWriteIsPut DEF Create, Projects
<1> QED BY <1>3, <1>4, <1>5, <1>6

LEMMA StepImplements ==
  ASSUME ReadsWork, TypeOK, TypeOK', [Next]_vars
  PROVE  OneList!Next \/ UNCHANGED <<StoredNow, acked, HeldNow>>
<1>1. CASE UNCHANGED vars
  BY <1>1, NothingShown DEF vars
<1>2. CASE StoreCommits \/ StoreFails \/ Refill
  BY <1>2, NothingShown DEF StoreCommits, StoreFails, Refill
<1>3. CASE PowerLoss
  <2>1. \/ UNCHANGED <<rec, view, acked>>
        \/ \E p \in Projects, l \in List, o \in Cuts : Write(p, l, o, Sectors, None)
    BY <1>3, AllReadable DEF PowerLoss
  <2>2. ASSUME NEW p \in Projects, NEW l \in List, NEW o \in Cuts,
               Write(p, l, o, Sectors, None)
        PROVE  OneList!Next
    BY <2>2, OwnWriteIsPut DEF Cuts
  <2> QED BY <2>1, <2>2, NothingShown
<1> QED BY <1>1, <1>2, <1>3, ClientReadIsRead, ClientWriteIsSwap, WritersPut DEF Next

(* The sectors, their generations and the compare-and-swap implement one   *)
(* list a project with a version, however writes fail and are cut.         *)
THEOREM SectorsImplementOneList == ReadsWork => (Spec => KeepsOneList)
<1> SUFFICES ASSUME ReadsWork PROVE Spec => KeepsOneList
  OBVIOUS
<1>1. Init => OneList!Init
  <2> SUFFICES ASSUME Init PROVE OneList!Init
    OBVIOUS
  <2>1. \A p \in Projects : Shown(p) = [list |-> EmptyList, version |-> 0]
    BY DEF Init, Shown, Side, Sectors
  <2> QED BY <2>1 DEF Init, OneList!Init
<1>2. TypeOK /\ TypeOK' /\ [Next]_vars => [OneList!Next]_(OneList!vars)
  BY StepImplements DEF OneList!vars, StoredNow, HeldNow
<1> QED BY <1>1, <1>2, RecordsTypes, PTL DEF Spec, KeepsOneList, OneList!Spec
=============================================================================
