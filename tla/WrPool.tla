------------------------------- MODULE WrPool -------------------------------
(***************************************************************************)
(* The pool's fill (csrc/waverider/pool.c): the working project's list of  *)
(* store slots, their tables into the DSP's load area, the request         *)
(* directory, and the levels the DSP builds of them (WrBuild).             *)
(*                                                                         *)
(* The UI task calls wr_drive_poll once a pass; the store and the list may *)
(* change between two passes, and the loader (WrLoader) delivers what it   *)
(* was asked for pair by pair meanwhile.                                   *)
(*                                                                         *)
(* Abstractions: `list' is the store slots the list resolves to, those     *)
(* without a playable table left out (WrRecords); a chunk is a pair of     *)
(* frames, read from the +Drive and delivered in one step; names, display  *)
(* spans and counts are left out; wr_store.changes against changes_seen is *)
(* one Boolean.                                                            *)
(***************************************************************************)
EXTENDS WrBuild

CONSTANTS Slots,       (* store slots                                      *)
          Stored,      (* [Slots -> Tables]: the tables stored at boot     *)
          MaxChanges   (* bound: changes of store and list, and errors     *)

ASSUME PoolAssumption ==
  None \notin Slots /\ Stored \in [Slots -> Tables] /\ MaxChanges \in Nat

Lists  == [Entries -> Slots \union {None}]
States == {"waiting", "ready", "clearing", "filling", "magic", "directory", "failed"}
Loads  == {"none", "clear", "table", "directory", "magic"}

VARIABLES
  store,    (* [Slots -> Tables]: the tables on the +Drive                 *)
  list,     (* what the working project plays                              *)
  stale,    (* wr_store.changes differs from changes_seen                  *)
  state,    (* wr_pool.state                                               *)
  slots,    (* the list as begin() found it                                *)
  next,     (* the next entry to send                                      *)
  load,     (* what the loader has under way                               *)
  part,     (* the pair of the table to deliver next                       *)
  lost,     (* history: an error since begin() has kept a change from it   *)
  changes   (* history: changes and errors so far, for the bound           *)

drive == <<store, list, stale, lost, changes>>
fill  == <<state, slots, next>>
vars  == <<buildVars, store, list, stale, state, slots, next, load, part, lost, changes>>

-----------------------------------------------------------------------------
(* wr_drive_poll, one state at a time.                                     *)

Idle == load = "none"

Counted == changes < MaxChanges /\ changes' = changes + 1

(* begin: after boot, and again whenever the store has changed.  A store   *)
(* that cannot be read is an empty one, a list that cannot be read an      *)
(* older one or the store's order.                                         *)
Begin_Once ==                             (* mutant: no refill when ready *)
  /\ state = "waiting"
  /\ state' = "clearing"
  /\ stale' = FALSE /\ next' = 0
  /\ slots' = list /\ lost' = FALSE
  /\ UNCHANGED <<buildVars, store, list, load, part, changes>>

Begin ==
  /\ state = "waiting" \/ (state = "ready" /\ stale /\ Idle)
  /\ state' = "clearing"
  /\ stale' = FALSE /\ next' = 0
  /\ \/ slots' = list /\ lost' = FALSE /\ UNCHANGED changes
     \/ slots' \in Lists /\ lost' = TRUE /\ Counted
  /\ UNCHANGED <<buildVars, store, list, load, part>>

Ask(what) ==
  /\ Idle
  /\ load' = what /\ part' = 1
  /\ UNCHANGED <<buildVars, drive, slots>>

(* The DSP stops building before a table is rewritten.                     *)
Clear_Skipped ==                     (* mutant: the magic is not cleared *)
  /\ state = "clearing" /\ state' = "filling"
  /\ Idle /\ UNCHANGED <<buildVars, drive, slots, next, load, part>>

Clear ==
  /\ state = "clearing" /\ state' = "filling"
  /\ Ask("clear") /\ UNCHANGED next

Filling == {e \in Entries : \E d \in Entries : d >= e /\ slots[d] # None}

EmptyEntry ==
  /\ state = "filling" /\ Idle /\ next \in Filling /\ slots[next] = None
  /\ next' = next + 1
  /\ UNCHANGED <<buildVars, drive, state, slots, load, part>>

SendTable_Any ==                    (* mutant: an empty entry's is sent too *)
  /\ state = "filling" /\ next \in Filling
  /\ Ask("table")
  /\ next' = next + 1
  /\ UNCHANGED state

SendTable ==
  /\ state = "filling" /\ next \in Filling /\ slots[next] # None
  /\ Ask("table")
  /\ next' = next + 1
  /\ UNCHANGED state

SendDirectory ==
  /\ state = "filling" /\ next \notin Filling /\ state' = "magic"
  /\ Ask("directory") /\ UNCHANGED next

SendMagic ==
  /\ state = "magic" /\ state' = "directory"
  /\ Ask("magic") /\ UNCHANGED next

Done_Seen ==                  (* mutant: changes_seen is taken at the end *)
  /\ state = "directory" /\ Idle /\ state' = "ready" /\ stale' = FALSE
  /\ UNCHANGED <<buildVars, store, list, lost, changes, slots, next, load, part>>

Done ==
  /\ state = "directory" /\ Idle /\ state' = "ready"
  /\ UNCHANGED <<buildVars, drive, slots, next, load, part>>

(* The loader gave up for good, its last chunk written all the same or not. *)
Fails ==
  /\ state' = "failed" /\ load' = "none" /\ part' = 1
  /\ UNCHANGED <<buildVars, drive, slots, next>>

Pass == Begin \/ Clear \/ EmptyEntry \/ SendTable \/ SendDirectory \/ SendMagic \/ Done

-----------------------------------------------------------------------------
(* What the loader delivers.                                               *)

Arrives ==
  /\ state # "failed"
  /\ UNCHANGED <<drive, fill>>
  /\ \/ load = "clear" /\ PutMagic(FALSE) /\ load' = "none" /\ UNCHANGED part
     \/ /\ load = "table"
        /\ PutPair(next - 1, part, store[slots[next - 1]])
        /\ IF part < Pairs THEN part' = part + 1 /\ UNCHANGED load
                           ELSE load' = "none" /\ part' = 1
     \/ /\ load = "directory"
        /\ PutDirectory({e \in Entries : slots[e] # None})
        /\ load' = "none" /\ UNCHANGED part
     \/ load = "magic" /\ PutMagic(TRUE) /\ load' = "none" /\ UNCHANGED part

(* A read fails: the rest of the extent is given up, and the pool goes on. *)
ReadError ==
  /\ state # "failed" /\ load = "table"
  /\ load' = "none" /\ part' = 1
  /\ lost' = TRUE /\ Counted
  /\ UNCHANGED <<buildVars, store, list, stale, fill>>

-----------------------------------------------------------------------------
(* What changes under it: the list (its writers, or a table stored or      *)
(* deleted), and a slot's table; an upload that fails after its table is   *)
(* written does not step wr_store.changes.                                 *)

ListChange ==
  /\ Counted
  /\ list' \in Lists
  /\ stale' = TRUE
  /\ UNCHANGED <<buildVars, store, lost, fill, load, part>>

Upload(n, t, ok) ==
  /\ Counted
  /\ store' = [store EXCEPT ![n] = t]
  /\ stale' = (stale \/ ok) /\ lost' = (lost \/ ~ok)
  /\ UNCHANGED <<buildVars, list, fill, load, part>>

Change == ListChange \/ \E n \in Slots, t \in Tables, ok \in BOOLEAN : Upload(n, t, ok)

-----------------------------------------------------------------------------
Init ==
  /\ BuildInit
  /\ store = Stored /\ list \in Lists
  /\ stale = FALSE /\ lost = FALSE /\ changes = 0
  /\ state = "waiting" /\ slots = [e \in Entries |-> None] /\ next = 0
  /\ load = "none" /\ part = 1

Dsp == (Build \/ Block) /\ UNCHANGED <<drive, fill, load, part>>

Next == Pass \/ Arrives \/ ReadError \/ Fails \/ Change \/ Dsp

Spec == Init /\ [][Next]_vars

(* The UI pass, the frame exchange, the block and the DSP's idle loop go   *)
(* on for ever.                                                            *)
Fairness ==
  /\ WF_vars(Pass) /\ WF_vars(Arrives)
  /\ WF_vars(Build /\ UNCHANGED <<drive, fill, load, part>>)
  /\ WF_vars(Block /\ UNCHANGED <<drive, fill, load, part>>)
FairSpec == Spec /\ Fairness

-----------------------------------------------------------------------------
TypeOK ==
  /\ BuildTypeOK
  /\ store \in [Slots -> Tables] /\ list \in Lists /\ slots \in Lists
  /\ stale \in BOOLEAN /\ lost \in BOOLEAN /\ state \in States /\ load \in Loads
  /\ next \in 0..Count /\ part \in Part /\ changes \in Nat
  /\ load = "table" => next > 0 /\ slots[next - 1] # None

-----------------------------------------------------------------------------
(* The pool keeps the builder's contract, whatever fails: no table is      *)
(* rewritten while the magic stands, and it stands again only over a new   *)
(* directory, although each is a message of its own (pool.c, CLEARING to   *)
(* MAGIC).                                                                 *)
KeepsContract == BuildSpec

(* What plays is what the list and the store say.                          *)
Right == \A e \in Entries :
           IF list[e] = None THEN built[e] = None
           ELSE built[e] # None /\ \A p \in Part : levels[built[e]][p] = store[list[e]]

(* Once the pool is ready, nothing has changed or failed since it began,   *)
(* and the builder has passed every entry, what plays is right: a change   *)
(* while a table loads, a call of the builder that spans a fill, an error  *)
(* of an earlier fill, none is left uncorrected (begin takes changes_seen  *)
(* first; a new generation starts over).                                   *)
SettledIsRight == state = "ready" /\ ~stale /\ ~lost /\ seen /\ j = Count => Right

(* If the store stops changing, the pool comes to play what it says, and   *)
(* stays so, or the loader has failed, or an error has hidden a change.    *)
Converges == <>[][~Change]_vars => <>[](Right \/ state = "failed" \/ lost)

(* pool.c, "names an entry for pool.asm only once it is whole; an entry    *)
(* being rebuilt is silent meanwhile, never half a table".                 *)
NeverHalfATable == \A e \in Entries : built[e] # None =>
                     \E t \in Tables : \A p \in Part : levels[built[e]][p] = t
=============================================================================
