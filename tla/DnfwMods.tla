------------------------------ MODULE DnfwMods ------------------------------
(***************************************************************************)
(* `dnfw mods apply`: several firmware mods put into one image, by one     *)
(* command or by one after another (src/dnfw/cli/mods.py), on the platform *)
(* they share (src/dnfw/mods/platform.py) with its hook bus (mods/bus.py). *)
(*                                                                         *)
(* A mod edits bytes and may bring chunks for the area past MAIN OS's end. *)
(* A hook's bytes run from a copy in its mod's chunk, so another's edit of *)
(* them must land there.  The bus owns the bytes several mods need: a      *)
(* count's bounds, an event's site.  Each apply puts those back to stock,  *)
(* edits, and writes them again for every mod there is.                    *)
(*                                                                         *)
(* Abstractions: a byte is who wrote it and, for a bound, the number added *)
(* to its stock value; an edit is the set of its addresses; a mod is a     *)
(* record of what its module declares and brings, and its chunks are named *)
(* by it.  The area's layout, the loader and the sections other than MAIN  *)
(* OS are left out.                                                        *)
(***************************************************************************)
EXTENDS Naturals, Sequences, FiniteSets

CONSTANTS Mod,        (* the registry's mods                                 *)
          Def,        (* [Mod -> what each is], see ModType                  *)
          Addr,       (* MAIN OS's bytes                                     *)
          Ram,        (* the RAM above BSS                                   *)
          Count,      (* "PARM", "MACH"                                      *)
          Bounds,     (* [Count -> the addresses of its bounds]              *)
          Event,      (* "PSLT", ...                                         *)
          Hook,       (* [Event -> its site's address]                       *)
          Table,      (* the stock parameter table, which a mod may copy     *)
          Refused,    (* the pairs refused by hand (matrix.py)               *)
          TableSlots, (* the dispatcher's slots for an event                 *)
          MaxChosen   (* bound: mods of one command                          *)

Stock    == [by |-> "stock", n |-> 0]
Edit(m)  == [by |-> m, n |-> 0]
Total(n) == [by |-> "count", n |-> n]
Jump     == [by |-> "event", n |-> 0]
Byte     == [by : Mod \union {"stock", "count", "event"}, n : Nat]
Owned    == (UNION {Bounds[c] : c \in Count}) \union {Hook[e] : e \in Event}

Subs     == [event : Event, order : Nat, handler : Nat]
ModType  ==
  [edits    : SUBSET SUBSET Addr,  (* the bytes it edits, but for ...        *)
   site     : SUBSET Addr,         (* ... the hook it records as displaced   *)
   guards   : SUBSET Addr,         (* what it wants stock besides            *)
   platform : BOOLEAN,             (* it splits and joins                    *)
   reads    : BOOLEAN,             (* its guards use platform.read           *)
   writes   : BOOLEAN,             (* its edits use platform.write           *)
   onTable  : BOOLEAN,             (* it wants the table where stock has it  *)
   copies   : BOOLEAN,             (* it moves the table; APPLY_LAST         *)
   code     : SUBSET Ram,          (* where its CODE chunks run              *)
   ram      : SUBSET Ram,          (* what its ram() declares                *)
   subs     : SUBSET Subs,
   adds     : [Count -> Nat]]

EditsOf(m)  == UNION Def[m].edits
AllEdits(m) == EditsOf(m) \union Def[m].site

(* What the registry's mods keep to: only a mod on the platform records a  *)
(* site or brings chunks; no two record the same bytes, which neither the  *)
(* bus nor the table has whole; a mod that edits the table wants it unmoved *)
(* (fxmod, lfowaves, moddest), and its copier edits none of it; a mod that *)
(* records a site edits other bytes too.                                   *)
ASSUME ModAssumption ==
  /\ Def \in [Mod -> ModType] /\ \A m \in Mod : IsFiniteSet(Def[m].subs)
  /\ Bounds \in [Count -> SUBSET Addr] /\ Hook \in [Event -> Addr]
  /\ Table \subseteq Addr /\ Table \intersect Owned = {}
  /\ Mod \intersect {"stock", "count", "event"} = {}
  /\ TableSlots \in Nat /\ MaxChosen \in Nat
  /\ \A c, d \in Count : c # d => Bounds[c] \intersect Bounds[d] = {}
  /\ \A e, f \in Event : e # f => Hook[e] # Hook[f]
  /\ \A e \in Event, c \in Count : Hook[e] \notin Bounds[c]
ASSUME RegistryAssumption ==
  \A m \in Mod :
    /\ ~Def[m].platform => Def[m].site = {} /\ Def[m].code = {} /\ Def[m].subs = {}
                           /\ ~Def[m].copies /\ \A c \in Count : Def[m].adds[c] = 0
    /\ Def[m].site \intersect Table = {}
    /\ Def[m].site \intersect EditsOf(m) = {}
    /\ Def[m].site # {} => EditsOf(m) # {}
    /\ Def[m].copies \/ Def[m].onTable \/ AllEdits(m) \intersect Table = {}
    /\ Def[m].copies => AllEdits(m) \intersect Table = {}
    /\ \A o \in Mod : m # o => Def[m].site \intersect Def[o].site = {}

VARIABLES
  disk,     (* the image file last written, stock at first                   *)
  source,   (* the image this command reads                                  *)
  staged,   (* ... with the payloads of the mods applied so far              *)
  chosen,   (* the mods it names, << >> between two commands                 *)
  todo      (* those still to apply                                          *)

vars == <<disk, source, staged, chosen, todo>>

(* An image: MAIN OS's stock-length bytes, the mods with chunks in the     *)
(* area in their order, the displaced bytes as the area's code replays     *)
(* them, the table as its copier's chunk holds it, and the dispatchers'    *)
(* tables.  mods is a history: whoever was applied.                        *)
Nothing == [a \in {} |-> Stock]

StockImage ==
  [content |-> [a \in Addr |-> Stock], area |-> << >>, copy |-> Nothing, moved |-> Nothing,
   tables |-> [e \in Event |-> << >>], mods |-> {}]

Carried(img) == {img.area[i] : i \in DOMAIN img.area}

-----------------------------------------------------------------------------
(* platform.read and platform.write: a byte is read and written where it   *)
(* runs.  new is a function from addresses to bytes.                       *)

Runs(img, a) == IF a \in DOMAIN img.copy THEN img.copy[a] ELSE img.content[a]

AllAre(img, as, b) == \A a \in as : Runs(img, a) = b

Put_AtSite(img, new) ==             (* mutant: a displaced byte is written where it was *)
  [img EXCEPT !.content = [a \in Addr |-> IF a \in DOMAIN new THEN new[a] ELSE @[a]]]

Put(img, new) ==
  [img EXCEPT
     !.content = [a \in Addr |-> IF a \in DOMAIN new \ DOMAIN img.copy THEN new[a] ELSE @[a]],
     !.copy    = [a \in DOMAIN @ |-> IF a \in DOMAIN new THEN new[a] ELSE @[a]]]

Straddles(img, as) ==
  \E m \in Carried(img) : as \intersect Def[m].site # {} /\ ~(as \subseteq Def[m].site)

-----------------------------------------------------------------------------
(* The hook bus: what the area's mods add to the counts and subscribe to,  *)
(* and the bytes that are due for it.                                      *)

Adders(img, c)  == {i \in DOMAIN img.area : Def[img.area[i]].adds[c] > 0}
NoneTwice(img)  == \A c \in Count : \A i, j \in Adders(img, c) : i = j
Sum(img, c)     == Def[img.area[CHOOSE i \in Adders(img, c) : TRUE]].adds[c]
SubsOf(img, e)  == {s \in UNION {Def[m].subs : m \in Carried(img)} : s.event = e}

Counted(img)    == {c \in Count : Adders(img, c) # {}}
Heard(img)      == {e \in Event : SubsOf(img, e) # {}}
DueBounds(img)  == UNION {Bounds[c] : c \in Counted(img)}
DueSites(img)   == {Hook[e] : e \in Heard(img)}
Due(img)        == [a \in DueBounds(img) \union DueSites(img) |->
                     IF a \in DueSites(img) THEN Jump
                     ELSE Total(Sum(img, CHOOSE c \in Counted(img) : a \in Bounds[c]))]

Before(s, t) == s.order < t.order \/ (s.order = t.order /\ s.handler < t.handler)

Handlers_Unsorted(img, e) ==        (* mutant: in the order the mods came *)
  LET heard(m) == {s \in Def[m].subs : s.event = e}
      q        == SelectSeq(img.area, LAMBDA m : heard(m) # {}) IN
  [i \in DOMAIN q |-> (CHOOSE s \in heard(q[i]) : TRUE).handler]

Ordered(S) ==
  LET q == CHOOSE p \in [1..Cardinality(S) -> S] :
             \A i, j \in DOMAIN p : i < j => Before(p[i], p[j]) IN
  [i \in DOMAIN q |-> q[i].handler]
Handlers(img, e) == Ordered(SubsOf(img, e))

(* detach puts the due bytes back to stock; attach writes them again and   *)
(* fills the dispatchers' tables.  Either refuses a byte it does not know. *)
AsDue(img)     == LET due == Due(img) IN \A a \in DOMAIN due : Runs(img, a) = due[a]
CanDetach(img) == NoneTwice(img) /\ AsDue(img)
Detach_Bounds(img) ==               (* mutant: the events' sites stay hooked *)
  [Put(img, [a \in DueBounds(img) |-> Stock]) EXCEPT !.tables = [e \in Event |-> << >>]]
Detach(img)    == [Put(img, [a \in DOMAIN Due(img) |-> Stock])
                     EXCEPT !.tables = [e \in Event |-> << >>]]

CanAttach(img) ==
  /\ NoneTwice(img) /\ AllAre(img, DOMAIN Due(img), Stock)
  /\ \A e \in Event : Cardinality(SubsOf(img, e)) < TableSlots
Attach(img)    == [Put(img, Due(img)) EXCEPT !.tables = [e \in Event |-> Handlers(img, e)]]

-----------------------------------------------------------------------------
(* A mod's apply.  Its bytes are stock, where it reads them, ...           *)

Unmoved_Unchecked(img, m) == TRUE   (* mutant: a mod edits a table nothing reads *)
Unmoved(img, m) == Def[m].onTable => img.moved = Nothing

Mine(img, m) ==
  /\ IF Def[m].reads THEN AllAre(img, Def[m].guards, Stock)
     ELSE \A a \in Def[m].guards : img.content[a] = Stock
  /\ IF Def[m].writes
     THEN /\ AllAre(img, AllEdits(m), Stock)
          /\ \A as \in Def[m].edits \union {Def[m].site} : ~Straddles(img, as)
     ELSE \A a \in AllEdits(m) : img.content[a] = Stock
  /\ Unmoved(img, m)

(* ... it edits them, there or where they run, ...                         *)
Edited(img, m) ==
  LET new == [a \in AllEdits(m) |-> Edit(m)] IN
  IF Def[m].writes THEN Put(img, new)
  ELSE [img EXCEPT !.content = [a \in Addr |-> IF a \in AllEdits(m) THEN Edit(m) ELSE @[a]]]

(* ... and its chunks join the others: the displaced bytes as its hook     *)
(* replays them, and the table as the image had it (lfo4's compose).       *)
Joined_Alone(img, m, had) ==        (* mutant: the others' chunks are left out *)
  [img EXCEPT !.area = <<m>>,
              !.copy = [a \in DOMAIN @ \union Def[m].site |-> IF a \in DOMAIN @ THEN @[a] ELSE Stock],
              !.moved = IF Def[m].copies THEN [a \in Table |-> had.content[a]] ELSE @]
Joined(img, m, had) ==
  [img EXCEPT !.area = Append(@, m),
              !.copy = [a \in DOMAIN @ \union Def[m].site |-> IF a \in DOMAIN @ THEN @[a] ELSE Stock],
              !.moved = IF Def[m].copies THEN [a \in Table |-> had.content[a]] ELSE @]

CodeApart(img) ==
  \A i, j \in DOMAIN img.area :
    i # j => Def[img.area[i]].code \intersect Def[img.area[j]].code = {}

Base(img, m)   == IF Def[m].platform THEN Detach(img) ELSE img
Linked(img, m) == Joined(Edited(Base(img, m), m), m, Base(img, m))

Fits(img, m) ==
  /\ Def[m].platform => CanDetach(img)
  /\ Mine(Base(img, m), m)
  /\ Def[m].platform => LET new == Linked(img, m) IN CanAttach(new) /\ CodeApart(new)

Applied(img, m) ==
  LET new == IF Def[m].platform THEN Attach(Linked(img, m)) ELSE Edited(img, m) IN
  [new EXCEPT !.mods = @ \union {m}]

-----------------------------------------------------------------------------
(* What mods declare to write: check_compatible compares every two of a    *)
(* command's mods, and no build changes a byte that none of them declares. *)

ExtentsOf(m) ==
  {[at |-> as, shared |-> FALSE, displaced |-> FALSE] : as \in Def[m].edits}
    \union {[at |-> Def[m].site, shared |-> FALSE, displaced |-> TRUE]}
    \union (IF Def[m].platform
            THEN {[at |-> {a}, shared |-> TRUE, displaced |-> FALSE] : a \in Owned} ELSE {})

Overlap(x, y) ==
  /\ x.at \intersect y.at # {}
  /\ ~(x.shared /\ y.shared)
  /\ ~(x.displaced /\ ~y.displaced /\ y.at \subseteq x.at)
  /\ ~(y.displaced /\ ~x.displaced /\ x.at \subseteq y.at)

Conflict(m, o) ==
  \/ \E x \in ExtentsOf(m), y \in ExtentsOf(o) : Overlap(x, y)
  \/ Def[m].ram \intersect Def[o].ram # {}

Compatible(s) == \A i, j \in DOMAIN s : i < j => ~Conflict(s[i], s[j])
ByHand(s)     == \E pair \in Refused : pair \subseteq {s[i] : i \in DOMAIN s}

Declared ==
  LET said == UNION {UNION {x.at : x \in ExtentsOf(chosen[i])} : i \in DOMAIN chosen} IN
  \A a \in Addr : staged.content[a] # source.content[a] => a \in said

(* _apply: the command line's mods, the ones that copy last, one after     *)
(* another, and one image out or none.  It may read stock or what was      *)
(* written before.                                                         *)
Sorts(s, p) ==
  \A i, j \in DOMAIN s : i < j =>
    /\ Def[s[p[i]]].copies => Def[s[p[j]]].copies
    /\ Def[s[p[i]]].copies = Def[s[p[j]]].copies => p[i] < p[j]

Commands == {s \in UNION {[1..n -> Mod] : n \in 1..MaxChosen} :
               \A i, j \in DOMAIN s : i # j => s[i] # s[j]}

Choose(s, from) ==
  /\ chosen = << >>
  /\ Compatible(s) /\ ~ByHand(s)
  /\ \E p \in [DOMAIN s -> DOMAIN s] : Sorts(s, p) /\ todo' = [i \in DOMAIN s |-> s[p[i]]]
  /\ chosen' = s
  /\ source' = from /\ staged' = from
  /\ UNCHANGED disk

Apply ==
  /\ todo # << >> /\ Fits(staged, Head(todo))
  /\ staged' = Applied(staged, Head(todo)) /\ todo' = Tail(todo)
  /\ UNCHANGED <<disk, source, chosen>>

Idle == chosen' = << >> /\ todo' = << >> /\ source' = disk' /\ staged' = disk'

Refuse ==
  /\ chosen # << >>
  /\ IF todo = << >> THEN ~Declared ELSE ~Fits(staged, Head(todo))
  /\ UNCHANGED disk /\ Idle

Write ==
  /\ chosen # << >> /\ todo = << >> /\ Declared
  /\ disk' = staged /\ Idle

Init == disk = StockImage /\ source = disk /\ staged = disk /\ chosen = << >> /\ todo = << >>

Next == \/ \E s \in Commands : \E from \in {StockImage, disk} : Choose(s, from)
        \/ Apply \/ Refuse \/ Write

Spec == Init /\ [][Next]_vars

-----------------------------------------------------------------------------
(* Every image has its type, and the area replays exactly the bytes its    *)
(* mods' hooks displaced (platform.displaced).                             *)
ImageOK(img) ==
  /\ DOMAIN img = DOMAIN StockImage
  /\ img.content \in [Addr -> Byte] /\ img.area \in Seq(Mod) /\ img.mods \subseteq Mod
  /\ img.copy \in [UNION {Def[m].site : m \in Carried(img)} -> Byte]
  /\ img.moved \in [Table -> Byte] \union {Nothing}
  /\ DOMAIN img.tables = Event
TypeOK ==
  /\ ImageOK(disk) /\ ImageOK(source) /\ ImageOK(staged)
  /\ chosen \in Seq(Mod) /\ todo \in Seq(Mod)

(* Every mod of the image still does what it did when it was applied: its  *)
(* edits are where the code that runs has them, though another mod's hook  *)
(* displaced them or the table moved, its own hook is in place, and the    *)
(* bus's splits and joins since have undone none (platform.write, lfo4's   *)
(* order, cli/mods.py:382).                                                *)
InEffect(img) ==
  \A m \in img.mods :
    /\ \A a \in EditsOf(m) :
         (IF a \in DOMAIN img.moved THEN img.moved[a] ELSE Runs(img, a)) = Edit(m)
    /\ \A a \in Def[m].site : img.content[a] = Edit(m)
EditsInEffect == InEffect(disk)

(* The bus's bytes are what the image's mods together want of them,        *)
(* wherever they run: "written wherever they run" (mods/bus.py:52).        *)
BusInEffect == AsDue(disk)

(* An image that was written can be taken apart again, with the owned      *)
(* bytes stock but for the mods' own edits, and joined to the same image:  *)
(* the next mod is not refused for what the platform did (split and join). *)
SplitAgain ==
  disk.area # << >> => LET base == Detach(disk) IN
    /\ CanDetach(disk) /\ CanAttach(base)
    /\ \A a \in Owned : Runs(base, a) = Stock \/ \E m \in disk.mods : a \in EditsOf(m)
    /\ Attach(base) = disk

(* The image depends on the mods and not on the order or the commands they *)
(* came in, but for the order of the area's chunks: every byte is its mod's*)
(* or the bus's or stock, and the handlers are called by their order       *)
(* (cli/mods.py:383, mods/bus.py "Order does not matter").                 *)
Wanted(img, a) ==
  IF \E m \in img.mods : a \in EditsOf(m)
  THEN Edit(CHOOSE m \in img.mods : a \in EditsOf(m))
  ELSE IF a \in DOMAIN Due(img) THEN Due(img)[a] ELSE Stock
OrderIrrelevant ==
  /\ \A a \in Addr : Runs(disk, a) = Wanted(disk, a)
  /\ \A a \in DOMAIN disk.moved : disk.moved[a] = Wanted(disk, a)
  /\ \A e \in Event : LET h == disk.tables[e] IN
       /\ Len(h) = Cardinality(SubsOf(disk, e))
       /\ \A i, j \in DOMAIN h : i < j =>
            \E s, t \in SubsOf(disk, e) :
              s.handler = h[i] /\ t.handler = h[j] /\ Before(s, t)

(* What matrix.py:24 says of a pair refused by hand: "`dnfw mods apply`    *)
(* will not build it, whatever the bytes say".                             *)
NeverBuilt == \A pair \in Refused : ~(pair \subseteq disk.mods)
=============================================================================
