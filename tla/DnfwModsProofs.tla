--------------------------- MODULE DnfwModsProofs ---------------------------
(***************************************************************************)
(* DnfwMods, proved for any registry that keeps to RegistryAssumption, any *)
(* addresses, counts, events and number of commands.                       *)
(*                                                                         *)
(* A byte that runs is stock, an edit of one mod, or the bus's (Explained);*)
(* every step looks before it writes, so it only ever turns stock bytes    *)
(* into edits, and the bus's bytes into stock and back.  A displaced hook  *)
(* is never written again, because its bytes in the content are its mod's  *)
(* and those in its copy are stock when it is recorded; and a moved table  *)
(* stays what the content says, because whoever edits the table wants it   *)
(* unmoved.                                                                *)
(***************************************************************************)
EXTENDS DnfwMods, FiniteSetTheorems, TLAPS

-----------------------------------------------------------------------------
(* Images as records, and what the platform's writes do to them.           *)

Sites(img) == UNION {Def[m].site : m \in Carried(img)}

Shape(img) ==
  /\ img = [content |-> img.content, area |-> img.area, copy |-> img.copy,
            moved |-> img.moved, tables |-> img.tables, mods |-> img.mods]
  /\ img.content \in [Addr -> Byte] /\ img.area \in Seq(Mod)
  /\ img.copy \in [Sites(img) -> Byte]
  /\ img.moved \in [Table -> Byte] \union {Nothing}
  /\ DOMAIN img.tables = Event /\ img.mods \subseteq Mod

LEMMA DefType ==
  ASSUME NEW m \in Mod
  PROVE  /\ Def[m] \in ModType
         /\ Def[m].edits \in SUBSET SUBSET Addr /\ Def[m].site \subseteq Addr
         /\ EditsOf(m) \subseteq Addr
         /\ AllEdits(m) \subseteq Addr
         /\ Def[m].subs \subseteq Subs /\ Def[m].adds \in [Count -> Nat]
<1>1. Def[m] \in ModType
  BY ModAssumption
<1>2. /\ Def[m].edits \in SUBSET SUBSET Addr /\ Def[m].site \subseteq Addr
      /\ Def[m].subs \subseteq Subs /\ Def[m].adds \in [Count -> Nat]
  BY <1>1 DEF ModType
<1>3. EditsOf(m) \subseteq Addr
  BY <1>2 DEF EditsOf
<1> QED BY <1>1, <1>2, <1>3 DEF AllEdits, EditsOf

(* Who wrote a byte tells the kinds apart.                                 *)
LEMMA BytesApart ==
  /\ \A m \in Mod : Edit(m) # Stock /\ Edit(m) # Jump /\ \A n : Edit(m) # Total(n)
  /\ \A m, o : Edit(m) = Edit(o) => m = o
  /\ \A n : Total(n) # Stock
  /\ Jump # Stock
  /\ \A m \in Mod : Edit(m) \in Byte
  /\ Stock \in Byte /\ Jump \in Byte /\ \A n \in Nat : Total(n) \in Byte
<1>1. \A m \in Mod : m # "stock" /\ m # "count" /\ m # "event"
  BY ModAssumption
<1> QED BY <1>1 DEF Edit, Stock, Total, Jump, Byte

LEMMA CarriedType ==
  ASSUME NEW img, img.area \in Seq(Mod)
  PROVE  Carried(img) \subseteq Mod /\ Sites(img) \subseteq Addr
<1>1. Carried(img) \subseteq Mod
  BY DEF Carried
<1> QED BY <1>1, DefType DEF Sites

LEMMA ExceptOnImage ==
  ASSUME NEW img, Shape(img), NEW c, NEW d
  PROVE  [img EXCEPT !.content = c, !.copy = d] =
           [content |-> c, area |-> img.area, copy |-> d,
            moved |-> img.moved, tables |-> img.tables, mods |-> img.mods]
<1> DEFINE old == [content |-> img.content, area |-> img.area, copy |-> img.copy,
                   moved |-> img.moved, tables |-> img.tables, mods |-> img.mods]
           mid == [content |-> c, area |-> img.area, copy |-> img.copy,
                   moved |-> img.moved, tables |-> img.tables, mods |-> img.mods]
<1>1. img = old
  BY DEF Shape
<1>2. [img EXCEPT !.content = c, !.copy = d] = [[img EXCEPT !.content = c] EXCEPT !.copy = d]
  OBVIOUS
<1>3. [old EXCEPT !.content = c] = mid
  OBVIOUS
<1>4. [mid EXCEPT !.copy = d] =
        [content |-> c, area |-> img.area, copy |-> d,
         moved |-> img.moved, tables |-> img.tables, mods |-> img.mods]
  OBVIOUS
<1> HIDE DEF old, mid
<1>5. [img EXCEPT !.content = c] = mid
  BY <1>1, <1>3
<1> QED BY <1>2, <1>4, <1>5

LEMMA PutShape ==
  ASSUME NEW img, Shape(img), NEW new, DOMAIN new \subseteq Addr,
         \A a \in DOMAIN new : new[a] \in Byte
  PROVE  LET put == Put(img, new) IN
         /\ Shape(put)
         /\ put.area = img.area /\ put.moved = img.moved /\ put.tables = img.tables
         /\ put.mods = img.mods /\ DOMAIN put.copy = DOMAIN img.copy
         /\ \A a \in Addr :
              /\ put.content[a] = IF a \in DOMAIN new \ DOMAIN img.copy THEN new[a]
                                  ELSE img.content[a]
              /\ Runs(put, a) = IF a \in DOMAIN new THEN new[a] ELSE Runs(img, a)
<1> DEFINE content == [a \in Addr |-> IF a \in DOMAIN new \ DOMAIN img.copy THEN new[a]
                                      ELSE img.content[a]]
           copy == [a \in DOMAIN img.copy |-> IF a \in DOMAIN new THEN new[a] ELSE img.copy[a]]
           put == Put(img, new)
<1>1. put = [content |-> content, area |-> img.area, copy |-> copy,
             moved |-> img.moved, tables |-> img.tables, mods |-> img.mods]
  <2>1. put = [img EXCEPT !.content = content, !.copy = copy]
    BY DEF Put
  <2> HIDE DEF put, content, copy
  <2> QED BY <2>1, ExceptOnImage
<1>2. content \in [Addr -> Byte] /\ copy \in [Sites(img) -> Byte]
  BY DEF Shape
<1>3. DOMAIN copy = DOMAIN img.copy
  OBVIOUS
<1>4. \A a \in Addr : content[a] = IF a \in DOMAIN new \ DOMAIN img.copy THEN new[a]
                                   ELSE img.content[a]
  OBVIOUS
<1>5. \A a \in DOMAIN img.copy : copy[a] = IF a \in DOMAIN new THEN new[a] ELSE img.copy[a]
  OBVIOUS
<1> HIDE DEF content, copy, put
<1>6. /\ put.content = content /\ put.copy = copy /\ put.area = img.area
      /\ put.moved = img.moved /\ put.tables = img.tables /\ put.mods = img.mods
  BY <1>1
<1>7. Sites(put) = Sites(img)
  BY <1>6 DEF Sites, Carried
<1>8. Shape(put)
  BY <1>1, <1>2, <1>6, <1>7 DEF Shape
<1>9. \A a \in Addr : Runs(put, a) = IF a \in DOMAIN new THEN new[a] ELSE Runs(img, a)
  BY <1>3, <1>4, <1>5, <1>6 DEF Runs
<1> QED BY <1>3, <1>4, <1>6, <1>8, <1>9 DEF put

-----------------------------------------------------------------------------
(* What is due to the bus depends on the area alone.                       *)

LEMMA DueType ==
  ASSUME NEW img, img.area \in Seq(Mod)
  PROVE  /\ DOMAIN Due(img) \subseteq Owned /\ Owned \subseteq Addr
         /\ \A a \in DOMAIN Due(img) :
              /\ Due(img)[a] \in Byte /\ Due(img)[a] # Stock
              /\ \A m \in Mod : Due(img)[a] # Edit(m)
<1>1. Owned \subseteq Addr
  BY ModAssumption DEF Owned
<1>2. DueBounds(img) \subseteq Owned /\ DueSites(img) \subseteq Owned
  BY DEF DueBounds, DueSites, Counted, Heard, Owned
<1>3. DOMAIN Due(img) = DueBounds(img) \union DueSites(img)
  BY DEF Due
<1>4. ASSUME NEW a \in DOMAIN Due(img)
      PROVE  Due(img)[a] = Jump \/ \E n \in Nat : Due(img)[a] = Total(n)
  <2>1. CASE a \in DueSites(img)
    BY <2>1 DEF Due
  <2>2. CASE a \notin DueSites(img)
    <3> DEFINE c == CHOOSE c \in Counted(img) : a \in Bounds[c]
    <3>1. \E d \in Counted(img) : a \in Bounds[d]
      BY <1>3, <2>2 DEF DueBounds
    <3>2. c \in Counted(img)
      BY <3>1
    <3>3. Due(img)[a] = Total(Sum(img, c))
      BY <1>3, <2>2 DEF Due
    <3> HIDE DEF c
    <3>4. c \in Count /\ Adders(img, c) # {}
      BY <3>2 DEF Counted
    <3>5. PICK i \in Adders(img, c) : i = CHOOSE j \in Adders(img, c) : TRUE
      BY <3>4
    <3>6. i \in DOMAIN img.area
      BY <3>5 DEF Adders
    <3>7. img.area[i] \in Mod
      BY <3>6
    <3>8. Sum(img, c) = Def[img.area[i]].adds[c]
      BY <3>5 DEF Sum
    <3>9. Sum(img, c) \in Nat
      BY <3>4, <3>7, <3>8, DefType
    <3> QED BY <3>3, <3>9
  <2> QED BY <2>1, <2>2
<1> QED BY <1>1, <1>2, <1>3, <1>4, BytesApart

LEMMA DueOfArea ==
  ASSUME NEW img, NEW other, other.area = img.area
  PROVE  /\ Due(other) = Due(img) /\ NoneTwice(other) = NoneTwice(img)
         /\ \A e : SubsOf(other, e) = SubsOf(img, e) /\ Handlers(other, e) = Handlers(img, e)
         /\ Carried(other) = Carried(img) /\ Sites(other) = Sites(img)
<1>1. Carried(other) = Carried(img) /\ Sites(other) = Sites(img)
  BY DEF Carried, Sites
<1>2. \A e : SubsOf(other, e) = SubsOf(img, e)
  BY <1>1 DEF SubsOf
<1>3. \A e : Handlers(other, e) = Handlers(img, e)
  BY <1>2 DEF Handlers
<1>4. \A c : Adders(other, c) = Adders(img, c) /\ Sum(other, c) = Sum(img, c)
  BY DEF Adders, Sum
<1>5. NoneTwice(other) = NoneTwice(img)
  BY <1>4 DEF NoneTwice
<1>6. Counted(other) = Counted(img) /\ Heard(other) = Heard(img)
  BY <1>2, <1>4 DEF Counted, Heard
<1>7. DueBounds(other) = DueBounds(img) /\ DueSites(other) = DueSites(img)
  BY <1>6 DEF DueBounds, DueSites
<1>8. Due(other) = Due(img)
  BY <1>4, <1>6, <1>7 DEF Due
<1> QED BY <1>1, <1>2, <1>3, <1>5, <1>8

-----------------------------------------------------------------------------
(* The handlers of an event in their order: Ordered's CHOOSE finds one.    *)

LEMMA OrderedNone == Ordered({}) = << >>
<1>1. Cardinality({}) = 0 /\ 1..0 = {}
  BY FS_EmptySet
<1> DEFINE q == CHOOSE p \in [1..Cardinality({}) -> {}] :
                  \A i, j \in DOMAIN p : i < j => Before(p[i], p[j])
<1>2. q \in [1..Cardinality({}) -> {}]
  <2>1. [i \in 1..Cardinality({}) |-> i] \in [1..Cardinality({}) -> {}]
    BY <1>1
  <2>2. \A p \in [1..Cardinality({}) -> {}] : DOMAIN p = {}
    BY <1>1
  <2> QED BY <2>1, <2>2
<1>3. DOMAIN q = {}
  BY <1>1, <1>2
<1> HIDE DEF q
<1>4. [i \in DOMAIN q |-> q[i].handler] = << >>
  BY <1>3
<1> QED BY <1>4 DEF Ordered, q

(* A subscription's rank among those of its event, and the one of a rank.  *)
Earlier(S, s) == {t \in S : Before(t, s)}
Rank(S, s)    == Cardinality(Earlier(S, s)) + 1

LEMMA BeforeIsTotal ==
  ASSUME NEW s \in Subs, NEW t \in Subs, s.event = t.event
  PROVE  /\ ~Before(s, s)
         /\ s # t => Before(s, t) \/ Before(t, s)
         /\ \A u \in Subs : Before(u, s) /\ Before(s, t) => Before(u, t)
<1>1. /\ s.order \in Nat /\ s.handler \in Nat /\ t.order \in Nat /\ t.handler \in Nat
      /\ \A u \in Subs : u.order \in Nat /\ u.handler \in Nat
  BY DEF Subs
<1>2. s # t => s.order # t.order \/ s.handler # t.handler
  BY DEF Subs
<1> QED BY <1>1, <1>2 DEF Before

LEMMA RankGrows ==
  ASSUME NEW e, NEW S \in SUBSET Subs, IsFiniteSet(S), \A s \in S : s.event = e,
         NEW s \in S
  PROVE  /\ Rank(S, s) \in 1..Cardinality(S)
         /\ \A t \in S : Before(s, t) => Rank(S, s) < Rank(S, t)
<1>1. Cardinality(S) \in Nat
  BY FS_CardinalityType
<1>2. ASSUME NEW t \in S
      PROVE  /\ IsFiniteSet(Earlier(S, t)) /\ Cardinality(Earlier(S, t)) \in Nat
             /\ t \notin Earlier(S, t) /\ Earlier(S, t) \in SUBSET S
             /\ Cardinality(Earlier(S, t)) <= Cardinality(S)
             /\ Cardinality(S) = Cardinality(Earlier(S, t)) => S = Earlier(S, t)
  <2>1. Earlier(S, t) \in SUBSET S /\ t \notin Earlier(S, t)
    BY BeforeIsTotal DEF Earlier
  <2>2. /\ IsFiniteSet(Earlier(S, t))
        /\ Cardinality(Earlier(S, t)) <= Cardinality(S)
        /\ Cardinality(S) = Cardinality(Earlier(S, t)) => S = Earlier(S, t)
    BY <2>1, FS_Subset
  <2> QED BY <2>1, <2>2, FS_CardinalityType
<1>3. Rank(S, s) \in 1..Cardinality(S)
  <2>1. Cardinality(Earlier(S, s)) # Cardinality(S)
    BY <1>2
  <2> QED BY <1>1, <1>2, <2>1 DEF Rank
<1>4. ASSUME NEW t \in S, Before(s, t) PROVE Rank(S, s) < Rank(S, t)
  <2>1. Earlier(S, s) \in SUBSET Earlier(S, t)
    BY <1>4, BeforeIsTotal DEF Earlier
  <2>2. s \in Earlier(S, t) /\ s \notin Earlier(S, s)
    BY <1>2, <1>4 DEF Earlier
  <2>3. /\ Cardinality(Earlier(S, s)) <= Cardinality(Earlier(S, t))
        /\ Cardinality(Earlier(S, t)) = Cardinality(Earlier(S, s)) =>
             Earlier(S, t) = Earlier(S, s)
    BY <1>2, <2>1, FS_Subset
  <2> QED BY <1>2, <2>2, <2>3 DEF Rank
<1> QED BY <1>3, <1>4

LEMMA OrderedSorts ==
  ASSUME NEW e, NEW S \in SUBSET Subs, IsFiniteSet(S), \A s \in S : s.event = e
  PROVE  LET h == Ordered(S) IN
         /\ Len(h) = Cardinality(S)
         /\ \A i, j \in DOMAIN h : i < j =>
              \E s, t \in S : s.handler = h[i] /\ t.handler = h[j] /\ Before(s, t)
<1> DEFINE n == Cardinality(S)
           Sorted(p) == \A i, j \in DOMAIN p : i < j => Before(p[i], p[j])
           rank == [s \in S |-> Rank(S, s)]
           inOrder == [i \in 1..n |-> CHOOSE s \in S : Rank(S, s) = i]
           q == CHOOSE p \in [1..n -> S] : Sorted(p)
<1>1. n \in Nat
  BY FS_CardinalityType
<1>2. \A s, t \in S : Rank(S, s) = Rank(S, t) => s = t
  <2> SUFFICES ASSUME NEW s \in S, NEW t \in S, s # t PROVE Rank(S, s) # Rank(S, t)
    OBVIOUS
  <2>1. Before(s, t) \/ Before(t, s)
    BY BeforeIsTotal
  <2>2. Rank(S, s) \in Nat /\ Rank(S, t) \in Nat
    BY <1>1, RankGrows
  <2>3. /\ Before(s, t) => Rank(S, s) < Rank(S, t)
        /\ Before(t, s) => Rank(S, t) < Rank(S, s)
    BY RankGrows
  <2> QED BY <2>1, <2>2, <2>3
<1>3. rank \in Injection(S, 1..n)
  <2>1. \A s \in S : Rank(S, s) \in 1..n
    BY RankGrows
  <2>2. rank \in [S -> 1..n]
    BY <2>1
  <2> QED BY <1>2, <2>2 DEF Injection, IsInjective
<1>4. IsFiniteSet(1..n) /\ Cardinality(1..n) = n
  BY <1>1, FS_Interval
<1>5. rank \in Surjection(S, 1..n)
  <2> HIDE DEF rank
  <2> QED BY <1>3, <1>4, FS_Injection
<1>6. \A i \in 1..n : \E s \in S : Rank(S, s) = i
  BY <1>5 DEF Surjection
<1>7. inOrder \in [1..n -> S] /\ \A i \in 1..n : Rank(S, inOrder[i]) = i
  BY <1>6
<1>8. Sorted(inOrder)
  <2> HIDE DEF inOrder, n
  <2> SUFFICES ASSUME NEW i \in 1..n, NEW j \in 1..n, i < j
               PROVE  Before(inOrder[i], inOrder[j])
    BY <1>7
  <2>1. inOrder[i] \in S /\ inOrder[j] \in S
    BY <1>7
  <2>2. Rank(S, inOrder[i]) = i /\ Rank(S, inOrder[j]) = j /\ i # j /\ ~(j < i)
    BY <1>1, <1>7
  <2>3. inOrder[i] # inOrder[j] /\ ~Before(inOrder[j], inOrder[i])
    BY <2>1, <2>2, RankGrows
  <2> QED BY <2>1, <2>3, BeforeIsTotal
<1> HIDE DEF Sorted, inOrder, n
<1>9. q \in [1..n -> S] /\ Sorted(q)
  BY <1>7, <1>8
<1> HIDE DEF q
<1>10. Ordered(S) = [i \in DOMAIN q |-> q[i].handler]
  BY DEF Ordered, q, n, Sorted
<1>11. Ordered(S) = [i \in 1..n |-> q[i].handler]
  BY <1>9, <1>10
<1>12. Len(Ordered(S)) = n
  BY <1>1, <1>11
<1>13. \A i, j \in 1..n : i < j =>
         \E s, t \in S : s.handler = Ordered(S)[i] /\ t.handler = Ordered(S)[j] /\ Before(s, t)
  <2> SUFFICES ASSUME NEW i \in 1..n, NEW j \in 1..n, i < j
               PROVE  \E s, t \in S : /\ s.handler = Ordered(S)[i] /\ t.handler = Ordered(S)[j]
                                      /\ Before(s, t)
    OBVIOUS
  <2>1. q[i] \in S /\ q[j] \in S /\ Before(q[i], q[j])
    BY <1>9 DEF Sorted
  <2>2. Ordered(S)[i] = q[i].handler /\ Ordered(S)[j] = q[j].handler
    BY <1>11
  <2> QED BY <2>1, <2>2
<1> QED BY <1>11, <1>12, <1>13 DEF n

(* An image's subscriptions are finitely many.                             *)
LEMMA SubsFinite ==
  ASSUME NEW img, img.area \in Seq(Mod), NEW e
  PROVE  /\ IsFiniteSet(SubsOf(img, e)) /\ SubsOf(img, e) \in SUBSET Subs
         /\ \A s \in SubsOf(img, e) : s.event = e
<1> DEFINE all == {Def[m].subs : m \in Carried(img)}
           from == [m \in Carried(img) |-> Def[m].subs]
<1>1. Carried(img) \subseteq Mod
  BY CarriedType
<1>2. IsFiniteSet(Carried(img))
  <2>1. DOMAIN img.area = 1..Len(img.area) /\ Len(img.area) \in Nat
    OBVIOUS
  <2>2. img.area \in [1..Len(img.area) -> Carried(img)]
    BY <2>1 DEF Carried
  <2>3. img.area \in Surjection(1..Len(img.area), Carried(img))
    BY <2>1, <2>2 DEF Surjection, Carried
  <2>4. IsFiniteSet(1..Len(img.area))
    BY <2>1, FS_Interval
  <2> QED BY <2>3, <2>4, FS_Surjection
<1>3. IsFiniteSet(all)
  <2>1. from \in Surjection(Carried(img), all)
    BY DEF Surjection
  <2> HIDE DEF from, all
  <2> QED BY <1>2, <2>1, FS_Surjection
<1>4. \A T \in all : IsFiniteSet(T) /\ T \subseteq Subs
  BY <1>1, ModAssumption, DefType
<1>5. IsFiniteSet(UNION all) /\ UNION all \subseteq Subs
  <2> HIDE DEF all
  <2> QED BY <1>3, <1>4, FS_UNION
<1>6. SubsOf(img, e) = {s \in UNION all : s.event = e}
  BY DEF SubsOf
<1>7. SubsOf(img, e) \in SUBSET (UNION all)
  BY <1>6
<1> HIDE DEF all
<1> QED BY <1>5, <1>6, <1>7, FS_Subset

-----------------------------------------------------------------------------
(* The invariant of an image with the mods ms applied.                     *)

Held(img, ms) ==
  /\ Carried(img) \subseteq ms
  /\ \A m \in ms : Def[m].site # {} => m \in Carried(img)
  /\ \A m \in ms : \A a \in EditsOf(m) : Runs(img, a) = Edit(m)
  /\ \A m \in ms : \A a \in Def[m].site : img.content[a] = Edit(m)
  /\ img.moved # Nothing => \A a \in Table : img.moved[a] = img.content[a]

Explained(img, ms, a) ==
  Runs(img, a) = Stock \/ \E m \in ms : a \in EditsOf(m) /\ Runs(img, a) = Edit(m)

(* Between a detach and an attach the bus's bytes are stock, ...           *)
Bare(img, ms) == Shape(img) /\ Held(img, ms) /\ \A a \in Addr : Explained(img, ms, a)

(* ... and in an image that a mod left they are what is due.               *)
Linkable(img) ==
  NoneTwice(img) /\ \A e \in Event : Cardinality(SubsOf(img, e)) < TableSlots

Joint(img, ms) ==
  /\ Shape(img) /\ Held(img, ms) /\ AsDue(img)
  /\ \A a \in Addr : a \in DOMAIN Due(img) \/ Explained(img, ms, a)
  /\ img.tables = [e \in Event |-> Handlers(img, e)]
  /\ img.area # << >> => Linkable(img)

(* The displaced bytes' place in the content belongs to their mods.        *)
LEMMA SitesTaken ==
  ASSUME NEW img, Shape(img), NEW ms \in SUBSET Mod, Held(img, ms)
  PROVE  /\ DOMAIN img.copy = Sites(img)
         /\ \A a \in DOMAIN img.copy : \E m \in ms : a \in Def[m].site /\ img.content[a] = Edit(m)
         /\ \A m \in ms : Def[m].site \subseteq DOMAIN img.copy
BY DEF Shape, Held, Sites

LEMMA TablesShape ==
  ASSUME NEW img, Shape(img), NEW t, DOMAIN t = Event
  PROVE  LET new == [img EXCEPT !.tables = t] IN
         /\ Shape(new) /\ new.content = img.content /\ new.area = img.area /\ new.copy = img.copy
         /\ new.moved = img.moved /\ new.mods = img.mods /\ new.tables = t
<1> DEFINE new == [img EXCEPT !.tables = t]
<1> DEFINE old == [content |-> img.content, area |-> img.area, copy |-> img.copy,
                   moved |-> img.moved, tables |-> img.tables, mods |-> img.mods]
<1>1. new = [content |-> img.content, area |-> img.area, copy |-> img.copy,
             moved |-> img.moved, tables |-> t, mods |-> img.mods]
  <2>1. img = old
    BY DEF Shape
  <2>2. [old EXCEPT !.tables = t] =
          [content |-> img.content, area |-> img.area, copy |-> img.copy,
           moved |-> img.moved, tables |-> t, mods |-> img.mods]
    OBVIOUS
  <2> HIDE DEF old
  <2> QED BY <2>1, <2>2
<1> HIDE DEF new
<1>2. /\ new.content = img.content /\ new.area = img.area /\ new.copy = img.copy
      /\ new.moved = img.moved /\ new.mods = img.mods /\ new.tables = t
  BY <1>1
<1>3. Sites(new) = Sites(img)
  BY <1>2 DEF Sites, Carried
<1>4. Shape(new)
  BY <1>1, <1>2, <1>3 DEF Shape
<1> QED BY <1>2, <1>4 DEF new

LEMMA ModsShape ==
  ASSUME NEW img, Shape(img), NEW ms \in SUBSET Mod
  PROVE  LET new == [img EXCEPT !.mods = ms] IN
         /\ Shape(new) /\ new.content = img.content /\ new.area = img.area /\ new.copy = img.copy
         /\ new.moved = img.moved /\ new.tables = img.tables /\ new.mods = ms
<1> DEFINE new == [img EXCEPT !.mods = ms]
<1> DEFINE old == [content |-> img.content, area |-> img.area, copy |-> img.copy,
                   moved |-> img.moved, tables |-> img.tables, mods |-> img.mods]
<1>1. new = [content |-> img.content, area |-> img.area, copy |-> img.copy,
             moved |-> img.moved, tables |-> img.tables, mods |-> ms]
  <2>1. img = old
    BY DEF Shape
  <2>2. [old EXCEPT !.mods = ms] =
          [content |-> img.content, area |-> img.area, copy |-> img.copy,
           moved |-> img.moved, tables |-> img.tables, mods |-> ms]
    OBVIOUS
  <2> HIDE DEF old
  <2> QED BY <2>1, <2>2
<1> HIDE DEF new
<1>2. /\ new.content = img.content /\ new.area = img.area /\ new.copy = img.copy
      /\ new.moved = img.moved /\ new.mods = ms /\ new.tables = img.tables
  BY <1>1
<1>3. Sites(new) = Sites(img)
  BY <1>2 DEF Sites, Carried
<1>4. Shape(new)
  BY <1>1, <1>2, <1>3 DEF Shape
<1> QED BY <1>2, <1>4 DEF new

(* The bus writes no byte that runs a mod's edit: what is held stays held. *)
LEMMA PutHolds ==
  ASSUME NEW img, Shape(img), NEW ms \in SUBSET Mod, Held(img, ms),
         NEW new, DOMAIN new \subseteq Owned, \A a \in DOMAIN new : new[a] \in Byte,
         \A a \in DOMAIN new, m \in ms : Runs(img, a) # Edit(m)
  PROVE  Held(Put(img, new), ms)
<1> DEFINE put == Put(img, new)
<1>1. Owned \subseteq Addr
  BY ModAssumption DEF Owned
<1>2. /\ put.area = img.area /\ put.moved = img.moved
      /\ \A a \in Addr :
           /\ put.content[a] = IF a \in DOMAIN new \ DOMAIN img.copy THEN new[a]
                               ELSE img.content[a]
           /\ Runs(put, a) = IF a \in DOMAIN new THEN new[a] ELSE Runs(img, a)
  BY <1>1, PutShape
<1> HIDE DEF put
<1>3. Carried(put) = Carried(img)
  BY <1>2 DEF Carried
<1>4. \A m \in ms : \A a \in EditsOf(m) : Runs(put, a) = Edit(m)
  <2> SUFFICES ASSUME NEW m \in ms, NEW a \in EditsOf(m) PROVE Runs(put, a) = Edit(m)
    OBVIOUS
  <2>1. Runs(img, a) = Edit(m) /\ a \in Addr
    BY DefType DEF Held
  <2>2. a \notin DOMAIN new
    BY <2>1
  <2> QED BY <1>2, <2>1, <2>2
<1>5. \A m \in ms : \A a \in Def[m].site : put.content[a] = Edit(m)
  <2> SUFFICES ASSUME NEW m \in ms, NEW a \in Def[m].site PROVE put.content[a] = Edit(m)
    OBVIOUS
  <2>1. a \in DOMAIN img.copy /\ a \in Addr
    BY SitesTaken, DefType
  <2> QED BY <1>2, <2>1 DEF Held
<1>6. put.moved # Nothing => \A a \in Table : put.moved[a] = put.content[a]
  <2>1. \A a \in Table : a \in Addr /\ a \notin DOMAIN new
    BY ModAssumption
  <2> QED BY <1>2, <2>1 DEF Held
<1> QED BY <1>3, <1>4, <1>5, <1>6 DEF Held, put

(* Held, and what runs, are about the content, the copy, the area and the  *)
(* moved table alone.                                                      *)
LEMMA SameImage ==
  ASSUME NEW img, NEW new, NEW ms,
         new.content = img.content, new.area = img.area, new.copy = img.copy, new.moved = img.moved
  PROVE  /\ Held(img, ms) => Held(new, ms)
         /\ \A a : Runs(new, a) = Runs(img, a) /\ Explained(new, ms, a) = Explained(img, ms, a)
<1>1. \A a : Runs(new, a) = Runs(img, a)
  BY DEF Runs
<1>2. Carried(new) = Carried(img)
  BY DEF Carried
<1> QED BY <1>1, <1>2 DEF Held, Explained

(* split, with the bus's detach: the due bytes are stock, all else stays.  *)
LEMMA DetachBares ==
  ASSUME NEW img, NEW ms \in SUBSET Mod, Joint(img, ms)
  PROVE  LET base == Detach(img) IN
         /\ Bare(base, ms)
         /\ base.area = img.area /\ base.moved = img.moved /\ base.mods = img.mods
         /\ DOMAIN base.copy = DOMAIN img.copy
         /\ \A a \in Addr :
              /\ base.content[a] = IF a \in DOMAIN Due(img) \ DOMAIN img.copy THEN Stock
                                  ELSE img.content[a]
              /\ Runs(base, a) = IF a \in DOMAIN Due(img) THEN Stock ELSE Runs(img, a)
<1> DEFINE out == [a \in DOMAIN Due(img) |-> Stock]
           put == Put(img, out)
           base == Detach(img)
           none == [e \in Event |-> << >>]
<1>1. /\ Shape(img) /\ Held(img, ms) /\ img.area \in Seq(Mod)
      /\ \A a \in DOMAIN Due(img) : Runs(img, a) = Due(img)[a]
      /\ \A a \in Addr : a \in DOMAIN Due(img) \/ Explained(img, ms, a)
  BY DEF Joint, Shape, AsDue
<1>2. /\ DOMAIN out = DOMAIN Due(img) /\ DOMAIN out \subseteq Owned /\ DOMAIN out \subseteq Addr
      /\ \A a \in DOMAIN out : out[a] = Stock /\ out[a] \in Byte
      /\ \A a \in DOMAIN out, m \in ms : Runs(img, a) # Edit(m)
  BY <1>1, DueType, BytesApart
<1> HIDE DEF out
<1>3. /\ Shape(put) /\ Held(put, ms) /\ put.area = img.area /\ put.moved = img.moved
      /\ put.mods = img.mods /\ DOMAIN put.copy = DOMAIN img.copy
      /\ \A a \in Addr :
           /\ put.content[a] = IF a \in DOMAIN out \ DOMAIN img.copy THEN out[a] ELSE img.content[a]
           /\ Runs(put, a) = IF a \in DOMAIN out THEN out[a] ELSE Runs(img, a)
  BY <1>1, <1>2, PutShape, PutHolds
<1> HIDE DEF put
<1>4. base = [put EXCEPT !.tables = none]
  BY DEF Detach, put, out
<1>5. DOMAIN none = Event
  OBVIOUS
<1> HIDE DEF none, base
<1>6. /\ Shape(base) /\ base.content = put.content /\ base.area = put.area
      /\ base.copy = put.copy /\ base.moved = put.moved /\ base.mods = put.mods
  BY <1>3, <1>4, <1>5, TablesShape
<1>7. Held(base, ms) /\ \A a \in Addr : Runs(base, a) = Runs(put, a)
  BY <1>3, <1>6, SameImage
<1>8. \A a \in Addr :
        /\ base.content[a] = IF a \in DOMAIN Due(img) \ DOMAIN img.copy THEN Stock
                            ELSE img.content[a]
        /\ Runs(base, a) = IF a \in DOMAIN Due(img) THEN Stock ELSE Runs(img, a)
  BY <1>2, <1>3, <1>6, <1>7
<1>9. \A a \in Addr : Explained(base, ms, a)
  BY <1>1, <1>8 DEF Explained
<1> QED BY <1>3, <1>6, <1>7, <1>8, <1>9 DEF Bare, base

-----------------------------------------------------------------------------
(* A mod's edits: it found its bytes stock, so they were nobody's.         *)

(* The bytes m is about to edit, where it edits them.                      *)
LEMMA MineIsStock ==
  ASSUME NEW img, Shape(img), NEW ms \in SUBSET Mod, Held(img, ms),
         NEW m \in Mod, Mine(img, m)
  PROVE  /\ \A a \in AllEdits(m) : Runs(img, a) = Stock
         /\ ~Def[m].writes => \A a \in AllEdits(m) : a \notin DOMAIN img.copy
         /\ m \in ms => AllEdits(m) = {}
         /\ \A a \in Def[m].site : a \notin DOMAIN img.copy
         /\ img.moved # Nothing => AllEdits(m) \intersect Table = {}
<1>1. \A a \in DOMAIN img.copy : \E o \in ms : a \in Def[o].site /\ img.content[a] = Edit(o)
  BY SitesTaken
<1>2. ASSUME ~Def[m].writes, NEW a \in AllEdits(m)
      PROVE  a \notin DOMAIN img.copy /\ Runs(img, a) = Stock
  <2>1. img.content[a] = Stock
    BY <1>2 DEF Mine
  <2>2. a \notin DOMAIN img.copy
    BY <1>1, <2>1, BytesApart
  <2> QED BY <2>1, <2>2 DEF Runs
<1>3. \A a \in AllEdits(m) : Runs(img, a) = Stock
  BY <1>2 DEF Mine, AllAre
<1>4. m \in ms => AllEdits(m) = {}
  <2> SUFFICES ASSUME m \in ms PROVE AllEdits(m) = {}
    OBVIOUS
  <2>1. EditsOf(m) = {}
    BY <1>3, BytesApart DEF Held, AllEdits
  <2>2. Def[m].site = {}
    BY <2>1, RegistryAssumption
  <2> QED BY <2>1, <2>2 DEF AllEdits
<1>5. ASSUME NEW a \in Def[m].site PROVE a \notin DOMAIN img.copy
  <2>1. ASSUME NEW o \in ms, a \in Def[o].site PROVE FALSE
    <3>1. o # m
      BY <1>4, <2>1 DEF AllEdits
    <3> QED BY <2>1, <3>1, RegistryAssumption
  <2> QED BY <1>1, <2>1
<1>6. ASSUME img.moved # Nothing PROVE AllEdits(m) \intersect Table = {}
  <2>1. ~Def[m].onTable
    BY <1>6 DEF Mine, Unmoved
  <2> QED BY <2>1, RegistryAssumption
<1> QED BY <1>2, <1>3, <1>4, <1>5, <1>6

LEMMA EditedKeeps ==
  ASSUME NEW img, Shape(img), NEW ms \in SUBSET Mod, Held(img, ms),
         NEW m \in Mod, Mine(img, m)
  PROVE  LET new == Edited(img, m) IN
         /\ Shape(new) /\ new.area = img.area /\ new.moved = img.moved
         /\ new.tables = img.tables /\ new.mods = img.mods /\ DOMAIN new.copy = DOMAIN img.copy
         /\ \A a \in Addr : a \notin AllEdits(m) =>
              new.content[a] = img.content[a] /\ Runs(new, a) = Runs(img, a)
         /\ \A a \in DOMAIN img.copy : new.content[a] = img.content[a]
         /\ \A a \in AllEdits(m) : Runs(new, a) = Edit(m)
         /\ \A a \in Def[m].site : new.content[a] = Edit(m)
<1> DEFINE new  == Edited(img, m)
           mine == [a \in AllEdits(m) |-> Edit(m)]
<1>1. /\ DOMAIN mine = AllEdits(m) /\ AllEdits(m) \subseteq Addr /\ Def[m].site \subseteq AllEdits(m)
      /\ \A a \in AllEdits(m) : mine[a] = Edit(m) /\ mine[a] \in Byte
  BY DefType, BytesApart DEF AllEdits
<1>2. /\ \A a \in Def[m].site : a \notin DOMAIN img.copy
      /\ ~Def[m].writes => \A a \in AllEdits(m) : a \notin DOMAIN img.copy
  BY MineIsStock
<1>3. DOMAIN img.copy \subseteq Addr
  BY CarriedType DEF Shape
<1> HIDE DEF mine
<1>4. CASE Def[m].writes
  <2>1. new = Put(img, mine)
    BY <1>4 DEF Edited, mine
  <2> HIDE DEF new
  <2>2. /\ Shape(new) /\ new.area = img.area /\ new.moved = img.moved
        /\ new.tables = img.tables /\ new.mods = img.mods /\ DOMAIN new.copy = DOMAIN img.copy
        /\ \A a \in Addr :
             /\ new.content[a] = IF a \in DOMAIN mine \ DOMAIN img.copy THEN mine[a]
                                 ELSE img.content[a]
             /\ Runs(new, a) = IF a \in DOMAIN mine THEN mine[a] ELSE Runs(img, a)
    BY <1>1, <2>1, PutShape
  <2> QED BY <1>1, <1>2, <1>3, <2>2 DEF new
<1>5. CASE ~Def[m].writes
  <2> DEFINE content == [a \in Addr |-> IF a \in AllEdits(m) THEN Edit(m) ELSE img.content[a]]
             old == [content |-> img.content, area |-> img.area, copy |-> img.copy,
                     moved |-> img.moved, tables |-> img.tables, mods |-> img.mods]
  <2>1. new = [img EXCEPT !.content = content]
    BY <1>5 DEF Edited
  <2>2. img = old
    BY DEF Shape
  <2>3. content \in [Addr -> Byte]
    BY BytesApart DEF Shape
  <2>4. \A a \in Addr : content[a] = IF a \in AllEdits(m) THEN Edit(m) ELSE img.content[a]
    OBVIOUS
  <2> HIDE DEF content, new
  <2>5. [old EXCEPT !.content = content] =
          [content |-> content, area |-> img.area, copy |-> img.copy,
           moved |-> img.moved, tables |-> img.tables, mods |-> img.mods]
    OBVIOUS
  <2> HIDE DEF old
  <2>6. new = [content |-> content, area |-> img.area, copy |-> img.copy,
               moved |-> img.moved, tables |-> img.tables, mods |-> img.mods]
    BY <2>1, <2>2, <2>5
  <2>7. /\ new.content = content /\ new.area = img.area /\ new.copy = img.copy
        /\ new.moved = img.moved /\ new.tables = img.tables /\ new.mods = img.mods
    BY <2>6
  <2>8. Sites(new) = Sites(img)
    BY <2>7 DEF Sites, Carried
  <2>9. Shape(new)
    BY <2>3, <2>6, <2>7, <2>8 DEF Shape
  <2>10. \A a \in Addr : Runs(new, a) = IF a \in AllEdits(m) THEN Edit(m) ELSE Runs(img, a)
    BY <1>2, <1>5, <2>4, <2>7 DEF Runs
  <2> QED BY <1>1, <1>2, <1>3, <1>5, <2>4, <2>7, <2>9, <2>10 DEF new
<1> QED BY <1>4, <1>5

(* What the others' mods hold is held over m's edits.                      *)
LEMMA EditedHolds ==
  ASSUME NEW img, Shape(img), NEW ms \in SUBSET Mod, Held(img, ms),
         NEW m \in Mod, Mine(img, m)
  PROVE  LET new == Edited(img, m) IN
         /\ \A o \in ms : \A a \in EditsOf(o) : a \notin AllEdits(m) /\ Runs(new, a) = Edit(o)
         /\ \A o \in ms : \A a \in Def[o].site : new.content[a] = Edit(o)
         /\ img.moved # Nothing => \A a \in Table : img.moved[a] = new.content[a]
<1> DEFINE new == Edited(img, m)
<1>1. /\ \A a \in Addr : a \notin AllEdits(m) =>
           new.content[a] = img.content[a] /\ Runs(new, a) = Runs(img, a)
      /\ \A a \in DOMAIN img.copy : new.content[a] = img.content[a]
  BY EditedKeeps
<1> HIDE DEF new
<1>2. ASSUME NEW o \in ms, NEW a \in EditsOf(o)
      PROVE  a \notin AllEdits(m) /\ Runs(new, a) = Edit(o)
  <2>1. Runs(img, a) = Edit(o) /\ a \in Addr
    BY DefType DEF Held
  <2>2. a \notin AllEdits(m)
    BY <2>1, MineIsStock, BytesApart
  <2> QED BY <1>1, <2>1, <2>2
<1>3. ASSUME NEW o \in ms, NEW a \in Def[o].site PROVE new.content[a] = Edit(o)
  BY <1>1, SitesTaken DEF Held
<1>4. ASSUME img.moved # Nothing, NEW a \in Table PROVE img.moved[a] = new.content[a]
  <2>1. a \in Addr
    BY ModAssumption
  <2>2. a \notin AllEdits(m)
    BY <1>4, MineIsStock
  <2> QED BY <1>1, <1>4, <2>1, <2>2 DEF Held
<1> QED BY <1>2, <1>3, <1>4 DEF new

(* compose: the mod's chunks join, its hook's bytes are replayed as they   *)
(* were, and a copier takes the table with it.                             *)
LEMMA JoinedShape ==
  ASSUME NEW img, Shape(img), NEW m \in Mod, NEW had, had.content \in [Addr -> Byte]
  PROVE  LET new == Joined(img, m, had) IN
         /\ Shape(new) /\ new.content = img.content /\ new.area = Append(img.area, m)
         /\ new.mods = img.mods /\ new.tables = img.tables
         /\ new.moved = IF Def[m].copies THEN [a \in Table |-> had.content[a]] ELSE img.moved
         /\ Carried(new) = Carried(img) \union {m}
         /\ DOMAIN new.copy = DOMAIN img.copy \union Def[m].site
         /\ \A a \in DOMAIN new.copy : new.copy[a] = IF a \in DOMAIN img.copy THEN img.copy[a]
                                                     ELSE Stock
<1> DEFINE new   == Joined(img, m, had)
           area  == Append(img.area, m)
           copy  == [a \in DOMAIN img.copy \union Def[m].site |->
                       IF a \in DOMAIN img.copy THEN img.copy[a] ELSE Stock]
           moved == IF Def[m].copies THEN [a \in Table |-> had.content[a]] ELSE img.moved
           old   == [content |-> img.content, area |-> img.area, copy |-> img.copy,
                     moved |-> img.moved, tables |-> img.tables, mods |-> img.mods]
           one   == [content |-> img.content, area |-> area, copy |-> img.copy,
                     moved |-> img.moved, tables |-> img.tables, mods |-> img.mods]
           two   == [content |-> img.content, area |-> area, copy |-> copy,
                     moved |-> img.moved, tables |-> img.tables, mods |-> img.mods]
           three == [content |-> img.content, area |-> area, copy |-> copy,
                     moved |-> moved, tables |-> img.tables, mods |-> img.mods]
<1>1. new = [img EXCEPT !.area = area, !.copy = copy, !.moved = moved]
  BY DEF Joined
<1>2. /\ area \in Seq(Mod) /\ Len(area) = Len(img.area) + 1 /\ area[Len(area)] = m
      /\ \A i \in 1..Len(img.area) : area[i] = img.area[i]
  BY DEF Shape
<1>3. /\ DOMAIN copy = DOMAIN img.copy \union Def[m].site
      /\ \A a \in DOMAIN copy : copy[a] = IF a \in DOMAIN img.copy THEN img.copy[a] ELSE Stock
  OBVIOUS
<1>4. moved \in [Table -> Byte] \union {Nothing}
  BY ModAssumption DEF Shape
<1>5. copy = [a \in DOMAIN copy |-> copy[a]]
  OBVIOUS
<1>6. Shape(img) /\ img = old
  BY DEF Shape
<1> HIDE DEF new, area, copy, moved
<1>7. new = three
  <2>1. [img EXCEPT !.area = area, !.copy = copy, !.moved = moved]
          = [[[img EXCEPT !.area = area] EXCEPT !.copy = copy] EXCEPT !.moved = moved]
    OBVIOUS
  <2>2. [old EXCEPT !.area = area] = one
    OBVIOUS
  <2>3. [one EXCEPT !.copy = copy] = two
    OBVIOUS
  <2>4. [two EXCEPT !.moved = moved] = three
    OBVIOUS
  <2> HIDE DEF old, one, two, three
  <2>5. [img EXCEPT !.area = area] = one
    BY <1>6, <2>2
  <2> QED BY <1>1, <2>1, <2>3, <2>4, <2>5
<1>8. /\ new.content = img.content /\ new.area = area /\ new.copy = copy
      /\ new.moved = moved /\ new.tables = img.tables /\ new.mods = img.mods
  BY <1>7
<1>9. Carried(new) = Carried(img) \union {m}
  <2>1. img.area \in Seq(Mod)
    BY <1>6 DEF Shape
  <2>2. DOMAIN img.area = 1..Len(img.area) /\ DOMAIN area = DOMAIN img.area \union {Len(area)}
    <3>1. /\ DOMAIN img.area = 1..Len(img.area) /\ Len(img.area) \in Nat
          /\ DOMAIN area = 1..Len(area)
      BY <1>2, <2>1
    <3>2. 1..Len(img.area) + 1 = 1..Len(img.area) \union {Len(img.area) + 1}
      BY <3>1
    <3> QED BY <1>2, <3>1, <3>2
  <2>3. \A i \in DOMAIN img.area : area[i] = img.area[i]
    BY <1>2, <2>2
  <2>4. {area[i] : i \in DOMAIN area} = {img.area[i] : i \in DOMAIN img.area} \union {m}
    BY <1>2, <2>2, <2>3
  <2> QED BY <1>8, <2>4 DEF Carried
<1>10. Sites(new) = DOMAIN img.copy \union Def[m].site
  <2>1. DOMAIN img.copy = Sites(img)
    BY DEF Shape
  <2> QED BY <1>9, <2>1 DEF Sites
<1>11. copy \in [Sites(new) -> Byte]
  BY <1>3, <1>5, <1>6, <1>10, BytesApart DEF Shape
<1>12. Shape(new)
  BY <1>2, <1>4, <1>6, <1>7, <1>8, <1>11 DEF Shape
<1> QED BY <1>3, <1>8, <1>9, <1>12 DEF new, area, moved

LEMMA JoinedKeeps ==
  ASSUME NEW base, NEW ms \in SUBSET Mod, Bare(base, ms), NEW m \in Mod, Mine(base, m)
  PROVE  Bare(Joined(Edited(base, m), m, base), ms \union {m})
<1> DEFINE mid == Edited(base, m)
           new == Joined(mid, m, base)
           all == ms \union {m}
<1>1. Shape(base) /\ Held(base, ms) /\ base.content \in [Addr -> Byte]
  BY DEF Bare, Shape
<1>2. /\ Shape(mid) /\ mid.area = base.area /\ mid.moved = base.moved
      /\ DOMAIN mid.copy = DOMAIN base.copy
      /\ \A a \in Addr : a \notin AllEdits(m) =>
           mid.content[a] = base.content[a] /\ Runs(mid, a) = Runs(base, a)
      /\ \A a \in AllEdits(m) : Runs(mid, a) = Edit(m)
      /\ \A a \in Def[m].site : mid.content[a] = Edit(m)
  BY <1>1, EditedKeeps
<1>3. /\ \A o \in ms : \A a \in EditsOf(o) : a \notin AllEdits(m) /\ Runs(mid, a) = Edit(o)
      /\ \A o \in ms : \A a \in Def[o].site : mid.content[a] = Edit(o)
      /\ base.moved # Nothing => \A a \in Table : base.moved[a] = mid.content[a]
  BY <1>1, EditedHolds
<1> HIDE DEF mid
<1>4. /\ Shape(new) /\ new.content = mid.content
      /\ new.moved = IF Def[m].copies THEN [a \in Table |-> base.content[a]] ELSE mid.moved
      /\ Carried(new) = Carried(mid) \union {m}
      /\ DOMAIN new.copy = DOMAIN mid.copy \union Def[m].site
      /\ \A a \in DOMAIN new.copy : new.copy[a] = IF a \in DOMAIN mid.copy THEN mid.copy[a]
                                                  ELSE Stock
  BY <1>1, <1>2, JoinedShape
<1> HIDE DEF new
<1>5. \A a \in Def[m].site : a \notin DOMAIN mid.copy
  BY <1>1, <1>2, MineIsStock
<1>6. /\ \A a \in Def[m].site : Runs(new, a) = Stock
      /\ \A a : a \notin Def[m].site => Runs(new, a) = Runs(mid, a)
  BY <1>4, <1>5 DEF Runs
<1>7. Held(new, all)
  <2>1. Carried(mid) = Carried(base)
    BY <1>2 DEF Carried
  <2>2. Carried(new) \subseteq all /\ \A o \in all : Def[o].site # {} => o \in Carried(new)
    BY <1>1, <1>4, <2>1 DEF Held
  <2>3. ASSUME NEW o \in all, NEW a \in EditsOf(o) PROVE Runs(new, a) = Edit(o)
    <3>1. CASE o \in ms
      <4>1. a \notin Def[m].site /\ Runs(mid, a) = Edit(o)
        BY <1>3, <2>3, <3>1 DEF AllEdits
      <4> QED BY <1>6, <4>1
    <3>2. CASE o = m
      <4>1. a \notin Def[m].site /\ Runs(mid, a) = Edit(o)
        BY <1>2, <2>3, <3>2, RegistryAssumption DEF AllEdits
      <4> QED BY <1>6, <4>1
    <3> QED BY <3>1, <3>2
  <2>4. ASSUME NEW o \in all, NEW a \in Def[o].site PROVE new.content[a] = Edit(o)
    BY <1>2, <1>3, <1>4
  <2>5. ASSUME new.moved # Nothing, NEW a \in Table PROVE new.moved[a] = new.content[a]
    <3>1. CASE Def[m].copies
      <4>1. a \in Addr /\ a \notin AllEdits(m)
        BY <3>1, ModAssumption, RegistryAssumption
      <4> QED BY <1>2, <1>4, <3>1, <4>1
    <3>2. CASE ~Def[m].copies
      BY <1>2, <1>3, <1>4, <2>5, <3>2
    <3> QED BY <3>1, <3>2
  <2> QED BY <2>2, <2>3, <2>4, <2>5 DEF Held
<1>8. ASSUME NEW a \in Addr PROVE Explained(new, all, a)
  <2>1. CASE a \in Def[m].site
    BY <1>6, <2>1 DEF Explained
  <2>2. CASE a \notin Def[m].site /\ a \in AllEdits(m)
    <3>1. a \in EditsOf(m) /\ Runs(new, a) = Edit(m)
      BY <1>2, <1>6, <2>2 DEF AllEdits
    <3> QED BY <3>1 DEF Explained
  <2>3. CASE a \notin AllEdits(m)
    <3>1. Runs(new, a) = Runs(base, a)
      BY <1>2, <1>6, <2>3 DEF AllEdits
    <3> QED BY <3>1 DEF Bare, Explained
  <2> QED BY <2>1, <2>2, <2>3
<1> QED BY <1>4, <1>7, <1>8 DEF Bare, new, mid

(* join: the due bytes were stock, and the dispatchers' tables are filled. *)
LEMMA AttachJoins ==
  ASSUME NEW img, NEW ms \in SUBSET Mod, Bare(img, ms), CanAttach(img)
  PROVE  /\ Joint(Attach(img), ms)
         /\ Attach(img).mods = img.mods
<1> DEFINE put == Put(img, Due(img))
           new == Attach(img)
           tables == [e \in Event |-> Handlers(img, e)]
<1>1. Shape(img) /\ Held(img, ms) /\ img.area \in Seq(Mod)
  BY DEF Bare, Shape
<1>2. /\ DOMAIN Due(img) \subseteq Owned /\ DOMAIN Due(img) \subseteq Addr
      /\ \A a \in DOMAIN Due(img) : Due(img)[a] \in Byte
  BY <1>1, DueType
<1>3. \A a \in DOMAIN Due(img) : Runs(img, a) = Stock
  BY DEF CanAttach, AllAre
<1>4. \A a \in DOMAIN Due(img), m \in ms : Runs(img, a) # Edit(m)
  BY <1>3, BytesApart
<1>5. /\ Shape(put) /\ Held(put, ms) /\ put.area = img.area /\ put.mods = img.mods
      /\ \A a \in Addr : Runs(put, a) = IF a \in DOMAIN Due(img) THEN Due(img)[a] ELSE Runs(img, a)
  BY <1>1, <1>2, <1>4, PutShape, PutHolds
<1>6. new = [put EXCEPT !.tables = tables]
  BY DEF Attach
<1>7. DOMAIN tables = Event
  OBVIOUS
<1> HIDE DEF put, new
<1>8. /\ Shape(new) /\ new.content = put.content /\ new.area = put.area
      /\ new.copy = put.copy /\ new.moved = put.moved /\ new.mods = put.mods
      /\ new.tables = tables
  <2> HIDE DEF tables
  <2> QED BY <1>5, <1>6, <1>7, TablesShape
<1>9. Held(new, ms) /\ \A a \in Addr : Runs(new, a) = Runs(put, a)
  BY <1>5, <1>8, SameImage
<1>10. /\ Due(new) = Due(img) /\ NoneTwice(new) = NoneTwice(img)
       /\ \A e : SubsOf(new, e) = SubsOf(img, e) /\ Handlers(new, e) = Handlers(img, e)
  BY <1>5, <1>8, DueOfArea
<1>11. AsDue(new)
  BY <1>2, <1>5, <1>9, <1>10 DEF AsDue
<1>12. \A a \in Addr : a \in DOMAIN Due(new) \/ Explained(new, ms, a)
  BY <1>5, <1>9, <1>10 DEF Bare, Explained
<1>13. Linkable(new) /\ new.tables = [e \in Event |-> Handlers(new, e)]
  BY <1>8, <1>10 DEF Linkable, CanAttach
<1> QED BY <1>5, <1>8, <1>9, <1>11, <1>12, <1>13 DEF Joint, new

(* An edit without the platform touches neither the area nor its bytes.    *)
LEMMA EditedJoint ==
  ASSUME NEW img, NEW ms \in SUBSET Mod, Joint(img, ms),
         NEW m \in Mod, Mine(img, m), ~Def[m].platform
  PROVE  Joint(Edited(img, m), ms \union {m}) /\ Edited(img, m).mods = img.mods
<1> DEFINE new == Edited(img, m)
           all == ms \union {m}
<1>1. /\ Shape(img) /\ Held(img, ms) /\ AsDue(img) /\ img.area \in Seq(Mod)
      /\ \A a \in Addr : a \in DOMAIN Due(img) \/ Explained(img, ms, a)
  BY DEF Joint, Shape
<1>2. /\ Shape(new) /\ new.area = img.area /\ new.moved = img.moved
      /\ new.tables = img.tables /\ new.mods = img.mods
      /\ \A a \in Addr : a \notin AllEdits(m) => Runs(new, a) = Runs(img, a)
      /\ \A a \in AllEdits(m) : Runs(new, a) = Edit(m)
  BY <1>1, EditedKeeps
<1>3. /\ \A o \in ms : \A a \in EditsOf(o) : a \notin AllEdits(m) /\ Runs(new, a) = Edit(o)
      /\ \A o \in ms : \A a \in Def[o].site : new.content[a] = Edit(o)
      /\ img.moved # Nothing => \A a \in Table : img.moved[a] = new.content[a]
  BY <1>1, EditedHolds
<1>4. \A a \in AllEdits(m) : Runs(img, a) = Stock
  BY <1>1, MineIsStock
<1> HIDE DEF new
<1>5. Def[m].site = {} /\ AllEdits(m) = EditsOf(m)
  BY RegistryAssumption DEF AllEdits
<1>6. /\ Due(new) = Due(img) /\ NoneTwice(new) = NoneTwice(img) /\ Carried(new) = Carried(img)
      /\ \A e : SubsOf(new, e) = SubsOf(img, e) /\ Handlers(new, e) = Handlers(img, e)
  BY <1>2, DueOfArea
<1>7. Held(new, all)
  <2>1. Carried(new) \subseteq all /\ \A o \in all : Def[o].site # {} => o \in Carried(new)
    BY <1>1, <1>5, <1>6 DEF Held
  <2>2. \A o \in all : \A a \in EditsOf(o) : Runs(new, a) = Edit(o)
    BY <1>2, <1>3, <1>5
  <2>3. \A o \in all : \A a \in Def[o].site : new.content[a] = Edit(o)
    BY <1>3, <1>5
  <2>4. new.moved # Nothing => \A a \in Table : new.moved[a] = new.content[a]
    BY <1>2, <1>3
  <2> QED BY <2>1, <2>2, <2>3, <2>4 DEF Held
<1>8. ASSUME NEW a \in DOMAIN Due(img) PROVE a \in Addr /\ Runs(new, a) = Due(img)[a]
  <2>1. a \in Addr /\ Due(img)[a] # Stock /\ Runs(img, a) = Due(img)[a]
    BY <1>1, DueType DEF AsDue
  <2>2. a \notin AllEdits(m)
    BY <1>4, <2>1
  <2> QED BY <1>2, <2>1, <2>2
<1>9. ASSUME NEW a \in Addr PROVE a \in DOMAIN Due(new) \/ Explained(new, all, a)
  <2>1. CASE a \in AllEdits(m)
    BY <1>2, <1>5, <2>1 DEF Explained
  <2>2. CASE a \notin AllEdits(m)
    BY <1>1, <1>2, <1>6, <2>2 DEF Explained
  <2> QED BY <2>1, <2>2
<1>10. AsDue(new)
  BY <1>6, <1>8 DEF AsDue
<1>11. /\ new.area # << >> => Linkable(new)
       /\ new.tables = [e \in Event |-> Handlers(new, e)]
  BY <1>2, <1>6 DEF Joint, Linkable
<1> QED BY <1>2, <1>7, <1>9, <1>10, <1>11 DEF Joint, new

-----------------------------------------------------------------------------
(* A mod's whole apply keeps a good image good.                            *)
Good(img) == Joint(img, img.mods)

LEMMA ModsJoint ==
  ASSUME NEW img, NEW ms \in SUBSET Mod, Joint(img, ms)
  PROVE  Good([img EXCEPT !.mods = ms])
<1> DEFINE new == [img EXCEPT !.mods = ms]
<1>1. Shape(img) /\ Held(img, ms)
  BY DEF Joint
<1>2. /\ Shape(new) /\ new.content = img.content /\ new.area = img.area /\ new.copy = img.copy
      /\ new.moved = img.moved /\ new.tables = img.tables /\ new.mods = ms
  BY <1>1, ModsShape
<1> HIDE DEF new
<1>3. /\ Held(new, ms)
      /\ \A a : Runs(new, a) = Runs(img, a) /\ Explained(new, ms, a) = Explained(img, ms, a)
  BY <1>1, <1>2, SameImage
<1>4. /\ Due(new) = Due(img) /\ NoneTwice(new) = NoneTwice(img)
      /\ \A e : SubsOf(new, e) = SubsOf(img, e) /\ Handlers(new, e) = Handlers(img, e)
  BY <1>2, DueOfArea
<1>5. AsDue(new)
  BY <1>3, <1>4 DEF Joint, AsDue
<1>6. \A a \in Addr : a \in DOMAIN Due(new) \/ Explained(new, ms, a)
  BY <1>3, <1>4 DEF Joint
<1>7. /\ new.area # << >> => Linkable(new)
      /\ new.tables = [e \in Event |-> Handlers(new, e)]
  BY <1>2, <1>4 DEF Joint, Linkable
<1>8. Joint(new, ms)
  BY <1>2, <1>3, <1>5, <1>6, <1>7 DEF Joint
<1> QED BY <1>2, <1>8 DEF Good, new

LEMMA AppliedKeeps ==
  ASSUME NEW img, Good(img), NEW m \in Mod, Fits(img, m)
  PROVE  Good(Applied(img, m))
<1> DEFINE ms  == img.mods
           all == ms \union {m}
<1>1. /\ Joint(img, ms) /\ ms \in SUBSET Mod /\ all \in SUBSET Mod
      /\ Mine(Base(img, m), m)
      /\ Def[m].platform => CanAttach(Linked(img, m))
  BY DEF Good, Joint, Shape, Fits
<1>2. CASE Def[m].platform
  <2> DEFINE base == Detach(img)
             linked == Linked(img, m)
             new == Attach(linked)
  <2>1. Base(img, m) = base /\ linked = Joined(Edited(base, m), m, base)
    BY <1>2 DEF Base, Linked
  <2>2. Bare(base, ms) /\ base.mods = ms
    BY <1>1, DetachBares
  <2>3. Bare(linked, all)
    BY <1>1, <2>1, <2>2, JoinedKeeps
  <2>4. linked.mods = ms
    <3>1. Shape(base) /\ Held(base, ms) /\ base.content \in [Addr -> Byte]
      BY <2>2 DEF Bare, Shape
    <3>2. Shape(Edited(base, m)) /\ Edited(base, m).mods = ms
      BY <1>1, <2>1, <2>2, <3>1, EditedKeeps
    <3>3. Joined(Edited(base, m), m, base).mods = Edited(base, m).mods
      BY <3>1, <3>2, JoinedShape
    <3> HIDE DEF base, linked
    <3> QED BY <2>1, <3>2, <3>3
  <2>5. Joint(new, all) /\ new.mods = ms
    BY <1>1, <1>2, <2>3, <2>4, AttachJoins
  <2>6. Applied(img, m) = [new EXCEPT !.mods = all]
    BY <1>2, <2>5 DEF Applied
  <2> QED BY <1>1, <2>5, <2>6, ModsJoint
<1>3. CASE ~Def[m].platform
  <2> DEFINE new == Edited(img, m)
  <2>1. Base(img, m) = img
    BY <1>3 DEF Base
  <2>2. Joint(new, all) /\ new.mods = ms
    BY <1>1, <1>3, <2>1, EditedJoint
  <2>3. Applied(img, m) = [new EXCEPT !.mods = all]
    BY <1>3, <2>2 DEF Applied
  <2> QED BY <1>1, <2>2, <2>3, ModsJoint
<1> QED BY <1>2, <1>3

LEMMA StockIsGood == Good(StockImage)
<1> DEFINE img == StockImage
<1>1. /\ img.content = [a \in Addr |-> Stock] /\ img.area = << >> /\ img.copy = Nothing
      /\ img.moved = Nothing /\ img.tables = [e \in Event |-> << >>] /\ img.mods = {}
      /\ img = [content |-> img.content, area |-> img.area, copy |-> img.copy,
                moved |-> img.moved, tables |-> img.tables, mods |-> img.mods]
  BY DEF StockImage
<1> HIDE DEF img
<1>2. Carried(img) = {} /\ Sites(img) = {}
  BY <1>1 DEF Carried, Sites
<1>3. DOMAIN Nothing = {} /\ Nothing \in [{} -> Byte]
  BY DEF Nothing
<1>4. Shape(img)
  BY <1>1, <1>2, <1>3, BytesApart DEF Shape
<1>5. Held(img, {})
  BY <1>1, <1>2 DEF Held
<1>6. \A a \in Addr : Explained(img, {}, a)
  BY <1>1, <1>3 DEF Explained, Runs
<1>7. DOMAIN Due(img) = {}
  <2>1. \A c : Adders(img, c) = {}
    BY <1>1 DEF Adders
  <2>2. \A e : SubsOf(img, e) = {}
    BY <1>2 DEF SubsOf
  <2> QED BY <2>1, <2>2 DEF Due, DueBounds, DueSites, Counted, Heard
<1>8. \A e : Handlers(img, e) = << >>
  <2>1. \A e : SubsOf(img, e) = {}
    BY <1>2 DEF SubsOf
  <2> QED BY <2>1, OrderedNone DEF Handlers
<1> QED BY <1>1, <1>4, <1>5, <1>6, <1>7, <1>8 DEF Good, Joint, AsDue, img

-----------------------------------------------------------------------------
(* The commands.                                                           *)
IInv ==
  /\ Good(disk) /\ Good(source) /\ Good(staged)
  /\ chosen \in Seq(Mod) /\ todo \in Seq(Mod)

LEMMA InitHolds == Init => IInv
BY StockIsGood DEF Init, IInv

LEMMA CommandType ==
  ASSUME NEW s \in Commands, NEW p \in [DOMAIN s -> DOMAIN s]
  PROVE  s \in Seq(Mod) /\ [i \in DOMAIN s |-> s[p[i]]] \in Seq(Mod)
<1>1. PICK n \in 1..MaxChosen : s \in [1..n -> Mod]
  BY DEF Commands
<1>2. n \in Nat
  BY ModAssumption
<1>3. DOMAIN s = 1..n
  BY <1>1
<1> DEFINE t == [i \in DOMAIN s |-> s[p[i]]]
<1>4. t \in [1..n -> Mod]
  BY <1>1, <1>3
<1> HIDE DEF t
<1>5. s \in Seq(Mod) /\ t \in Seq(Mod)
  BY <1>1, <1>2, <1>4
<1> QED BY <1>5 DEF t

LEMMA StepKeeps == IInv /\ [Next]_vars => IInv'
<1> SUFFICES ASSUME IInv, [Next]_vars PROVE IInv'
  OBVIOUS
<1>1. ASSUME NEW s \in Commands, NEW from \in {StockImage, disk}, Choose(s, from) PROVE IInv'
  <2>1. Good(from)
    BY StockIsGood DEF IInv
  <2>2. chosen' \in Seq(Mod) /\ todo' \in Seq(Mod)
    BY <1>1, CommandType DEF Choose
  <2> QED BY <1>1, <2>1, <2>2 DEF Choose, IInv
<1>2. CASE Apply
  <2>1. Head(todo) \in Mod /\ Tail(todo) \in Seq(Mod)
    BY <1>2 DEF Apply, IInv
  <2>2. Good(Applied(staged, Head(todo)))
    BY <1>2, <2>1, AppliedKeeps DEF Apply, IInv
  <2> QED BY <1>2, <2>1, <2>2 DEF Apply, IInv
<1>3. CASE Refuse
  BY <1>3 DEF Refuse, Idle, IInv
<1>4. CASE Write
  BY <1>4 DEF Write, Idle, IInv
<1>5. CASE UNCHANGED vars
  BY <1>5 DEF vars, IInv
<1> QED BY <1>1, <1>2, <1>3, <1>4, <1>5 DEF Next

LEMMA GoodAlways == Spec => []IInv
BY InitHolds, StepKeeps, PTL DEF Spec

-----------------------------------------------------------------------------
(* The theorems.                                                           *)

LEMMA GoodIsTyped == ASSUME NEW img, Good(img) PROVE ImageOK(img)
<1>1. Shape(img)
  BY DEF Good, Joint
<1>2. DOMAIN img = DOMAIN StockImage
  BY <1>1 DEF Shape, StockImage
<1> QED BY <1>1, <1>2 DEF Shape, ImageOK, Sites

(* Every image is of its type, and the area replays exactly the bytes its  *)
(* mods' hooks displaced, whatever mods come in whatever commands.         *)
THEOREM ModsTyped == Spec => []TypeOK
<1>1. IInv => TypeOK
  BY GoodIsTyped DEF IInv, TypeOK
<1> QED BY <1>1, GoodAlways, PTL

(* No later mod undoes an earlier one's edits or hook.                     *)
THEOREM EditsStayInEffect == Spec => []EditsInEffect
<1>1. IInv => EditsInEffect
  <2> SUFFICES ASSUME IInv, NEW m \in disk.mods
               PROVE  /\ \A a \in EditsOf(m) :
                           (IF a \in DOMAIN disk.moved THEN disk.moved[a] ELSE Runs(disk, a))
                             = Edit(m)
                      /\ \A a \in Def[m].site : disk.content[a] = Edit(m)
    BY DEF EditsInEffect, InEffect
  <2>1. Shape(disk) /\ Held(disk, disk.mods) /\ disk.mods \in SUBSET Mod
    BY DEF IInv, Good, Joint, Shape
  <2>2. ASSUME NEW a \in EditsOf(m), a \in DOMAIN disk.moved PROVE disk.moved[a] = Edit(m)
    <3>1. disk.moved # Nothing
      BY <2>2 DEF Nothing
    <3>2. a \in Table
      BY <2>1, <2>2, <3>1 DEF Shape
    <3>3. a \notin DOMAIN disk.copy
      BY <2>1, <3>2, SitesTaken, RegistryAssumption
    <3> QED BY <2>1, <3>1, <3>2, <3>3 DEF Held, Runs
  <2> QED BY <2>1, <2>2 DEF Held
<1> QED BY <1>1, GoodAlways, PTL

(* The bytes the bus owns are what the image's mods together want.         *)
THEOREM BusStaysInEffect == Spec => []BusInEffect
<1>1. IInv => BusInEffect
  BY DEF IInv, Good, Joint, BusInEffect
<1> QED BY <1>1, GoodAlways, PTL

(* The order and the commands the mods came in do not matter: every byte   *)
(* that runs is its mod's, the bus's or stock, the moved table is the same *)
(* table, and each event's handlers are called by their order.             *)
THEOREM OrderDoesNotMatter == Spec => []OrderIrrelevant
<1>1. IInv => OrderIrrelevant
  <2> SUFFICES ASSUME IInv PROVE OrderIrrelevant
    OBVIOUS
  <2>1. /\ Joint(disk, disk.mods) /\ Shape(disk) /\ Held(disk, disk.mods) /\ AsDue(disk)
        /\ disk.area \in Seq(Mod) /\ disk.mods \in SUBSET Mod
    BY DEF IInv, Good, Joint, Shape
  <2>2. ASSUME NEW a \in Addr PROVE Runs(disk, a) = Wanted(disk, a)
    <3>1. CASE \E m \in disk.mods : a \in EditsOf(m)
      <4> DEFINE m == CHOOSE m \in disk.mods : a \in EditsOf(m)
      <4>1. m \in disk.mods /\ a \in EditsOf(m) /\ Wanted(disk, a) = Edit(m)
        BY <3>1 DEF Wanted
      <4> HIDE DEF m
      <4> QED BY <2>1, <4>1 DEF Held
    <3>2. CASE ~\E m \in disk.mods : a \in EditsOf(m)
      <4>1. CASE a \in DOMAIN Due(disk)
        BY <2>1, <3>2, <4>1 DEF AsDue, Wanted
      <4>2. CASE a \notin DOMAIN Due(disk)
        BY <2>1, <3>2, <4>2 DEF Joint, Explained, Wanted
      <4> QED BY <4>1, <4>2
    <3> QED BY <3>1, <3>2
  <2>3. ASSUME NEW a \in DOMAIN disk.moved PROVE disk.moved[a] = Wanted(disk, a)
    <3>1. disk.moved # Nothing
      BY <2>3 DEF Nothing
    <3>2. a \in Table /\ a \in Addr
      BY <2>1, <2>3, <3>1, ModAssumption DEF Shape
    <3>3. a \notin DOMAIN disk.copy
      BY <2>1, <3>2, SitesTaken, RegistryAssumption
    <3> QED BY <2>1, <2>2, <3>1, <3>2, <3>3 DEF Held, Runs
  <2>4. ASSUME NEW e \in Event
        PROVE  LET h == disk.tables[e] IN
               /\ Len(h) = Cardinality(SubsOf(disk, e))
               /\ \A i, j \in DOMAIN h : i < j =>
                    \E s, t \in SubsOf(disk, e) :
                      s.handler = h[i] /\ t.handler = h[j] /\ Before(s, t)
    <3>1. disk.tables[e] = Ordered(SubsOf(disk, e))
      BY <2>1 DEF Joint, Handlers
    <3>2. /\ IsFiniteSet(SubsOf(disk, e)) /\ SubsOf(disk, e) \in SUBSET Subs
          /\ \A s \in SubsOf(disk, e) : s.event = e
      BY <2>1, SubsFinite
    <3> DEFINE S == SubsOf(disk, e)
    <3> HIDE DEF S
    <3>3. /\ Len(Ordered(S)) = Cardinality(S)
          /\ \A i, j \in DOMAIN Ordered(S) : i < j =>
               \E s, t \in S : /\ s.handler = Ordered(S)[i] /\ t.handler = Ordered(S)[j]
                              /\ Before(s, t)
      BY <3>2, OrderedSorts DEF S
    <3> QED BY <3>1, <3>3 DEF S
  <2> QED BY <2>2, <2>3, <2>4 DEF OrderIrrelevant
<1> QED BY <1>1, GoodAlways, PTL

(* An image is taken apart and joined to itself again: split and join, as  *)
(* every later mod does, lose and refuse nothing.                          *)
LEMMA SameShape ==
  ASSUME NEW x, NEW y, Shape(x), Shape(y), x.content = y.content, x.area = y.area,
         x.copy = y.copy, x.moved = y.moved, x.tables = y.tables, x.mods = y.mods
  PROVE  x = y
BY DEF Shape

LEMMA SplitJoins ==
  ASSUME NEW img, Good(img), img.area # << >>
  PROVE  LET base == Detach(img) IN
         /\ CanDetach(img) /\ CanAttach(base) /\ Attach(base) = img
         /\ \A a \in Addr : Explained(base, img.mods, a)
<1> DEFINE base == Detach(img)
           put == Put(base, Due(base))
           new == Attach(base)
           tables == [e \in Event |-> Handlers(base, e)]
<1>1. /\ Joint(img, img.mods) /\ img.mods \in SUBSET Mod /\ Linkable(img) /\ AsDue(img)
      /\ Shape(img) /\ img.area \in Seq(Mod)
  BY DEF Good, Joint, Shape
<1>2. /\ Bare(base, img.mods)
      /\ base.area = img.area /\ base.moved = img.moved /\ base.mods = img.mods
      /\ DOMAIN base.copy = DOMAIN img.copy
      /\ \A a \in Addr :
           /\ base.content[a] = IF a \in DOMAIN Due(img) \ DOMAIN img.copy THEN Stock
                               ELSE img.content[a]
           /\ Runs(base, a) = IF a \in DOMAIN Due(img) THEN Stock ELSE Runs(img, a)
  BY <1>1, DetachBares
<1> HIDE DEF base
<1>3. /\ Due(base) = Due(img) /\ NoneTwice(base) = NoneTwice(img)
      /\ \A e : SubsOf(base, e) = SubsOf(img, e) /\ Handlers(base, e) = Handlers(img, e)
  BY <1>2, DueOfArea
<1>4. /\ DOMAIN Due(img) \subseteq Addr
      /\ \A a \in DOMAIN Due(img) : Due(img)[a] \in Byte /\ Runs(img, a) = Due(img)[a]
  BY <1>1, DueType DEF AsDue
<1>5. CanDetach(img)
  BY <1>1 DEF CanDetach, Linkable
<1>6. CanAttach(base)
  BY <1>1, <1>2, <1>3, <1>4 DEF CanAttach, AllAre, Linkable
<1>7. Shape(base)
  BY <1>2 DEF Bare
<1>8. /\ Shape(put) /\ put.area = img.area /\ put.moved = img.moved
      /\ put.mods = img.mods /\ DOMAIN put.copy = DOMAIN img.copy
      /\ \A a \in Addr :
           /\ put.content[a] = IF a \in DOMAIN Due(img) \ DOMAIN img.copy THEN Due(img)[a]
                              ELSE base.content[a]
           /\ Runs(put, a) = IF a \in DOMAIN Due(img) THEN Due(img)[a] ELSE Runs(base, a)
  BY <1>2, <1>3, <1>4, <1>7, PutShape
<1>9. new = [put EXCEPT !.tables = tables]
  BY DEF Attach
<1>10. tables = img.tables
  <2>1. img.tables = [e \in Event |-> Handlers(img, e)]
    BY <1>1 DEF Joint
  <2> QED BY <1>3, <2>1
<1>11. DOMAIN tables = Event
  OBVIOUS
<1> HIDE DEF put, new, tables
<1>12. /\ Shape(new) /\ new.content = put.content /\ new.area = put.area /\ new.copy = put.copy
       /\ new.moved = put.moved /\ new.mods = put.mods /\ new.tables = tables
  BY <1>8, <1>9, <1>11, TablesShape
<1>13. put.content = img.content
  <2>1. ASSUME NEW a \in Addr PROVE put.content[a] = img.content[a]
    <3>1. CASE a \in DOMAIN Due(img) \ DOMAIN img.copy
      BY <1>4, <1>8, <3>1 DEF Runs
    <3>2. CASE a \notin DOMAIN Due(img) \ DOMAIN img.copy
      BY <1>2, <1>8, <3>2
    <3> QED BY <3>1, <3>2
  <2>2. put.content \in [Addr -> Byte] /\ img.content \in [Addr -> Byte]
    BY <1>1, <1>8 DEF Shape
  <2> QED BY <2>1, <2>2
<1>14. put.copy = img.copy
  <2>1. DOMAIN img.copy \subseteq Addr
    BY <1>1, CarriedType DEF Shape
  <2>2. ASSUME NEW a \in DOMAIN img.copy PROVE put.copy[a] = img.copy[a]
    <3>1. Runs(put, a) = Runs(img, a)
      BY <1>2, <1>4, <1>8, <2>1
    <3> QED BY <1>8, <3>1 DEF Runs
  <2>3. put.copy \in [DOMAIN img.copy -> Byte] /\ img.copy \in [DOMAIN img.copy -> Byte]
    BY <1>1, <1>8 DEF Shape
  <2> QED BY <2>2, <2>3
<1>15. new = img
  BY <1>1, <1>8, <1>10, <1>12, <1>13, <1>14, SameShape
<1> QED BY <1>2, <1>5, <1>6, <1>15 DEF Bare, base, new

(* Split and join undo each other on every image that was written.         *)
THEOREM SplitAndJoinAgain == Spec => []SplitAgain
<1>1. IInv => SplitAgain
  <2> SUFFICES ASSUME IInv, disk.area # << >>
               PROVE  LET base == Detach(disk) IN
                      /\ CanDetach(disk) /\ CanAttach(base)
                      /\ \A a \in Owned : \/ Runs(base, a) = Stock
                                         \/ \E m \in disk.mods : a \in EditsOf(m)
                      /\ Attach(base) = disk
    BY DEF SplitAgain
  <2>1. Owned \subseteq Addr
    BY ModAssumption DEF Owned
  <2> QED BY <2>1, SplitJoins DEF IInv, Explained
<1> QED BY <1>1, GoodAlways, PTL
=============================================================================
