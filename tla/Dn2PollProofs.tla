---------------------------- MODULE Dn2PollProofs ----------------------------
(***************************************************************************)
(* Proofs about the probe's host (Dn2Poll).                                *)
(*                                                                         *)
(* SilenceBound is not inductive: what bounds the requests is that each    *)
(* was given GIVE_UP before the next, and the first of them counts from    *)
(* when the last reply came, no earlier (Silence).  Once the silence is    *)
(* longer than LOST_AFTER nothing more is sent, so the bound itself is     *)
(* what is left.                                                           *)
(***************************************************************************)
EXTENDS Dn2Poll, SequenceTheorems, TLAPS

USE PollAssumption, NoneAssumption

Silence ==
  /\ state # "present" => unanswered = 0
  /\ state = "present" /\ replyAge <= LostAfter =>
       IF inflight = None THEN unanswered * (GiveUp + 1) <= replyAge
       ELSE unanswered * (GiveUp + 1) + inflight.age <= replyAge + GiveUp + 1

IInv == TypeOK /\ ReadsOfThisRound /\ SilenceBound /\ Silence

LinkTyped == done \in Seq(Replies) /\ sysex \in Seq(Replies) /\ usb \in Seq(Requests)

(* The requests one more makes: it adds a GIVE_UP.                         *)
LEMMA OneMore ==
  /\ 0 * (GiveUp + 1) = 0 /\ 1 * (GiveUp + 1) = GiveUp + 1
  /\ \A n \in Nat : /\ n * (GiveUp + 1) \in Nat
                    /\ (n + 1) * (GiveUp + 1) = n * (GiveUp + 1) + GiveUp + 1
  OBVIOUS

LEMMA UpTyped ==
  ASSUME NEW top \in Nat, NEW age \in 0..top
  PROVE  /\ Up(age, top) \in 0..top
         /\ Up(age, top) = IF age < top THEN age + 1 ELSE top
  BY DEF Up

-----------------------------------------------------------------------------
(* A sequence whose elements are changed one by one is one again.          *)
LEMMA SeqOf ==
  ASSUME NEW S, NEW n \in Nat, NEW t, DOMAIN t = 1..n, t = [i \in DOMAIN t |-> t[i]],
         \A i \in 1..n : t[i] \in S
  PROVE  t \in Seq(S)
<1>1. t \in [1..n -> S]
  OBVIOUS
<1> QED BY <1>1, SeqDef

LEMMA ReplyTyped ==
  ASSUME NEW m \in Replies
  PROVE  /\ m.req \in Requests /\ m.how \in {"ok", "refused", "bad", "short"}
         /\ m.age \in 0..LostAfter + 1
  BY DEF Replies

LEMMA OlderTyped ==
  ASSUME NEW q \in Requests
  PROVE  Older(q) \in Requests
  BY DEF Older, Requests

LEMMA RequestTyped ==
  ASSUME NEW kind \in {"hello", "stats", "peek"}, NEW item \in Items \union {None},
         kind = "peek" => item \in Items, NEW age \in 0..GiveUp + 1
  PROVE  /\ Request(kind, item) \in Requests
         /\ [req |-> Request(kind, item), age |-> age] \in InFlight
  BY DEF Request, Requests, InFlight

LEMMA OlderRepliesTyped ==
  ASSUME NEW s \in Seq(Replies)
  PROVE  OlderReplies(s) \in Seq(Replies)
<1> DEFINE t == [i \in DOMAIN s |-> [s[i] EXCEPT !.req = Older(@)]]
<1>1. Len(s) \in Nat /\ DOMAIN s = 1..Len(s) /\ \A i \in 1..Len(s) : s[i] \in Replies
  OBVIOUS
<1>2. ASSUME NEW m \in Replies
      PROVE  [m EXCEPT !.req = Older(@)] \in Replies
  BY OlderTyped DEF Replies
<1>3. DOMAIN t = 1..Len(s) /\ \A i \in 1..Len(s) : t[i] \in Replies
  BY <1>1, <1>2
<1>4. t = [i \in DOMAIN t |-> t[i]]
  OBVIOUS
<1> HIDE DEF t
<1>5. t \in Seq(Replies)
  BY <1>1, <1>3, <1>4, SeqOf
<1> QED BY <1>5 DEF OlderReplies, t

LEMMA OlderRequestsTyped ==
  ASSUME NEW s \in Seq(Requests)
  PROVE  [i \in DOMAIN s |-> Older(s[i])] \in Seq(Requests)
<1> DEFINE t == [i \in DOMAIN s |-> Older(s[i])]
<1>1. Len(s) \in Nat /\ DOMAIN s = 1..Len(s) /\ \A i \in 1..Len(s) : s[i] \in Requests
  OBVIOUS
<1>2. DOMAIN t = 1..Len(s) /\ \A i \in 1..Len(s) : t[i] \in Requests
  BY <1>1, OlderTyped
<1>3. t = [i \in DOMAIN t |-> t[i]]
  OBVIOUS
<1> HIDE DEF t
<1>4. t \in Seq(Requests)
  BY <1>1, <1>2, <1>3, SeqOf
<1> QED BY <1>4 DEF t

LEMMA AgedTyped ==
  ASSUME NEW s \in Seq(Replies)
  PROVE  [i \in DOMAIN s |-> [s[i] EXCEPT !.age = Up(@, LostAfter + 1)]] \in Seq(Replies)
<1> DEFINE t == [i \in DOMAIN s |-> [s[i] EXCEPT !.age = Up(@, LostAfter + 1)]]
<1>1. Len(s) \in Nat /\ DOMAIN s = 1..Len(s) /\ \A i \in 1..Len(s) : s[i] \in Replies
  OBVIOUS
<1>2. ASSUME NEW m \in Replies
      PROVE  [m EXCEPT !.age = Up(@, LostAfter + 1)] \in Replies
  <2>1. m.age \in 0..LostAfter + 1
    BY ReplyTyped
  <2>2. Up(m.age, LostAfter + 1) \in 0..LostAfter + 1
    BY <2>1, UpTyped
  <2> QED BY <2>2 DEF Replies
<1>3. DOMAIN t = 1..Len(s) /\ \A i \in 1..Len(s) : t[i] \in Replies
  BY <1>1, <1>2
<1>4. t = [i \in DOMAIN t |-> t[i]]
  OBVIOUS
<1> HIDE DEF t
<1>5. t \in Seq(Replies)
  BY <1>1, <1>3, <1>4, SeqOf
<1> QED BY <1>5 DEF t

(* What is sent, and what it leaves of the link.                           *)
LEMMA AskTyped ==
  ASSUME TypeOK, NEW q \in Requests, NEW rest \in Seq(Replies), Ask(q, rest)
  PROVE  LinkTyped'
<1>1. [i \in DOMAIN usb |-> Older(usb[i])] \in Seq(Requests)
  BY OlderRequestsTyped DEF TypeOK
<1>2. usb' \in Seq(Requests)
  BY <1>1 DEF Ask
<1>3. done' \in Seq(Replies) /\ sysex' \in Seq(Replies)
  BY OlderRepliesTyped DEF Ask, TypeOK
<1> QED BY <1>2, <1>3 DEF LinkTyped

LEMMA WholeRoundTyped == TypeOK => WholeRound \subseteq Items
  BY DEF TypeOK, WholeRound, Items

(* The next PEEK of a round, or its end.                                   *)
LEMMA NextPeekTyped ==
  ASSUME TypeOK, sysex # <<>>, NEW r \in SUBSET Items, NextPeek(r)
  PROVE  /\ round' \subseteq Items /\ LinkTyped'
         /\ \/ inflight' = None /\ unanswered' = 0
            \/ inflight' \in InFlight /\ inflight'.age <= Head(sysex).age /\ unanswered' = 1
<1> DEFINE age == Aged(Head(sysex))
<1>1. Tail(sysex) \in Seq(Replies)
  BY HeadTailProperties DEF TypeOK
<1>4. age \in 0..GiveUp + 1 /\ age <= Head(sysex).age
  <2>1. Head(sysex).age \in Nat
    BY HeadTailProperties, ReplyTyped DEF TypeOK
  <2> QED BY <2>1 DEF Aged
<1>2. CASE r = {} /\ round' = {} /\ inflight' = None /\ unanswered' = 0 /\ Quiet(Tail(sysex))
  BY <1>1, <1>2 DEF Quiet, LinkTyped, TypeOK
<1>3. ASSUME NEW it \in r, round' = r \ {it}, Ask(Request("peek", it), Tail(sysex)),
             inflight' = [req |-> Request("peek", it), age |-> age], unanswered' = 1
      PROVE  /\ round' \subseteq Items /\ LinkTyped'
             /\ inflight' \in InFlight /\ inflight'.age <= Head(sysex).age
  BY <1>1, <1>3, <1>4, RequestTyped, AskTyped
<1> QED BY <1>2, <1>3 DEF NextPeek

-----------------------------------------------------------------------------
(* Every step keeps the invariant.                                         *)

LEMMA InitInv == Init => IInv
<1> SUFFICES ASSUME Init PROVE IInv
  OBVIOUS
<1>1. HelloDue \in Nat
  BY DEF HelloDue
<1>2. TypeOK
  <2>1. LinkTyped
    BY DEF Init, LinkTyped
  <2>2. port \in BOOLEAN /\ pump \in BOOLEAN /\ probe \in BOOLEAN /\ deaf \in BOOLEAN
    BY DEF Init
  <2>3. /\ replyAge \in 0..LostAfter + 1 /\ helloAge \in 0..HelloDue /\ searchAge \in 0..SearchFor
        /\ faults \in 0..MaxFaults /\ presses \in 0..MaxPresses /\ unanswered \in Nat
    BY <1>1 DEF Init
  <2>4. /\ state \in {"searching", "absent", "present", "lost"} /\ inflight = None
        /\ round = {} /\ reads = {} /\ watches \subseteq Watch
        /\ reopening \in {"no", "closed", "opened"}
    BY DEF Init
  <2> QED BY <2>1, <2>2, <2>3, <2>4 DEF TypeOK, LinkTyped
<1>3. ReadsOfThisRound /\ SilenceBound /\ Silence
  BY OneMore DEF Init, ReadsOfThisRound, SilenceBound, Silence
<1> QED BY <1>2, <1>3 DEF IInv

LEMMA LoseInv == ASSUME IInv, Lose PROVE IInv'
<1>1. HelloDue \in Nat
  BY DEF HelloDue
<1>2. TypeOK'
  BY <1>1 DEF IInv, TypeOK, Lose, Forget, link, dev
<1>3. (ReadsOfThisRound /\ SilenceBound /\ Silence)'
  BY OneMore DEF Lose, Forget, ReadsOfThisRound, SilenceBound, Silence
<1> QED BY <1>2, <1>3 DEF IInv

LEMMA PollInv == ASSUME IInv, Poll PROVE IInv'
<1> DEFINE stats == Request("stats", None)
<1>1. TypeOK
  BY DEF IInv
<1>2. stats \in Requests /\ [req |-> stats, age |-> 0] \in InFlight
  BY RequestTyped
<1>3. LinkTyped'
  BY <1>1, <1>2, AskTyped DEF Poll, Quiet, LinkTyped, TypeOK
<1>4. inflight' \in InFlight \union {None} /\ unanswered' \in Nat
  BY <1>1, <1>2 DEF Poll, TypeOK
<1>5. round' \subseteq round /\ reads' \subseteq reads
  BY DEF Poll
<1>6. TypeOK'
  BY <1>1, <1>3, <1>4, <1>5 DEF Poll, ages, TypeOK, LinkTyped
<1>7. ReadsOfThisRound'
  BY <1>5 DEF IInv, ReadsOfThisRound
<1>8. unanswered * (GiveUp + 1) <= replyAge
  BY <1>1, OneMore DEF Poll, GivenUp, IInv, Silence, TypeOK, InFlight
<1>9. CASE inflight' = [req |-> stats, age |-> 0] /\ unanswered' = unanswered + 1
  <2>1. unanswered' * (GiveUp + 1) <= replyAge + GiveUp + 1
    BY <1>1, <1>8, <1>9, OneMore DEF TypeOK
  <2>2. SilenceBound'
    BY <2>1, <1>1 DEF Poll, SilenceBound, TypeOK
  <2>3. inflight' # None /\ inflight'.age = 0
    BY <1>2, <1>9
  <2>4. Silence'
    BY <2>1, <2>3, <1>1 DEF Poll, ages, Silence, TypeOK
  <2> QED BY <1>6, <1>7, <2>2, <2>4 DEF IInv
<1>10. CASE inflight' = None /\ unanswered' = unanswered
  <2>1. SilenceBound' /\ Silence'
    BY <1>1, <1>8, <1>10, OneMore DEF Poll, ages, IInv, SilenceBound, Silence, TypeOK
  <2> QED BY <1>6, <1>7, <2>1 DEF IInv
<1> QED BY <1>9, <1>10 DEF Poll

LEMMA SearchInv == ASSUME IInv, Search PROVE IInv'
<1>1. TypeOK
  BY DEF IInv
<1>2. Looking \in {"searching", "absent", "present", "lost"} /\ (state # "present" => Looking # "present")
  BY <1>1 DEF Looking, TypeOK
<1>3. Request("hello", None) \in Requests
  BY DEF Request, Requests
<1>4. LinkTyped' /\ helloAge' \in 0..HelloDue
  BY <1>1, <1>3, AskTyped DEF Search, Quiet, LinkTyped, TypeOK, HelloDue
<1>5. TypeOK'
  BY <1>1, <1>2, <1>4 DEF Search, TypeOK, LinkTyped
<1>6. (ReadsOfThisRound /\ SilenceBound /\ Silence)'
  BY <1>2 DEF IInv, Search, ReadsOfThisRound, SilenceBound, Silence
<1> QED BY <1>5, <1>6 DEF IInv

(* A reply resets what the silence is counted from.                        *)
LEMMA Heard ==
  ASSUME IInv, TypeOK', state' # "present" => unanswered' = 0,
         \/ unanswered' = 0
         \/ unanswered' = 1 /\ inflight' # None /\ inflight'.age <= replyAge'
  PROVE  SilenceBound' /\ Silence'
<1>1. unanswered' * (GiveUp + 1) = IF unanswered' = 0 THEN 0 ELSE GiveUp + 1
  BY OneMore
<1>2. inflight' # None => inflight'.age \in 0..GiveUp + 1
  BY DEF TypeOK, InFlight
<1>3. replyAge' \in Nat
  BY DEF TypeOK
<1>4. SilenceBound'
  BY <1>1 DEF SilenceBound
<1>5. Silence'
  BY <1>1, <1>2, <1>3 DEF Silence
<1> QED BY <1>4, <1>5

LEMMA HandleInv == ASSUME IInv, Handle PROVE IInv'
<1> DEFINE m == Head(sysex)
<1>1. TypeOK /\ ReadsOfThisRound
  BY DEF IInv
<1>2. /\ m \in Replies /\ m.req \in Requests /\ m.age \in 0..LostAfter + 1
      /\ Tail(sysex) \in Seq(Replies)
  BY <1>1, HeadTailProperties, ReplyTyped DEF Handle, TypeOK
<1>3. sysex # <<>>
  BY DEF Handle
<1>4. HelloDue \in Nat
  BY DEF HelloDue
<1> HIDE DEF m
<1>5. Quiet(Tail(sysex)) => LinkTyped'
  BY <1>1, <1>2 DEF Quiet, LinkTyped, TypeOK
<1>6. SUFFICES
        /\ state' \in {"searching", "absent", "present", "lost"}
        /\ round' \subseteq Items /\ LinkTyped'
        /\ helloAge' \in 0..HelloDue /\ searchAge' \in 0..SearchFor
        /\ reads' \subseteq Reads /\ ReadsOfThisRound'
        /\ state' # "present" => /\ inflight' = None /\ round' = {} /\ reads' = {}
                                /\ unanswered' = 0
        /\ \/ unanswered' = 0 /\ inflight' \in InFlight \union {None}
           \/ /\ unanswered' = 1 /\ inflight' \in InFlight /\ state' = "present"
              /\ inflight'.age <= m.age
  <2>1. replyAge' \in 0..LostAfter + 1
    BY <1>2 DEF Handle, m
  <2>2. TypeOK'
    BY <1>1, <1>6, <2>1 DEF Handle, TypeOK, LinkTyped
  <2>3. state' = "present" => replyAge' = m.age
    BY DEF Handle, m
  <2>4. SilenceBound' /\ Silence'
    BY <1>6, <2>2, <2>3, Heard
  <2> QED BY <1>6, <2>2, <2>4 DEF IInv
<1>7. CASE Refused(m)
  <2>1. CASE MineOf(m, "peek")
    <3>1. state = "present"
      BY <1>1, <2>1 DEF MineOf, Mine, TypeOK
    <3>2. Without(inflight.req.item.watch) \in SUBSET Items
      BY <1>1 DEF Without, TypeOK
    <3>3. NextPeek(Without(inflight.req.item.watch))
      BY <1>7, <2>1 DEF Refused
    <3> QED BY <1>1, <1>3, <1>7, <3>1, <3>2, <3>3, NextPeekTyped
            DEF m, Refused, TypeOK, ReadsOfThisRound
  <2>2. CASE ~MineOf(m, "peek")
    BY <1>1, <1>5, <1>7, <2>2 DEF Refused, TypeOK, ReadsOfThisRound
  <2> QED BY <2>1, <2>2
<1>8. CASE Greeted(m)
  BY <1>1, <1>4, <1>5, <1>8 DEF Greeted, Forget, TypeOK, ReadsOfThisRound
<1>9. CASE Reading(m)
  <2>1. NextPeek(WholeRound) /\ WholeRound \in SUBSET Items
    BY <1>1, <1>9, WholeRoundTyped DEF Reading
  <2>2. reads' = {} /\ state' = "present" /\ UNCHANGED <<helloAge, searchAge>>
    BY <1>9 DEF Reading, NewReads
  <2> QED BY <1>1, <1>3, <2>1, <2>2, NextPeekTyped DEF m, TypeOK, ReadsOfThisRound
<1>10. CASE Peeked(m)
  <2> DEFINE it == inflight.req.item
  <2>1. /\ state = "present" /\ inflight # None /\ inflight.req.kind = "peek" /\ m.req.last
        /\ UNCHANGED <<state, helloAge, searchAge>>
    BY <1>10 DEF Peeked, TakenOf, MineOf, Mine
  <2>2. inflight \in InFlight /\ inflight.req \in Requests /\ it \in Items
    BY <1>1, <2>1 DEF TypeOK, InFlight, Requests
  <2>3. reads' \subseteq Reads /\ ReadsOfThisRound'
    <3>1. CASE UNCHANGED reads
      BY <1>1, <3>1 DEF TypeOK, ReadsOfThisRound
    <3>2. CASE it.watch # None /\ reads' = {r \in reads : r.item # it}
                                            \union {[item |-> it, now |-> m.req.last]}
      <4>1. m.req.last = TRUE
        BY <1>2, <2>1 DEF Requests
      <4>2. it \in Items
        BY <2>2
      <4>3. [item |-> it, now |-> m.req.last] \in Reads
        BY <4>1, <4>2 DEF Reads
      <4> QED BY <1>1, <3>2, <4>1, <4>3 DEF TypeOK, ReadsOfThisRound
    <3> QED BY <1>10, <3>1, <3>2 DEF Peeked
  <2>4. PICK r \in {round, Without(it.watch)} : NextPeek(r)
    BY <1>10 DEF Peeked
  <2>5. r \in SUBSET Items
    BY <1>1 DEF Without, TypeOK
  <2> QED BY <1>1, <1>3, <2>1, <2>3, <2>4, <2>5, NextPeekTyped DEF m, TypeOK
<1>11. CASE Noted(m)
  <2>1. inflight' \in {None, inflight} /\ (state # "present" => inflight' = None)
    BY <1>1, <1>11 DEF Noted, TypeOK
  <2> QED BY <1>1, <1>5, <1>11, <2>1 DEF Noted, TypeOK, ReadsOfThisRound
<1> QED BY <1>7, <1>8, <1>9, <1>10, <1>11 DEF Handle, m

(* The other steps leave the requests and the readings alone.              *)
LEMMA SameCount ==
  ASSUME IInv, UNCHANGED <<state, inflight, round, reads, watches, ages, unanswered>>,
         /\ port' \in BOOLEAN /\ pump' \in BOOLEAN /\ reopening' \in {"no", "closed", "opened"} /\ LinkTyped'
         /\ probe' \in BOOLEAN /\ deaf' \in BOOLEAN
         /\ faults' \in 0..MaxFaults /\ presses' \in 0..MaxPresses
  PROVE  IInv'
<1>1. TypeOK'
  BY DEF IInv, TypeOK, LinkTyped, ages
<1>2. (ReadsOfThisRound /\ SilenceBound /\ Silence)'
  BY DEF IInv, ReadsOfThisRound, SilenceBound, Silence, ages
<1> QED BY <1>1, <1>2 DEF IInv

LEMMA ServiceInv == ASSUME IInv, Service PROVE IInv'
<1>1. LinkTyped'
  BY DEF IInv, TypeOK, Service, LinkTyped, dev
<1> QED BY <1>1, SameCount DEF IInv, TypeOK, Service, poller, dev

LEMMA CloseInv == ASSUME IInv, Close PROVE IInv'
<1>1. LinkTyped'
  BY DEF IInv, TypeOK, Close, LinkTyped, dev
<1>2. port' \in BOOLEAN
  BY DEF Close
<1>3. reopening' \in {"no", "closed", "opened"} /\ presses' \in 0..MaxPresses
  BY DEF IInv, TypeOK, Close
<1> QED BY <1>1, <1>2, <1>3, SameCount DEF IInv, TypeOK, Close, poller, dev

LEMMA OpenInv == ASSUME IInv, NEW works \in BOOLEAN, Open(works) PROVE IInv'
<1>1. LinkTyped'
  BY DEF IInv, TypeOK, Open, LinkTyped
<1>2. port' \in BOOLEAN /\ deaf' \in BOOLEAN
  BY DEF Open
<1> QED BY <1>1, <1>2, SameCount DEF IInv, TypeOK, Open, poller

LEMMA RestartInv == ASSUME IInv, Restart PROVE IInv'
<1>1. HelloDue \in Nat
  BY DEF HelloDue
<1>2. TypeOK'
  BY <1>1 DEF IInv, TypeOK, Restart, Forget, dev
<1>3. (ReadsOfThisRound /\ SilenceBound /\ Silence)'
  BY OneMore DEF Restart, Forget, ReadsOfThisRound, SilenceBound, Silence
<1> QED BY <1>2, <1>3 DEF IInv

LEMMA SetWatchesInv == ASSUME IInv, NEW w \in Watch, SetWatches(w) PROVE IInv'
<1>1. TypeOK'
  BY DEF IInv, TypeOK, SetWatches, ages, link, dev
<1>2. (ReadsOfThisRound /\ SilenceBound /\ Silence)'
  BY DEF IInv, ReadsOfThisRound, SilenceBound, Silence, SetWatches, ages
<1> QED BY <1>1, <1>2 DEF IInv

(* An answer arrives, or the port does not hear it.                        *)
LEMMA ArriveTyped ==
  ASSUME TypeOK, NEW q \in Requests, NEW how \in {"ok", "refused", "bad", "short"}, Arrive(q, how)
  PROVE  done' \in Seq(Replies)
<1>1. [req |-> q, how |-> how, age |-> 0] \in Replies
  BY DEF Replies
<1> QED BY <1>1 DEF Arrive, TypeOK

LEMMA ServeInv == ASSUME IInv, Serve PROVE IInv'
<1>1. TypeOK
  BY DEF IInv
<1>2. Head(usb) \in Requests /\ Tail(usb) \in Seq(Requests)
  BY <1>1, HeadTailProperties DEF Serve, TypeOK
<1>3. done' \in Seq(Replies)
  BY <1>1, <1>2, ArriveTyped DEF Serve, TypeOK
<1>4. LinkTyped'
  BY <1>1, <1>2, <1>3 DEF Serve, LinkTyped, TypeOK
<1> QED BY <1>1, <1>4, SameCount DEF Serve, TypeOK, poller

LEMMA GarbleInv == ASSUME IInv, Garble PROVE IInv'
<1>1. TypeOK
  BY DEF IInv
<1>2. Head(usb) \in Requests /\ Tail(usb) \in Seq(Requests)
  BY <1>1, HeadTailProperties DEF Garble, TypeOK
<1>3. done' \in Seq(Replies)
  BY <1>1, <1>2, ArriveTyped DEF Garble, TypeOK
<1>4. LinkTyped'
  BY <1>1, <1>2, <1>3 DEF Garble, LinkTyped, TypeOK
<1> QED BY <1>1, <1>4, SameCount DEF Garble, TypeOK, poller

LEMMA FreezeInv == ASSUME IInv, Freeze PROVE IInv'
<1>1. LinkTyped'
  BY DEF IInv, TypeOK, Freeze, LinkTyped, link
<1>2. probe' \in BOOLEAN
  BY DEF IInv, TypeOK, Freeze
<1> QED BY <1>1, <1>2, SameCount DEF IInv, TypeOK, Freeze, poller, link

LEMMA FlashInv == ASSUME IInv, NEW with \in BOOLEAN, Flash(with) PROVE IInv'
<1>1. LinkTyped'
  BY DEF IInv, TypeOK, Flash, LinkTyped, link
<1>2. probe' \in BOOLEAN /\ deaf' \in BOOLEAN
  BY DEF Flash
<1> QED BY <1>1, <1>2, SameCount DEF IInv, TypeOK, Flash, poller, link

LEMMA TickInv == ASSUME IInv, Tick PROVE IInv'
<1>1. TypeOK
  BY DEF IInv
<1>2. HelloDue \in Nat
  BY DEF HelloDue
<1>3. LinkTyped'
  BY <1>1, AgedTyped DEF Tick, dev, LinkTyped, TypeOK
<1>4. /\ replyAge' \in 0..LostAfter + 1 /\ helloAge' \in 0..HelloDue
      /\ searchAge' \in 0..SearchFor
      /\ state = "present" =>
           replyAge' = IF replyAge < LostAfter + 1 THEN replyAge + 1 ELSE LostAfter + 1
  <2>1. /\ replyAge \in 0..LostAfter + 1 /\ helloAge \in 0..HelloDue
        /\ searchAge \in 0..SearchFor
    BY <1>1 DEF TypeOK
  <2>2. /\ Up(replyAge, LostAfter + 1) \in 0..LostAfter + 1
        /\ Up(replyAge, LostAfter + 1)
             = IF replyAge < LostAfter + 1 THEN replyAge + 1 ELSE LostAfter + 1
    BY <2>1, UpTyped
  <2>3. Up(helloAge, HelloDue) \in 0..HelloDue
    BY <1>2, <2>1, UpTyped
  <2>4. Up(searchAge, SearchFor) \in 0..SearchFor
    BY <2>1, UpTyped
  <2> QED BY <2>1, <2>2, <2>3, <2>4 DEF Tick
<1>5. /\ inflight' = None <=> inflight = None
      /\ inflight' \in InFlight \union {None}
      /\ inflight # None => inflight'.age <= inflight.age + 1
  <2>1. CASE inflight = None
    BY <2>1 DEF Tick
  <2>2. CASE inflight # None
    <3>1. inflight \in InFlight /\ inflight.age \in 0..GiveUp + 1
      BY <1>1, <2>2 DEF TypeOK, InFlight
    <3>2. /\ Up(inflight.age, GiveUp + 1) \in 0..GiveUp + 1
          /\ Up(inflight.age, GiveUp + 1) <= inflight.age + 1
      BY <3>1, UpTyped
    <3>3. inflight' = [inflight EXCEPT !.age = Up(inflight.age, GiveUp + 1)]
      BY <2>2 DEF Tick
    <3>4. inflight' \in InFlight /\ inflight'.age = Up(inflight.age, GiveUp + 1)
      BY <3>1, <3>2, <3>3 DEF InFlight
    <3> QED BY <2>2, <3>2, <3>4
  <2> QED BY <2>1, <2>2
<1>6. TypeOK'
  BY <1>1, <1>3, <1>4, <1>5 DEF Tick, dev, TypeOK, LinkTyped
<1>7. UNCHANGED <<state, reads, unanswered>>
  BY DEF Tick
<1>8. (ReadsOfThisRound /\ SilenceBound)'
  BY <1>7 DEF IInv, ReadsOfThisRound, SilenceBound
<1>9. Silence'
  <2>1. unanswered * (GiveUp + 1) \in Nat
    BY <1>1, OneMore DEF TypeOK
  <2>2. inflight # None => inflight.age \in Nat /\ inflight'.age \in Nat
    BY <1>1, <1>5 DEF TypeOK, InFlight
  <2>3. state = "present" => /\ replyAge \in Nat
                             /\ replyAge' <= LostAfter => replyAge' = replyAge + 1
    BY <1>1, <1>4 DEF TypeOK
  <2>4. CASE state = "present" /\ replyAge' <= LostAfter
    <3>1. CASE inflight = None
      <4>1. unanswered' * (GiveUp + 1) <= replyAge'
        BY <1>7, <2>1, <2>3, <2>4, <3>1 DEF IInv, Silence
      <4> QED BY <1>5, <1>7, <2>4, <3>1, <4>1 DEF Silence
    <3>2. CASE inflight # None
      <4>1. unanswered' * (GiveUp + 1) + inflight'.age <= replyAge' + GiveUp + 1
        BY <1>5, <1>7, <2>1, <2>2, <2>3, <2>4, <3>2 DEF IInv, Silence
      <4> QED BY <1>5, <1>7, <2>4, <3>2, <4>1 DEF Silence
    <3> QED BY <3>1, <3>2
  <2>5. CASE ~(state = "present" /\ replyAge' <= LostAfter)
    BY <1>7, <2>5 DEF IInv, Silence
  <2> QED BY <2>4, <2>5
<1> QED BY <1>6, <1>8, <1>9 DEF IInv

LEMMA StepInv == ASSUME IInv, [Next]_vars PROVE IInv'
<1>1. CASE Threads
  BY <1>1, LoseInv, PollInv, SearchInv, HandleInv, ServiceInv DEF Threads
<1>2. CASE Http
  BY <1>2, CloseInv, OpenInv, RestartInv, SetWatchesInv DEF Http
<1>3. CASE Device
  BY <1>3, ServeInv, GarbleInv, FreezeInv, FlashInv DEF Device
<1>4. CASE Tick
  BY <1>4, TickInv
<1>5. CASE UNCHANGED vars
  <2>1. LinkTyped'
    BY <1>5 DEF IInv, TypeOK, LinkTyped, vars, link, dev
  <2> QED BY <1>5, <2>1, SameCount DEF IInv, TypeOK, vars, poller, link, dev
<1> QED BY <1>1, <1>2, <1>3, <1>4, <1>5 DEF Next

LEMMA SpecInv == Spec => []IInv
  BY InitInv, StepInv, PTL DEF Spec

-----------------------------------------------------------------------------
(* Whatever the delays, bounds and watches, every variable keeps its type, *)
(* and a poller that is not talking to a probe waits for nothing.          *)
THEOREM PollTyped == Spec => []TypeOK
<1>1. IInv => TypeOK
  BY DEF IInv
<1> QED BY <1>1, SpecInv, PTL

(* Whatever the delays, no watch is made up of two rounds.                 *)
THEOREM WatchesAreOfOneRound == Spec => []ReadsOfThisRound
<1>1. IInv => ReadsOfThisRound
  BY DEF IInv
<1> QED BY <1>1, SpecInv, PTL

(* Whatever GIVE_UP and LOST_AFTER, a silent probe is asked no more often  *)
(* than one fits in the other, and once more.                              *)
THEOREM SilentProbeIsLost == Spec => []SilenceBound
<1>1. IInv => SilenceBound
  BY DEF IInv
<1> QED BY <1>1, SpecInv, PTL
=============================================================================
