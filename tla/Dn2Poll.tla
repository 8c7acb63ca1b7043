------------------------------ MODULE Dn2Poll ------------------------------
(***************************************************************************)
(* The USB probe's host: the conversation with the probe (tools/dn2poll.py)*)
(* and the port that carries it (tools/dn2port.py, Holder and pump of      *)
(* tools/dn2live.py).                                                      *)
(*                                                                         *)
(* Four threads of one process: winmm's callback appends what arrives, the *)
(* pump re-posts its buffers and hands each SysEx to on_sysex, the poll    *)
(* thread steps, an HTTP thread reopens the port or changes the watches.   *)
(* step, on_sysex and set_watches hold the poller's lock, so each is one   *)
(* action; a reopen takes three, and the others run between them.          *)
(*                                                                         *)
(* Abstractions: time is in ticks, kept as ages that stop one past the     *)
(* last value the code compares them with; the period between two STATS is *)
(* below a tick, so one may or may not have passed; an age is kept while   *)
(* the state that reads it lasts, and 0 before; a watch is its number      *)
(* of spans, and a round's PEEKs are a set, sent in any order; a reading   *)
(* is whether it was asked in this round.  The sequence number is whether  *)
(* a message belongs to the latest request: 2^16 of them tell apart all    *)
(* that is under way, and of an older one the code reads its kind only.    *)
(* What the readings say is left out; an answer too short to decode is of  *)
(* a PEEK (a STATS cut in its last word ends the pump in the same way).    *)
(***************************************************************************)
EXTENDS Naturals, Sequences, FiniteSets

CONSTANTS Watch,        (* the watches the page may add, by name             *)
          Spans,        (* [Watch -> the PEEKs one takes]                    *)
          Lfo4,         (* a profiling build: its timers are read too        *)
          None,
          GiveUp, LostAfter, SearchEvery, SearchFor, AbsentEvery,
                        (* the code's GIVE_UP, LOST_AFTER, ..., in ticks     *)
          MaxQueue,     (* bound: messages between the poller and the probe  *)
          MaxFaults,    (* bound: flashes, freezes and lost answers          *)
          MaxPresses    (* bound: reopens and changes of the watches         *)

ASSUME PollAssumption ==
  /\ Spans \in [Watch -> Nat \ {0}] /\ Lfo4 \in BOOLEAN
  /\ GiveUp \in Nat /\ LostAfter \in Nat /\ SearchEvery \in Nat
  /\ SearchFor \in Nat /\ AbsentEvery \in Nat
  /\ GiveUp <= LostAfter
  /\ MaxQueue \in Nat /\ MaxFaults \in Nat /\ MaxPresses \in Nat

VARIABLES
  (* the poller, under its lock *)
  state,      (* "searching", "absent", "present" or "lost"                  *)
  inflight,   (* the request waited for, with its age, or None               *)
  round,      (* the PEEKs still to send after this STATS                    *)
  reads,      (* the spans read so far this round                            *)
  watches,    (* what is read after each STATS                               *)
  replyAge,   (* ticks since the last reply arrived                          *)
  helloAge,   (* ticks since the last HELLO                                  *)
  searchAge,  (* ticks since the search began                                *)
  (* the port *)
  port,       (* the holder has one open                                     *)
  pump,       (* its thread runs                                             *)
  reopening,  (* the HTTP thread's reopen: "no", "closed" or "opened"        *)
  done,       (* what the callback appended, with its age                    *)
  sysex,      (* the messages the pump has taken and not handled             *)
  (* the instrument *)
  probe,      (* it runs firmware with a probe that answers                  *)
  deaf,       (* it re-enumerated since the port was opened                  *)
  usb,        (* the requests it has not handled                             *)
  (* bounds and history *)
  faults, presses,
  unanswered  (* history: requests since the last reply was handled          *)

ages   == <<replyAge, helloAge, searchAge>>
poller == <<state, inflight, round, reads, watches, ages, unanswered>>
dev    == <<probe, deaf, usb, faults>>
link   == <<port, pump, reopening, done, sysex>>
vars   == <<poller, link, dev, presses>>

Timers    == [watch |-> None, span |-> 1]           (* lfo4's timers, one PEEK *)
ItemsOf(w) == {[watch |-> w, span |-> i] : i \in 1..Spans[w]}
Items    == (UNION {ItemsOf(w) : w \in Watch}) \union {Timers}
HelloDue == IF SearchEvery > AbsentEvery THEN SearchEvery ELSE AbsentEvery

Requests == [kind : {"hello", "stats", "peek"}, item : Items \union {None}, last : BOOLEAN]
InFlight == [req : {q \in Requests : q.kind = "peek" => q.item \in Items}, age : 0..GiveUp + 1]
Replies  == [req : Requests, how : {"ok", "refused", "bad", "short"}, age : 0..LostAfter + 1]
Reads    == [item : Items, now : BOOLEAN]

ASSUME NoneAssumption == None \notin InFlight

Up(age, top)  == IF age < top THEN age + 1 ELSE age
Aged(m)       == IF m.age <= GiveUp THEN m.age ELSE GiveUp + 1

-----------------------------------------------------------------------------
(* Out: _ask sends a request, the latest from now on, which is lost        *)
(* without a word on a port that is closed (an OSError, published) or      *)
(* deaf.  rest is what the pump still holds.                               *)

Older(q) == [kind |-> q.kind, item |-> None, last |-> FALSE]

Traffic == Len(usb) + Len(done) + Len(sysex)

Request(kind, item) == [kind |-> kind, item |-> item, last |-> TRUE]

OlderReplies(s) == [i \in DOMAIN s |-> [s[i] EXCEPT !.req = Older(@)]]

Ask(q, rest) ==
  LET older == [i \in DOMAIN usb |-> Older(usb[i])] IN
  /\ usb'  = IF port /\ ~deaf /\ Traffic < MaxQueue THEN Append(older, q) ELSE older
  /\ done' = OlderReplies(done) /\ sysex' = OlderReplies(rest)

Quiet(rest) == sysex' = rest /\ UNCHANGED <<usb, done>>

Forget_Request ==            (* mutant: the request under way is not forgotten *)
  /\ inflight' = inflight /\ round' = {} /\ reads' = {} /\ unanswered' = 0
  /\ searchAge' = 0 /\ helloAge' = HelloDue

(* _forget, but for last_reply.                                            *)
Forget ==
  /\ inflight' = None /\ round' = {} /\ reads' = {} /\ unanswered' = 0
  /\ searchAge' = 0 /\ helloAge' = HelloDue

(* The poll thread: step.  A probe that has been silent is lost, ...       *)
Lose ==
  /\ state = "present" /\ replyAge > LostAfter
  /\ Forget /\ state' = "lost" /\ replyAge' = 0
  /\ UNCHANGED <<watches, link, dev, presses>>

GivenUp == inflight # None /\ inflight.age > GiveUp

Poll_Anyway ==            (* mutant: the next STATS does not wait for an answer *)
  /\ state = "present" /\ replyAge <= LostAfter
  /\ Ask(Request("stats", None), sysex)
  /\ inflight' = [req |-> Request("stats", None), age |-> 0]
  /\ unanswered' = unanswered + 1
  /\ IF GivenUp THEN round' = {} /\ reads' = {} ELSE UNCHANGED <<round, reads>>
  /\ UNCHANGED <<state, watches, ages, port, pump, reopening, probe, deaf, faults, presses>>

(* ... a request unanswered too long is given up with its round, and a     *)
(* STATS goes out once none is waited for and the period has passed.       *)
Poll ==
  /\ state = "present" /\ replyAge <= LostAfter
  /\ GivenUp \/ inflight = None
  /\ \/ /\ Ask(Request("stats", None), sysex)
        /\ inflight' = [req |-> Request("stats", None), age |-> 0]
        /\ unanswered' = unanswered + 1
     \/ /\ GivenUp /\ inflight' = None /\ Quiet(sysex) /\ UNCHANGED unanswered
  /\ IF GivenUp THEN round' = {} /\ reads' = {} ELSE UNCHANGED <<round, reads>>
  /\ UNCHANGED <<state, watches, ages, port, pump, reopening, probe, deaf, faults, presses>>

(* Looking for it: the search ends, and HELLO goes out at its rate.        *)
Ended_Lost == state = "lost" /\ searchAge >= SearchFor    (* mutant: the first search never ends *)
Ended == state \in {"searching", "lost"} /\ searchAge >= SearchFor
Looking == IF Ended THEN "absent" ELSE state
Every_Never == IF Looking = "absent" THEN HelloDue + 1 ELSE SearchEvery  (* mutant: absent gives up *)
Every == IF Looking = "absent" THEN AbsentEvery ELSE SearchEvery

Search ==
  /\ state # "present"
  /\ Ended \/ helloAge >= Every
  /\ state' = Looking
  /\ IF helloAge >= Every THEN helloAge' = 0 /\ Ask(Request("hello", None), sysex)
     ELSE Quiet(sysex) /\ UNCHANGED helloAge
  /\ UNCHANGED <<inflight, round, reads, watches, replyAge, searchAge, unanswered,
                 port, pump, reopening, probe, deaf, faults, presses>>

-----------------------------------------------------------------------------
(* In: on_sysex, on the pump's thread, whose now is when the message       *)
(* arrived.  The next PEEK of round r goes out, if there is one, now that  *)
(* none is waited for; it counts as sent when the message arrived.         *)

NextPeek(r) ==
  \/ /\ r = {} /\ round' = {} /\ inflight' = None /\ unanswered' = 0 /\ Quiet(Tail(sysex))
  \/ \E it \in r :
       /\ round' = r \ {it}
       /\ Ask(Request("peek", it), Tail(sysex))
       /\ inflight' = [req |-> Request("peek", it), age |-> Aged(Head(sysex))]
       /\ unanswered' = 1

Mine(m)     == inflight # None /\ m.req.last
MineOf(m, kind) == Mine(m) /\ inflight.req.kind = kind
WholeRound  == (UNION {ItemsOf(w) : w \in watches}) \union (IF Lfo4 THEN {Timers} ELSE {})
Without(w)  == IF w = None THEN round ELSE round \ ItemsOf(w)

(* Refused: the next goes out at once; a watch that lost a span is not     *)
(* read on in this round.                                                  *)
Refused(m) ==
  /\ m.how = "refused"
  /\ IF MineOf(m, "peek") THEN NextPeek(Without(inflight.req.item.watch))
     ELSE /\ inflight' = IF Mine(m) THEN None ELSE inflight
          /\ unanswered' = 0 /\ Quiet(Tail(sysex)) /\ UNCHANGED round
  /\ UNCHANGED <<state, reads, helloAge, searchAge>>

(* HELLO: the probe is there.  While it is present, nothing new.           *)
Greeted(m) ==
  /\ m.req.kind = "hello" /\ m.how = "ok" /\ state # "present"
  /\ Forget /\ state' = "present"
  /\ Quiet(Tail(sysex))

(* STATS: a reading, whoever asked for it; with no request waited for, its *)
(* round begins.                                                           *)
StillWaiting(m) == inflight # None /\ ~MineOf(m, "stats")
NewReads_Kept == reads               (* mutant: the last round's spans stay *)
NewReads == {}

Reading(m) ==
  /\ m.req.kind = "stats" /\ m.how = "ok" /\ state = "present" /\ ~StillWaiting(m)
  /\ reads' = {[r EXCEPT !.now = FALSE] : r \in NewReads}
  /\ NextPeek(WholeRound)
  /\ UNCHANGED <<state, helloAge, searchAge>>

(* PEEK: only the answer that is waited for counts.  One that came back    *)
(* from elsewhere ends its watch's round, an unreadable one is skipped.    *)
(* One too short for an address raises what nobody catches: the next PEEK  *)
(* still goes out, and the pump's thread ends.                             *)
TakenOf(m) == m.req.kind = "peek" /\ state = "present" /\ MineOf(m, "peek")

Peeked(m) ==
  /\ m.how # "refused" /\ TakenOf(m)
  /\ LET it == inflight.req.item IN
       /\ IF m.how = "ok" /\ it.watch # None
          THEN reads' = {r \in reads : r.item # it} \union {[item |-> it, now |-> m.req.last]}
          ELSE UNCHANGED reads
       /\ \/ NextPeek(round)
          \/ m.how = "bad" /\ NextPeek(Without(it.watch))
  /\ UNCHANGED <<state, helloAge, searchAge>>

Ends(m) == m.how = "short" /\ TakenOf(m)

(* Anything else only says that the probe is alive.                        *)
Noted(m) ==
  /\ m.how # "refused"
  /\ CASE m.req.kind = "hello" -> m.how = "bad" \/ state = "present"
       [] m.req.kind = "stats" -> m.how = "bad" \/ state # "present" \/ StillWaiting(m)
       [] m.req.kind = "peek"  -> ~TakenOf(m)
  /\ inflight' = IF state = "present" /\ m.req.kind = "stats" /\ MineOf(m, "stats")
                 THEN None ELSE inflight
  /\ unanswered' = 0 /\ Quiet(Tail(sysex))
  /\ UNCHANGED <<state, round, reads, helloAge, searchAge>>

Handle ==
  /\ pump /\ sysex # <<>>
  /\ \/ Refused(Head(sysex)) \/ Greeted(Head(sysex)) \/ Reading(Head(sysex))
     \/ Peeked(Head(sysex))  \/ Noted(Head(sysex))
  /\ pump' = ~Ends(Head(sysex))
  /\ replyAge' = IF state' = "present" THEN Head(sysex).age ELSE 0
  /\ UNCHANGED <<watches, port, reopening, probe, deaf, faults, presses>>

(* The pump takes what the callback finished, from the port it holds.      *)
Service ==
  /\ pump /\ port /\ sysex = <<>> /\ done # <<>>
  /\ sysex' = done /\ done' = <<>>
  /\ UNCHANGED <<poller, port, pump, reopening, dev, presses>>

-----------------------------------------------------------------------------
(* The page's buttons: Reopen port (Holder.reopen, then restart), and the  *)
(* watches.                                                                *)

Close ==
  /\ reopening = "no" /\ presses < MaxPresses
  /\ reopening' = "closed" /\ presses' = presses + 1
  /\ port' = FALSE /\ done' = <<>>
  /\ UNCHANGED <<poller, pump, sysex, dev>>

Open(works) ==
  /\ reopening = "closed"
  /\ reopening' = "opened" /\ port' = works /\ deaf' = (deaf /\ ~works)
  /\ UNCHANGED <<poller, pump, done, sysex, probe, usb, faults, presses>>

Restart ==
  /\ reopening = "opened"
  /\ reopening' = "no"
  /\ Forget /\ state' = "searching" /\ replyAge' = 0
  /\ UNCHANGED <<watches, port, pump, done, sysex, dev, presses>>

SetWatches(w) ==
  /\ presses < MaxPresses /\ presses' = presses + 1
  /\ watches' = IF w \in watches THEN watches \ {w} ELSE watches \union {w}
  /\ UNCHANGED <<state, inflight, round, reads, ages, unanswered, link, dev>>

-----------------------------------------------------------------------------
(* The instrument answers in order, or has no probe and ignores it.        *)

Arrive(q, how) ==
  done' = IF port /\ ~deaf THEN Append(done, [req |-> q, how |-> how, age |-> 0]) ELSE done

Serve ==
  /\ usb # <<>>
  /\ usb' = Tail(usb)
  /\ IF probe THEN \/ Arrive(Head(usb), "ok")
                   \/ Head(usb).kind # "hello" /\ Arrive(Head(usb), "refused")
     ELSE UNCHANGED done
  /\ UNCHANGED <<poller, port, pump, reopening, sysex, probe, deaf, faults, presses>>

(* An answer is lost, garbled or cut, the instrument freezes or thaws, or  *)
(* it is flashed: the requests are gone and the open handle hears nothing. *)
Garble ==
  /\ usb # <<>> /\ probe /\ faults < MaxFaults
  /\ usb' = Tail(usb) /\ faults' = faults + 1
  /\ \/ UNCHANGED done
     \/ Arrive(Head(usb), "bad")
     \/ Head(usb).kind = "peek" /\ Arrive(Head(usb), "short")
  /\ UNCHANGED <<poller, port, pump, reopening, sysex, probe, deaf, presses>>

Freeze ==
  /\ faults < MaxFaults /\ faults' = faults + 1
  /\ probe' = ~probe
  /\ UNCHANGED <<poller, link, deaf, usb, presses>>

Flash(with) ==
  /\ faults < MaxFaults /\ faults' = faults + 1
  /\ probe' = with /\ deaf' = TRUE /\ usb' = <<>>
  /\ UNCHANGED <<poller, link, presses>>

Tick ==
  /\ IF state = "present"
     THEN replyAge' = Up(replyAge, LostAfter + 1) /\ UNCHANGED <<helloAge, searchAge>>
     ELSE /\ helloAge' = Up(helloAge, HelloDue) /\ searchAge' = Up(searchAge, SearchFor)
          /\ UNCHANGED replyAge
  /\ inflight' = IF inflight = None THEN None
                 ELSE [inflight EXCEPT !.age = Up(@, GiveUp + 1)]
  /\ done'  = [i \in DOMAIN done  |-> [done[i]  EXCEPT !.age = Up(@, LostAfter + 1)]]
  /\ sysex' = [i \in DOMAIN sysex |-> [sysex[i] EXCEPT !.age = Up(@, LostAfter + 1)]]
  /\ UNCHANGED <<state, round, reads, watches, unanswered, port, pump, reopening, dev, presses>>

Init ==
  /\ state = "searching" /\ inflight = None /\ round = {} /\ reads = {}
  /\ watches \in SUBSET Watch
  /\ replyAge = 0 /\ helloAge = HelloDue /\ searchAge = 0 /\ unanswered = 0
  /\ port = TRUE /\ pump = TRUE /\ reopening = "no" /\ done = <<>> /\ sysex = <<>>
  /\ probe \in BOOLEAN /\ deaf = FALSE /\ usb = <<>> /\ faults = 0 /\ presses = 0

Threads == Lose \/ Poll \/ Search \/ Handle \/ Service
Http    == Close \/ (\E works \in BOOLEAN : Open(works)) \/ Restart \/ (\E w \in Watch : SetWatches(w))
Device  == Serve \/ Garble \/ Freeze \/ (\E with \in BOOLEAN : Flash(with))
Next    == Threads \/ Http \/ Device \/ Tick

Spec == Init /\ [][Next]_vars

(* The threads run, a reopen ends, the instrument gets to its requests and *)
(* time passes.  No button is pressed and no fault happens by itself.      *)
Fairness ==
  /\ WF_vars(Lose) /\ WF_vars(Poll) /\ WF_vars(Search) /\ WF_vars(Handle) /\ WF_vars(Service)
  /\ WF_vars(\E works \in BOOLEAN : Open(works)) /\ WF_vars(Restart)
  /\ WF_vars(Serve) /\ WF_vars(Tick)

FairSpec == Spec /\ Fairness

-----------------------------------------------------------------------------
(* Every variable has its type, and only a present probe is asked for      *)
(* readings (_forget, the guards of step and on_sysex).                    *)
TypeOK ==
  /\ state \in {"searching", "absent", "present", "lost"}
  /\ inflight \in InFlight \union {None}
  /\ round \subseteq Items
  /\ reads \subseteq Reads
  /\ watches \subseteq Watch
  /\ replyAge \in 0..LostAfter + 1 /\ helloAge \in 0..HelloDue /\ searchAge \in 0..SearchFor
  /\ port \in BOOLEAN /\ pump \in BOOLEAN /\ reopening \in {"no", "closed", "opened"}
  /\ done \in Seq(Replies) /\ sysex \in Seq(Replies) /\ usb \in Seq(Requests)
  /\ probe \in BOOLEAN /\ deaf \in BOOLEAN
  /\ faults \in 0..MaxFaults /\ presses \in 0..MaxPresses
  /\ unanswered \in Nat
  /\ state # "present" => inflight = None /\ round = {} /\ reads = {}

(* A watch is published from the spans of one round, read after the same   *)
(* STATS: an answer that comes late, a round that was given up and a watch *)
(* dropped or added in the middle never leave it half old (on_sysex's      *)
(* match of seq, and the resets of reads).                                 *)
ReadsOfThisRound == \A r \in reads : r.now

(* A probe that has gone silent is asked a few times more and no more: one *)
(* request for each GIVE_UP that fits in LOST_AFTER, and then it is lost,  *)
(* though the first of them counts from when the last answer arrived and   *)
(* may be given up the moment it is sent (step's two timeouts, pump's t).  *)
SilenceBound == unanswered * (GiveUp + 1) <= LostAfter + GiveUp + 1

(* A probe that can be reached is found, after any flashes, freezes, lost  *)
(* answers and reopens, whatever state they left the poller in (step,      *)
(* _hello, restart), as long as no short answer ends the pump.             *)
Reachable == probe /\ port /\ ~deaf /\ reopening = "no"
IsFound   == <>[](Reachable /\ pump) => []<>(state = "present")

(* With no probe that can be heard, or no pump to hear it, the page ends   *)
(* up saying so, and stays there, though late answers may still be under   *)
(* way or lie taken and unhandled (step's timeouts).                       *)
SaysAbsent == <>[]~(probe /\ port /\ ~deaf /\ pump) => <>[](state = "absent")
=============================================================================
