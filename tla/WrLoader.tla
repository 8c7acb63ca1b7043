------------------------------ MODULE WrLoader ------------------------------
(***************************************************************************)
(* Waverider's table loader: the ColdFire's half (csrc/waverider/loader.c) *)
(* and the DSP's load command (sharc/load.asm), over the frame exchange.   *)
(*                                                                         *)
(* The UI task reads an extent's chunks into a queue; the audio ISR        *)
(* preempts it at every exchange and sends the oldest chunk in place of a  *)
(* frame, one at a time, until the DSP's answer accepts it.  The answer is *)
(* a word of the reply that stands until the next chunk, and the ISR reads *)
(* it Lag exchanges late.                                                  *)
(*                                                                         *)
(* Abstractions: chunk n is the number n, its sequence n % SeqSpan (seq    *)
(* and head step together), its place in the load area Cell(n), so that a  *)
(* later extent writes over an earlier one; a frame is whether it carries  *)
(* note events; what the wire does to a chunk's frame is one of Wire.      *)
(* head and tail are numbers: their wrap at 2^32 is out of the bound.      *)
(***************************************************************************)
EXTENDS Naturals, Sequences

CONSTANTS QueueLen,   (* QUEUE, 3                                          *)
          Timeout,    (* TIMEOUT, 24 exchanges                             *)
          GiveUp,     (* GIVE_UP, 8 timeouts in a row                      *)
          SeqSpan,    (* the sequences, 2^16                               *)
          Lag,        (* exchanges an answer takes to be read, 2 or 3      *)
          Cells,      (* places in the load area                           *)
          Wire,       (* what may happen to a chunk's frame                *)
          MaxExtent,  (* bound: an extent's chunks                         *)
          MaxChunks   (* bound: chunks loaded                              *)

ASSUME LoaderAssumption ==
  /\ QueueLen \in Nat \ {0} /\ Timeout \in Nat \ {0} /\ GiveUp \in Nat \ {0}
  /\ SeqSpan \in Nat \ {0, 1} /\ Lag \in Nat \ {0} /\ Cells \in Nat \ {0, 1}
  /\ Wire \subseteq {"ok", "bad", "lost"}
  /\ MaxExtent \in Nat /\ MaxChunks \in Nat

VARIABLES
  want,       (* chunks of the extent still to read (want_bytes, done_bytes) *)
  reading,    (* the UI task is filling the next slot                        *)
  queue,      (* [slots -> the chunk in it, 0 while it is filled]            *)
  head,       (* chunks queued, written by the UI task                       *)
  tail,       (* chunks accepted, written by the ISR                         *)
  inFlight,   (* exchanges since the chunk was sent, 0 for none              *)
  row,        (* timeouts in a row                                           *)
  failed,     (* the loader has stopped for good                             *)
  lastClear,  (* the last frame sent had no note events                      *)
  answer,     (* the DSP's reply word 6                                      *)
  replies,    (* the answers on their way; the first is the next read        *)
  area,       (* the load area: [places -> the chunk there, 0 for none]      *)
  whole,      (* history: the chunks that came whole at least once           *)
  copyClear,  (* the DSP's copy of the last frame has no note events         *)
  misheard    (* history: an event was lost or played twice for a chunk      *)

uiVars  == <<want, reading, head>>
dspVars == <<answer, area, whole, copyClear, misheard>>
vars == <<want, reading, queue, head, tail, inFlight, row, failed, lastClear,
          answer, replies, area, whole, copyClear, misheard>>

Seq16_Fixed(n) == 0                       (* mutant: seq is not stepped *)

Seq16(n) == n % SeqSpan
Slot(n)  == n % QueueLen
Cell(n)  == n % Cells
Garbage  == MaxChunks + 1                       (* a chunk whose sum failed *)
Answers  == [seq : 0..SeqSpan - 1, ok : BOOLEAN] \union {<<>>}

-----------------------------------------------------------------------------
(* The UI task (wr_load_extent, wr_load_poll).                             *)

Idle == failed \/ (want = 0 /\ ~reading /\ head = tail /\ inFlight = 0)

(* The pool asks for an extent once the last is accepted (pool.c).         *)
Ask(n) ==
  /\ Idle /\ ~failed
  /\ head + n <= MaxChunks
  /\ want' = n
  /\ UNCHANGED <<reading, queue, head, tail, inFlight, row, failed, lastClear,
                 replies, dspVars>>

Read_Full ==                                (* mutant: one chunk too many *)
  /\ ~failed /\ want > 0 /\ ~reading /\ head - tail <= QueueLen
  /\ reading' = TRUE
  /\ queue' = [queue EXCEPT ![Slot(head)] = 0]
  /\ UNCHANGED <<want, head, tail, inFlight, row, failed, lastClear, replies, dspVars>>

(* A free slot is read into, ...                                           *)
Read ==
  /\ ~failed /\ want > 0 /\ ~reading /\ head - tail < QueueLen
  /\ reading' = TRUE
  /\ queue' = [queue EXCEPT ![Slot(head)] = 0]
  /\ UNCHANGED <<want, head, tail, inFlight, row, failed, lastClear, replies, dspVars>>

(* ... and published last, ...                                             *)
Publish ==
  /\ reading
  /\ reading' = FALSE
  /\ queue' = [queue EXCEPT ![Slot(head)] = head + 1]
  /\ head' = head + 1
  /\ want' = want - 1
  /\ UNCHANGED <<tail, inFlight, row, failed, lastClear, replies, dspVars>>

(* ... or the +Drive's read fails, and the rest of the extent is given up. *)
ReadError ==
  /\ reading
  /\ reading' = FALSE
  /\ want' = 0
  /\ UNCHANGED <<queue, head, tail, inFlight, row, failed, lastClear, replies, dspVars>>

-----------------------------------------------------------------------------
(* The ISR (wr_frame_src): first the answer to the chunk in flight, ...    *)

Mine(ok)  == [seq |-> Seq16(queue[Slot(tail)]), ok |-> ok]
Accepted_Any == inFlight > 0 /\ Head(replies) # <<>>   (* mutant: the refusal's bit is dropped *)
                  /\ Head(replies).seq = Mine(TRUE).seq
Accepted  == inFlight > 0 /\ Head(replies) = Mine(TRUE)
Refused   == inFlight > 0 /\ Head(replies) = Mine(FALSE)
TimedOut  == inFlight = Timeout /\ ~Accepted /\ ~Refused
Oldest_Kept == tail                               (* mutant: no tail++ *)
Oldest    == IF Accepted THEN tail + 1 ELSE tail
Waiting   == inFlight > 0 /\ ~Accepted /\ ~Refused /\ ~TimedOut
Broken_Late == TimedOut /\ row + 1 > GiveUp     (* mutant: one too late *)
Broken    == TimedOut /\ row + 1 >= GiveUp

Sends_Now(clear) == /\ ~Waiting /\ Oldest # head /\ ~failed /\ ~Broken
                    /\ clear                   (* mutant: no last_clear *)

(* ... then a chunk, if this frame and the last one sent have no events.   *)
Sends(clear) == /\ ~Waiting /\ Oldest # head /\ ~failed /\ ~Broken
                /\ clear /\ lastClear

(* The DSP gets a chunk (wr_load): it writes it and then checks its sum.   *)
(* The block renders from the copy of the last frame.                      *)
Load(c, clear, wire) ==
  /\ area' = CASE wire = "ok"   -> [area EXCEPT ![Cell(c)] = c]
               [] wire = "bad"  -> [area EXCEPT ![Cell(c)] = Garbage]
               [] wire = "lost" -> area
  /\ whole' = IF wire = "ok" THEN whole \union {c} ELSE whole
  /\ answer' = IF wire = "lost" THEN answer
               ELSE [seq |-> Seq16(c), ok |-> wire = "ok"]
  /\ misheard' = (misheard \/ ~clear \/ ~copyClear)
  /\ UNCHANGED copyClear

Render(clear) ==
  /\ copyClear' = clear
  /\ UNCHANGED <<answer, area, whole, misheard>>

Exchange(clear, wire) ==
  /\ tail' = Oldest
  /\ row' = IF Accepted THEN 0 ELSE IF TimedOut THEN row + 1 ELSE row
  /\ failed' = (failed \/ Broken)
  /\ IF Sends(clear)
     THEN /\ inFlight' = 1
          /\ Load(queue[Slot(Oldest)], clear, wire)
          /\ UNCHANGED lastClear
     ELSE /\ inFlight' = IF Waiting THEN inFlight + 1 ELSE 0
          /\ lastClear' = clear
          /\ Render(clear)
  /\ replies' = Append(Tail(replies), answer')
  /\ UNCHANGED <<queue, uiVars>>

-----------------------------------------------------------------------------
Init ==
  /\ want = 0 /\ reading = FALSE
  /\ queue = [s \in 0..QueueLen - 1 |-> 0]
  /\ head = 0 /\ tail = 0 /\ inFlight = 0 /\ row = 0
  /\ failed = FALSE /\ lastClear = FALSE
  /\ answer = <<>> /\ replies = [k \in 1..Lag |-> <<>>]
  /\ area = [x \in 0..Cells - 1 |-> 0] /\ whole = {}
  /\ copyClear \in BOOLEAN /\ misheard = FALSE

Next ==
  \/ \E n \in 1..MaxExtent : Ask(n)
  \/ Read \/ Publish \/ ReadError
  \/ \E clear \in BOOLEAN, wire \in Wire : Exchange(clear, wire)

Spec == Init /\ [][Next]_vars

Sending == \E wire \in Wire : Sends(TRUE) /\ Exchange(TRUE, wire)

(* The UI task passes over and over, the exchange goes on 1500 times a     *)
(* second, and frames without note events, two in a row, come again and    *)
(* again: the masks are one-frame events (docs/drive-load-command.md).     *)
Fairness ==
  /\ WF_vars(Read) /\ WF_vars(Publish \/ ReadError)
  /\ WF_vars(\E clear \in BOOLEAN, wire \in Wire : Exchange(clear, wire))
  /\ SF_vars(\E wire \in Wire : Exchange(TRUE, wire))
  /\ SF_vars(Sending)
FairSpec == Spec /\ Fairness
-----------------------------------------------------------------------------
TypeOK ==
  /\ want \in Nat /\ reading \in BOOLEAN
  /\ queue \in [0..QueueLen - 1 -> Nat]
  /\ head \in Nat /\ tail \in Nat
  /\ inFlight \in 0..Timeout /\ row \in 0..GiveUp
  /\ failed \in BOOLEAN /\ lastClear \in BOOLEAN
  /\ answer \in Answers
  /\ replies \in Seq(Answers) /\ Len(replies) = Lag
  /\ area \in [0..Cells - 1 -> Nat] /\ whole \subseteq Nat
  /\ copyClear \in BOOLEAN /\ misheard \in BOOLEAN

-----------------------------------------------------------------------------
(* The UI task fills a slot while the ISR sends from another: every chunk  *)
(* published and not accepted is whole in its slot ("published last: the   *)
(* ISR sees a whole chunk").                                               *)
QueueWhole == /\ tail <= head /\ head - tail <= QueueLen
              /\ \A n \in tail + 1..head : queue[Slot(n - 1)] = n

(* An answer is never taken for another chunk's, nor a refusal for an      *)
(* acceptance: of every chunk accepted a copy came whole, the last in each *)
(* place was written there, in order, and at worst a refused copy of it    *)
(* after that (answers stand until the next chunk, are read late, and the  *)
(* sequences repeat).                                                      *)
AcceptedWasWritten ==
  /\ 1..tail \subseteq whole
  /\ \A n \in 1..tail : n + Cells > tail + 1 => area[Cell(n)] \in {n, Garbage}

(* The answers on their way are about the last chunk accepted and then the *)
(* one after it; one that accepts that chunk says that it came whole.      *)
About(n, a) == a # <<>> /\ n > 0 /\ a.seq = Seq16(n)
AnswersInOrder ==
  /\ replies[Lag] = answer
  /\ \A k \in 1..Lag : \/ replies[k] = <<>>
                       \/ About(tail, replies[k])
                       \/ About(tail + 1, replies[k]) /\ tail < head
  /\ \A k, l \in 1..Lag :
       k < l /\ About(tail + 1, replies[k]) => About(tail + 1, replies[l])
  /\ \A k \in 1..Lag : About(tail + 1, replies[k]) /\ replies[k].ok
                         => /\ tail + 1 \in whole
                            /\ area[Cell(tail + 1)] \in {tail + 1, Garbage}

(* A chunk in place of a frame loses no note event and repeats none: the   *)
(* frame it replaces has none, nor the one the DSP renders again.          *)
EventsHeardOnce == ~misheard

(* The inductive invariant adds that a chunk in flight is one in the queue *)
(* of a loader that goes on, that a slot being read into is free, and that *)
(* the DSP renders again the frame the ISR remembers.                      *)
FlightInv == /\ inFlight > 0 => tail < head /\ ~failed
             /\ ~failed => row < GiveUp
             /\ reading => want > 0 /\ head - tail < QueueLen
             /\ lastClear => copyClear
IInv == QueueWhole /\ AcceptedWasWritten /\ AnswersInOrder /\ EventsHeardOnce /\ FlightInv

(* The queue, the frames and the answers amount to chunks that come to     *)
(* their places one at a time and in order, each accepted only once a copy *)
(* of it came whole: what wr_load_extent promises pool.c, which sends      *)
(* tables, directory and magic in that order.                              *)
Delivery == INSTANCE LoadSpec WITH asked <- head, accepted <- tail, stored <- area,
                                   stopped <- failed
DeliversInOrder == Delivery!Spec

(* What is asked for is loaded, or the loader stops for good, if from some *)
(* moment on every chunk sent gets through: no answer, lost or stale,      *)
(* leaves it waiting.                                                      *)
Settles == <>[][Sending => Exchange(TRUE, "ok")]_vars => (~Idle ~> Idle)
=============================================================================
