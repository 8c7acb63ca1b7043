--------------------------- MODULE WrLoaderProofs ---------------------------
(***************************************************************************)
(* WrLoader, proved for any queue, timeout, lag, load area and wire.       *)
(*                                                                         *)
(* The answers on their way are about the last chunk accepted and then     *)
(* the one after it (AnswersInOrder): an answer read late is never taken   *)
(* for another chunk's, nor a refusal for an acceptance, so what is        *)
(* accepted came whole (AcceptedWasWritten).  The slots of the queue in    *)
(* use differ (QueueWhole), and the DSP's copy of the last frame is the    *)
(* one the ISR remembers (FlightInv).                                      *)
(***************************************************************************)
EXTENDS WrLoader, Integers, TLAPS

-----------------------------------------------------------------------------
(* Numbers less than N apart differ mod N.                                 *)
LEMMA ModDistinct ==
  ASSUME NEW N \in Nat \ {0}, NEW m \in Nat, NEW n \in Nat, n < m, m < n + N
  PROVE  m % N # n % N
<1> SUFFICES ASSUME m % N = n % N PROVE FALSE
  OBVIOUS
<1> DEFINE q == m \div N
           p == n \div N
<1>1. /\ m = N * q + (m % N) /\ q \in Int
      /\ n = N * p + (n % N) /\ p \in Int
  OBVIOUS
<1> HIDE DEF q, p
<1>2. m % N \in Nat
  OBVIOUS
<1>3. m - n = N * (q - p) /\ q - p \in Int
  BY <1>1, <1>2
<1>4. PICK d \in Int : m - n = N * d
  BY <1>3
<1>5. CASE d <= 0
  BY <1>4, <1>5
<1>6. CASE d >= 1
  BY <1>4, <1>6
<1> QED BY <1>5, <1>6

LEMMA ModType == ASSUME NEW N \in Nat \ {0}, NEW n \in Nat PROVE n % N \in 0..N - 1
OBVIOUS

LEMMA Places ==
  ASSUME NEW n \in Nat
  PROVE  /\ Seq16(n) \in 0..SeqSpan - 1 /\ Slot(n) \in 0..QueueLen - 1
         /\ Cell(n) \in 0..Cells - 1
         /\ Seq16(n) # Seq16(n + 1)
<1>1. /\ n % SeqSpan \in 0..SeqSpan - 1 /\ n % QueueLen \in 0..QueueLen - 1
      /\ n % Cells \in 0..Cells - 1
  BY ModType, LoaderAssumption
<1>2. n + 1 \in Nat /\ n < n + 1 /\ n + 1 < n + SeqSpan /\ SeqSpan \in Nat \ {0}
  BY LoaderAssumption
<1>3. (n + 1) % SeqSpan # n % SeqSpan
  BY <1>2, ModDistinct
<1> QED BY <1>1, <1>3 DEF Seq16, Slot, Cell

LEMMA SlotsDistinct ==
  ASSUME NEW m \in Nat, NEW n \in Nat, n < m, m < n + QueueLen
  PROVE  Slot(m) # Slot(n)
BY ModDistinct, LoaderAssumption DEF Slot

LEMMA CellsDistinct ==
  ASSUME NEW m \in Nat, NEW n \in Nat, n < m, m < n + Cells
  PROVE  Cell(m) # Cell(n)
BY ModDistinct, LoaderAssumption DEF Cell

-----------------------------------------------------------------------------
(* The UI task's steps.                                                    *)
LInv == TypeOK /\ IInv

(* They leave the ISR's and the DSP's state, and head never goes back.     *)
LEMMA UiKeeps ==
  ASSUME LInv, head' \in Nat, head <= head', head' - tail <= QueueLen,
         UNCHANGED <<tail, inFlight, row, failed, lastClear, replies, dspVars>>
  PROVE  /\ AcceptedWasWritten' /\ AnswersInOrder' /\ EventsHeardOnce'
         /\ inFlight' > 0 => tail' < head' /\ ~failed'
         /\ ~failed' => row' < GiveUp
         /\ lastClear' => copyClear'
<1>1. AcceptedWasWritten' /\ EventsHeardOnce'
  BY DEF LInv, IInv, dspVars, AcceptedWasWritten, EventsHeardOnce
<1>2. tail < head => tail < head'
  BY DEF LInv, TypeOK
<1>3. AnswersInOrder'
  BY <1>2 DEF LInv, IInv, dspVars, AnswersInOrder, About
<1> QED BY <1>1, <1>2, <1>3 DEF LInv, IInv, FlightInv, dspVars

LEMMA AskKeeps == ASSUME LInv, NEW n \in 1..MaxExtent, Ask(n) PROVE LInv'
<1>1. want' = n /\ n \in Nat
      /\ UNCHANGED <<reading, queue, head, tail, inFlight, row, failed, lastClear,
                     replies, dspVars>>
  BY DEF Ask
<1>2. ~reading
  BY DEF Ask, Idle
<1>3. TypeOK'
  BY <1>1 DEF LInv, TypeOK, dspVars
<1>4. QueueWhole'
  BY <1>1 DEF LInv, IInv, QueueWhole
<1>5. /\ AcceptedWasWritten' /\ AnswersInOrder' /\ EventsHeardOnce'
      /\ inFlight' > 0 => tail' < head' /\ ~failed'
      /\ ~failed' => row' < GiveUp
      /\ lastClear' => copyClear'
  BY <1>1, UiKeeps DEF LInv, TypeOK, IInv, QueueWhole
<1> QED BY <1>1, <1>2, <1>3, <1>4, <1>5 DEF LInv, IInv, FlightInv

LEMMA ReadKeeps == ASSUME LInv, Read PROVE LInv'
<1>1. /\ want > 0 /\ head - tail < QueueLen /\ reading' = TRUE
      /\ queue' = [queue EXCEPT ![Slot(head)] = 0]
      /\ UNCHANGED <<want, head, tail, inFlight, row, failed, lastClear, replies, dspVars>>
  BY DEF Read
<1>2. Slot(head) \in 0..QueueLen - 1
  BY Places DEF LInv, TypeOK
<1>3. TypeOK'
  BY <1>1, <1>2 DEF LInv, TypeOK, dspVars
<1>4. QueueWhole'
  <2> SUFFICES ASSUME NEW n \in tail + 1..head PROVE queue'[Slot(n - 1)] = n
    BY <1>1 DEF LInv, IInv, QueueWhole
  <2>1. n - 1 \in Nat /\ n - 1 < head /\ head < n - 1 + QueueLen
    BY <1>1, LoaderAssumption DEF LInv, TypeOK
  <2>2. Slot(head) # Slot(n - 1) /\ Slot(n - 1) \in 0..QueueLen - 1
    BY <2>1, SlotsDistinct, Places DEF LInv, TypeOK
  <2> QED BY <1>1, <2>2 DEF LInv, TypeOK, IInv, QueueWhole
<1>5. /\ AcceptedWasWritten' /\ AnswersInOrder' /\ EventsHeardOnce'
      /\ inFlight' > 0 => tail' < head' /\ ~failed'
      /\ ~failed' => row' < GiveUp
      /\ lastClear' => copyClear'
  BY <1>1, UiKeeps DEF LInv, TypeOK, IInv, QueueWhole
<1> QED BY <1>1, <1>3, <1>4, <1>5 DEF LInv, IInv, FlightInv

LEMMA PublishKeeps == ASSUME LInv, Publish PROVE LInv'
<1>1. /\ reading /\ reading' = FALSE /\ head' = head + 1 /\ want' = want - 1
      /\ queue' = [queue EXCEPT ![Slot(head)] = head + 1]
      /\ UNCHANGED <<tail, inFlight, row, failed, lastClear, replies, dspVars>>
  BY DEF Publish
<1>2. want > 0 /\ head - tail < QueueLen
  BY <1>1 DEF LInv, IInv, FlightInv
<1>3. Slot(head) \in 0..QueueLen - 1
  BY Places DEF LInv, TypeOK
<1>4. TypeOK'
  <2>1. want' \in Nat /\ head' \in Nat /\ head + 1 \in Nat
    BY <1>1, <1>2 DEF LInv, TypeOK
  <2>2. queue' \in [0..QueueLen - 1 -> Nat]
    BY <1>1, <1>3, <2>1 DEF LInv, TypeOK
  <2> QED BY <1>1, <2>1, <2>2 DEF LInv, TypeOK, dspVars
<1>5. QueueWhole'
  <2>1. tail' <= head' /\ head' - tail' <= QueueLen
    BY <1>1, <1>2, LoaderAssumption DEF LInv, TypeOK, IInv, QueueWhole
  <2> SUFFICES ASSUME NEW n \in tail + 1..head + 1 PROVE queue'[Slot(n - 1)] = n
    BY <1>1, <2>1 DEF QueueWhole
  <2>2. CASE n = head + 1
    BY <1>1, <1>3, <2>2 DEF LInv, TypeOK
  <2>3. CASE n # head + 1
    <3>1. n \in tail + 1..head /\ n - 1 \in Nat /\ n - 1 < head /\ head < n - 1 + QueueLen
      BY <1>2, <2>3, LoaderAssumption DEF LInv, TypeOK
    <3>2. Slot(head) # Slot(n - 1) /\ Slot(n - 1) \in 0..QueueLen - 1
      BY <3>1, SlotsDistinct, Places DEF LInv, TypeOK
    <3> QED BY <1>1, <3>1, <3>2 DEF LInv, TypeOK, IInv, QueueWhole
  <2> QED BY <2>2, <2>3
<1>6. /\ AcceptedWasWritten' /\ AnswersInOrder' /\ EventsHeardOnce'
      /\ inFlight' > 0 => tail' < head' /\ ~failed'
      /\ ~failed' => row' < GiveUp
      /\ lastClear' => copyClear'
  BY <1>1, <1>2, UiKeeps, LoaderAssumption DEF LInv, TypeOK, IInv, QueueWhole
<1> QED BY <1>1, <1>4, <1>5, <1>6 DEF LInv, IInv, FlightInv

LEMMA ReadErrorKeeps == ASSUME LInv, ReadError PROVE LInv'
<1>1. /\ reading' = FALSE /\ want' = 0
      /\ UNCHANGED <<queue, head, tail, inFlight, row, failed, lastClear, replies, dspVars>>
  BY DEF ReadError
<1>2. TypeOK'
  BY <1>1 DEF LInv, TypeOK, dspVars
<1>3. QueueWhole'
  BY <1>1 DEF LInv, IInv, QueueWhole
<1>4. /\ AcceptedWasWritten' /\ AnswersInOrder' /\ EventsHeardOnce'
      /\ inFlight' > 0 => tail' < head' /\ ~failed'
      /\ ~failed' => row' < GiveUp
      /\ lastClear' => copyClear'
  BY <1>1, UiKeeps DEF LInv, TypeOK, IInv, QueueWhole
<1> QED BY <1>1, <1>2, <1>3, <1>4 DEF LInv, IInv, FlightInv

-----------------------------------------------------------------------------
(* The exchange.                                                           *)

(* The chunk in flight, or the next, is tail + 1, whole in its slot; an    *)
(* answer that accepts it is about it, and so are all that follow.         *)
LEMMA InFlightChunk ==
  ASSUME LInv, tail < head
  PROVE  queue[Slot(tail)] = tail + 1 /\ \A ok : Mine(ok) = [seq |-> Seq16(tail + 1), ok |-> ok]
<1>1. tail + 1 \in tail + 1..head /\ (tail + 1) - 1 = tail
  BY DEF LInv, TypeOK
<1>2. queue[Slot((tail + 1) - 1)] = tail + 1
  BY <1>1 DEF LInv, IInv, QueueWhole
<1> QED BY <1>1, <1>2 DEF Mine

LEMMA AcceptedAnswers ==
  ASSUME LInv, Accepted
  PROVE  /\ tail < head /\ Oldest = tail + 1
         /\ About(tail + 1, replies[1]) /\ replies[1].ok
         /\ \A k \in 1..Lag : About(tail + 1, replies[k])
<1>1. tail < head
  BY DEF Accepted, LInv, IInv, FlightInv
<1>2. replies[1] = [seq |-> Seq16(tail + 1), ok |-> TRUE]
  <2>1. Head(replies) = replies[1]
    BY LoaderAssumption DEF LInv, TypeOK
  <2> QED BY <1>1, <2>1, InFlightChunk DEF Accepted
<1>3. About(tail + 1, replies[1]) /\ replies[1].ok
  <2>1. replies[1].seq = Seq16(tail + 1) /\ replies[1].ok
    BY <1>2
  <2>2. replies[1] # <<>>
    BY <1>2
  <2> QED BY <2>1, <2>2 DEF About, LInv, TypeOK
<1>4. \A k \in 1..Lag : About(tail + 1, replies[k])
  <2> SUFFICES ASSUME NEW k \in 1..Lag PROVE About(tail + 1, replies[k])
    OBVIOUS
  <2>1. CASE k = 1
    BY <1>3, <2>1
  <2>2. CASE k # 1
    <3>1. 1 \in 1..Lag /\ 1 < k
      BY <2>2, LoaderAssumption
    <3> QED BY <1>3, <3>1 DEF LInv, IInv, AnswersInOrder
  <2> QED BY <2>1, <2>2
<1> QED BY <1>1, <1>3, <1>4 DEF Oldest

(* The chunk after the one accepted last is in no answer yet.              *)
LEMMA NotAbout ==
  ASSUME LInv, NEW a, About(tail + 1, a) PROVE ~About(tail + 2, a)
<1>1. Seq16(tail + 1) # Seq16((tail + 1) + 1)
  BY Places DEF LInv, TypeOK
<1> QED BY <1>1 DEF About, LInv, TypeOK

LEMMA RepliesShift ==
  ASSUME LInv, NEW a, replies' = Append(Tail(replies), a)
  PROVE  /\ replies'[Lag] = a
         /\ \A k \in 1..Lag : k # Lag => k + 1 \in 1..Lag /\ replies'[k] = replies[k + 1]
         /\ a \in Answers => replies' \in Seq(Answers) /\ Len(replies') = Lag
<1>1. replies \in Seq(Answers) /\ Len(replies) = Lag /\ Lag \in Nat \ {0}
  BY LoaderAssumption DEF LInv, TypeOK
<1>2. Tail(replies) \in Seq(Answers) /\ Len(Tail(replies)) = Lag - 1
  BY <1>1
<1>3. \A k \in 1..Lag : k # Lag => Tail(replies)[k] = replies[k + 1]
  BY <1>1
<1> QED BY <1>1, <1>2, <1>3

LEMMA OldestRange ==
  ASSUME LInv PROVE Oldest \in Nat /\ Oldest \in {tail, tail + 1} /\ Oldest <= head
<1>1. CASE Accepted
  BY <1>1, AcceptedAnswers DEF LInv, TypeOK
<1>2. CASE ~Accepted
  BY <1>2 DEF Oldest, LInv, TypeOK, IInv, QueueWhole
<1> QED BY <1>1, <1>2

LEMMA SentChunk ==
  ASSUME LInv, NEW clear \in BOOLEAN, Sends(clear)
  PROVE  Oldest < head /\ queue[Slot(Oldest)] = Oldest + 1
<1>1. Oldest < head
  BY OldestRange DEF Sends, LInv, TypeOK
<1>2. Oldest + 1 \in tail + 1..head /\ (Oldest + 1) - 1 = Oldest
  BY <1>1, OldestRange DEF LInv, TypeOK
<1>3. queue[Slot((Oldest + 1) - 1)] = Oldest + 1
  BY <1>2 DEF LInv, IInv, QueueWhole
<1> QED BY <1>1, <1>2, <1>3

(* What the exchange writes in the load area, and answers.                 *)
Stored(c) == \/ /\ area' = [area EXCEPT ![Cell(c)] = c]
                /\ whole' = whole \union {c}
                /\ answer' = [seq |-> Seq16(c), ok |-> TRUE]
             \/ /\ area' = [area EXCEPT ![Cell(c)] = Garbage]
                /\ whole' = whole
                /\ answer' = [seq |-> Seq16(c), ok |-> FALSE]

LEMMA ExchangeEffect ==
  ASSUME LInv, NEW clear \in BOOLEAN, NEW wire \in Wire, Exchange(clear, wire)
  PROVE  \/ UNCHANGED <<area, whole, answer>>
         \/ Oldest < head /\ Stored(Oldest + 1)
<1>1. CASE Sends(clear)
  <2>1. Load(Oldest + 1, clear, wire) /\ Oldest < head
    BY <1>1, SentChunk DEF Exchange
  <2>2. wire \in {"ok", "bad", "lost"}
    BY LoaderAssumption
  <2>3. CASE wire = "ok"
    BY <2>1, <2>3 DEF Load, Stored
  <2>4. CASE wire = "bad"
    BY <2>1, <2>4 DEF Load, Stored
  <2>5. CASE wire = "lost"
    BY <2>1, <2>5 DEF Load
  <2> QED BY <2>2, <2>3, <2>4, <2>5
<1>2. CASE ~Sends(clear)
  BY <1>2 DEF Exchange, Render
<1> QED BY <1>1, <1>2

LEMMA ExchangeType ==
  ASSUME LInv, NEW clear \in BOOLEAN, NEW wire \in Wire, Exchange(clear, wire)
  PROVE  TypeOK'
<1>1. Oldest \in Nat /\ Oldest + 1 \in Nat
  BY OldestRange
<1>2. area' \in [0..Cells - 1 -> Nat] /\ answer' \in Answers /\ whole' \subseteq Nat
  <2>1. Cell(Oldest + 1) \in 0..Cells - 1 /\ Seq16(Oldest + 1) \in 0..SeqSpan - 1
    BY <1>1, Places
  <2>2. Garbage \in Nat
    BY LoaderAssumption DEF Garbage
  <2>3. area \in [0..Cells - 1 -> Nat] /\ answer \in Answers /\ whole \subseteq Nat
    BY DEF LInv, TypeOK
  <2>4. CASE UNCHANGED <<area, whole, answer>>
    BY <2>3, <2>4
  <2>5. CASE Stored(Oldest + 1)
    <3>1. \A ok \in BOOLEAN : [seq |-> Seq16(Oldest + 1), ok |-> ok] \in Answers
      BY <2>1 DEF Answers
    <3>2. \A c \in Nat : [area EXCEPT ![Cell(Oldest + 1)] = c] \in [0..Cells - 1 -> Nat]
      BY <2>1, <2>3
    <3>3. area' \in [0..Cells - 1 -> Nat]
      BY <1>1, <2>2, <2>5, <3>2 DEF Stored
    <3>4. answer' \in Answers
      BY <2>5, <3>1 DEF Stored
    <3>5. whole' \subseteq Nat
      BY <1>1, <2>3, <2>5 DEF Stored
    <3> QED BY <3>3, <3>4, <3>5
  <2> QED BY <2>4, <2>5, ExchangeEffect
<1>3. replies' \in Seq(Answers) /\ Len(replies)' = Lag
  <2>1. replies' = Append(Tail(replies), answer')
    BY DEF Exchange
  <2> QED BY <1>2, <2>1, RepliesShift
<1>4. row' \in 0..GiveUp
  <2>1. TimedOut => row < GiveUp
    BY LoaderAssumption DEF TimedOut, LInv, IInv, FlightInv
  <2> QED BY <2>1, LoaderAssumption DEF Exchange, LInv, TypeOK
<1>5. inFlight' \in 0..Timeout
  <2>1. Waiting => inFlight # Timeout
    BY DEF Waiting, TimedOut
  <2> QED BY <2>1, LoaderAssumption DEF Exchange, LInv, TypeOK
<1>6. lastClear' \in BOOLEAN /\ copyClear' \in BOOLEAN /\ misheard' \in BOOLEAN
      /\ failed' \in BOOLEAN
  BY DEF Exchange, Load, Render, LInv, TypeOK
<1>7. tail' \in Nat /\ UNCHANGED <<want, reading, queue, head>>
  BY <1>1 DEF Exchange, uiVars
<1> QED BY <1>2, <1>3, <1>4, <1>5, <1>6, <1>7 DEF LInv, TypeOK

LEMMA ExchangeFlight ==
  ASSUME LInv, NEW clear \in BOOLEAN, NEW wire \in Wire, Exchange(clear, wire)
  PROVE  QueueWhole' /\ EventsHeardOnce' /\ FlightInv'
<1>1. /\ tail' = Oldest /\ UNCHANGED <<want, reading, queue, head>>
  BY DEF Exchange, uiVars
<1>2. QueueWhole'
  <2>1. /\ tail' \in Nat /\ tail' \in {tail, tail + 1} /\ tail' <= head
        /\ tail \in Nat /\ head \in Nat /\ QueueLen \in Nat
    BY <1>1, OldestRange, LoaderAssumption DEF LInv, TypeOK
  <2>2. tail' <= head' /\ head' - tail' <= QueueLen
    BY <1>1, <2>1 DEF LInv, IInv, QueueWhole
  <2>3. ASSUME NEW n \in tail' + 1..head PROVE queue[Slot(n - 1)] = n
    <3>1. \A a, b, m : /\ a \in Nat /\ b \in {a, a + 1} /\ m \in b + 1..head
                         => m \in a + 1..head
      BY <2>1
    <3>2. n \in tail + 1..head
      BY <2>1, <3>1
    <3> QED BY <3>2 DEF LInv, IInv, QueueWhole
  <2> QED BY <1>1, <2>2, <2>3 DEF QueueWhole, Slot
<1>3. EventsHeardOnce'
  BY DEF Exchange, Sends, Load, Render, LInv, IInv, EventsHeardOnce, FlightInv
<1>4. lastClear' => copyClear'
  BY DEF Exchange, Load, Render, LInv, IInv, FlightInv
<1>5. inFlight' > 0 => tail' < head' /\ ~failed'
  <2>1. CASE Sends(clear)
    BY <1>1, <2>1, SentChunk DEF Exchange, Sends
  <2>2. CASE ~Sends(clear) /\ Waiting
    BY <1>1, <2>2 DEF Exchange, Waiting, Oldest, Broken, LInv, IInv, FlightInv
  <2>3. CASE ~Sends(clear) /\ ~Waiting
    BY <2>3 DEF Exchange
  <2> QED BY <2>1, <2>2, <2>3
<1>6. ~failed' => row' < GiveUp
  <2> SUFFICES ASSUME ~failed' PROVE row' < GiveUp
    OBVIOUS
  <2>1. ~failed /\ ~Broken /\ row < GiveUp
    BY DEF Exchange, LInv, IInv, FlightInv
  <2> QED BY <2>1, LoaderAssumption DEF Exchange, Broken, LInv, TypeOK
<1>7. reading' => want' > 0 /\ head' - tail' < QueueLen
  <2>1. /\ tail' \in Nat /\ tail' \in {tail, tail + 1}
        /\ tail \in Nat /\ head \in Nat /\ QueueLen \in Nat
    BY <1>1, OldestRange, LoaderAssumption DEF LInv, TypeOK
  <2> QED BY <1>1, <2>1 DEF LInv, IInv, FlightInv
<1> QED BY <1>2, <1>3, <1>4, <1>5, <1>6, <1>7 DEF FlightInv

(* What was accepted stays written: the chunk sent goes to another place   *)
(* than the last chunks accepted, and the one accepted now was written.    *)
LEMMA ExchangeWritten ==
  ASSUME LInv, NEW clear \in BOOLEAN, NEW wire \in Wire, Exchange(clear, wire)
  PROVE  AcceptedWasWritten'
<1>1. tail' = Oldest /\ tail' \in Nat /\ tail \in Nat /\ Cells \in Nat
  BY OldestRange, LoaderAssumption DEF Exchange, LInv, TypeOK
<1>5. 1..tail' \subseteq whole'
  <2>1. whole \subseteq whole' /\ 1..tail \subseteq whole
    BY ExchangeEffect DEF Stored, LInv, IInv, AcceptedWasWritten
  <2>2. CASE tail' = tail
    BY <2>1, <2>2
  <2>3. CASE tail' # tail
    <3>1. Accepted /\ tail' = tail + 1 /\ 1 \in 1..Lag
      BY <1>1, <2>3, LoaderAssumption DEF Oldest
    <3>2. tail + 1 \in whole
      BY <3>1, AcceptedAnswers DEF LInv, IInv, AnswersInOrder
    <3> QED BY <1>1, <2>1, <3>1, <3>2
  <2> QED BY <2>2, <2>3
<1> SUFFICES ASSUME NEW n \in 1..tail', n + Cells > tail' + 1
             PROVE  area'[Cell(n)] \in {n, Garbage}
  BY <1>5 DEF AcceptedWasWritten, Cell, Garbage
<1>2. area[Cell(n)] \in {n, Garbage}
  <2>1. CASE n \in 1..tail
    <3>1. n + Cells > tail + 1
      BY <1>1, OldestRange
    <3> QED BY <2>1, <3>1 DEF LInv, IInv, AcceptedWasWritten
  <2>2. CASE n \notin 1..tail
    <3>1. Accepted /\ n = tail + 1
      BY <1>1, <2>2, OldestRange DEF Oldest
    <3>2. 1 \in 1..Lag
      BY LoaderAssumption
    <3> QED BY <3>1, <3>2, AcceptedAnswers DEF LInv, IInv, AnswersInOrder
  <2> QED BY <2>1, <2>2
<1>3. CASE UNCHANGED <<area, whole, answer>>
  BY <1>2, <1>3
<1>4. CASE Stored(Oldest + 1)
  <2>1. n \in Nat /\ Oldest + 1 \in Nat /\ n < Oldest + 1 /\ Oldest + 1 < n + Cells
    BY <1>1
  <2>2. Cell(Oldest + 1) # Cell(n)
    BY <2>1, CellsDistinct
  <2>3. area'[Cell(n)] = area[Cell(n)]
    BY <1>4, <2>1, <2>2, Places DEF Stored, LInv, TypeOK
  <2> QED BY <1>2, <2>3
<1> QED BY <1>3, <1>4, ExchangeEffect

(* The answer given now is the one before, or about the chunk sent now.    *)
LEMMA NewAnswer ==
  ASSUME LInv, NEW clear \in BOOLEAN, NEW wire \in Wire, Exchange(clear, wire)
  PROVE  \/ answer' = answer /\ area' = area /\ whole' = whole
         \/ /\ Oldest < head /\ About(Oldest + 1, answer')
            /\ answer'.ok => area'[Cell(Oldest + 1)] = Oldest + 1 /\ Oldest + 1 \in whole'
            /\ whole \subseteq whole'
            /\ \A x \in 0..Cells - 1 : x # Cell(Oldest + 1) => area'[x] = area[x]
            /\ area'[Cell(Oldest + 1)] \in {Oldest + 1, Garbage}
<1>1. CASE UNCHANGED <<area, whole, answer>>
  BY <1>1
<1>2. CASE Oldest < head /\ Stored(Oldest + 1)
  <2>1. Oldest + 1 \in Nat /\ Oldest + 1 > 0 /\ Cell(Oldest + 1) \in 0..Cells - 1
    BY OldestRange, Places
  <2>2. answer'.seq = Seq16(Oldest + 1) /\ answer' # <<>>
    BY <1>2 DEF Stored
  <2>3. About(Oldest + 1, answer')
    BY <2>1, <2>2 DEF About
  <2>4. /\ answer'.ok => area'[Cell(Oldest + 1)] = Oldest + 1 /\ Oldest + 1 \in whole'
        /\ whole \subseteq whole'
        /\ \A x \in 0..Cells - 1 : x # Cell(Oldest + 1) => area'[x] = area[x]
        /\ area'[Cell(Oldest + 1)] \in {Oldest + 1, Garbage}
    <3>1. area \in [0..Cells - 1 -> Nat]
      BY DEF LInv, TypeOK
    <3>2. CASE /\ area' = [area EXCEPT ![Cell(Oldest + 1)] = Oldest + 1]
               /\ whole' = whole \union {Oldest + 1}
      BY <2>1, <3>1, <3>2
    <3>3. CASE /\ area' = [area EXCEPT ![Cell(Oldest + 1)] = Garbage]
               /\ answer' = [seq |-> Seq16(Oldest + 1), ok |-> FALSE] /\ whole' = whole
      BY <2>1, <3>1, <3>3
    <3> QED BY <1>2, <3>2, <3>3 DEF Stored
  <2> QED BY <1>2, <2>3, <2>4
<1> QED BY <1>1, <1>2, ExchangeEffect

(* The answers on their way, seen from the chunk that is now the oldest.   *)
LEMMA OldAnswers ==
  ASSUME LInv, NEW j \in 1..Lag
  PROVE  /\ \/ replies[j] = <<>>
            \/ About(Oldest, replies[j])
            \/ About(Oldest + 1, replies[j]) /\ Oldest < head
         /\ About(Oldest + 1, replies[j]) => Oldest = tail
<1>1. CASE Accepted
  <2>1. Oldest = tail + 1 /\ Oldest + 1 = tail + 2 /\ About(tail + 1, replies[j])
    BY <1>1, AcceptedAnswers DEF LInv, TypeOK
  <2> QED BY <2>1, NotAbout
<1>2. CASE ~Accepted
  BY <1>2 DEF Oldest, LInv, IInv, AnswersInOrder
<1> QED BY <1>1, <1>2

LEMMA ExchangeAnswers ==
  ASSUME LInv, NEW clear \in BOOLEAN, NEW wire \in Wire, Exchange(clear, wire)
  PROVE  AnswersInOrder'
<1>1. tail' = Oldest /\ head' = head /\ replies' = Append(Tail(replies), answer')
  BY DEF Exchange, uiVars
<1>2. /\ replies'[Lag] = answer'
      /\ \A k \in 1..Lag : k # Lag => k + 1 \in 1..Lag /\ replies'[k] = replies[k + 1]
  BY <1>1, RepliesShift
<1>3. replies[Lag] = answer /\ Lag \in 1..Lag
  BY LoaderAssumption DEF LInv, IInv, AnswersInOrder
<1> DEFINE Sent == /\ Oldest < head /\ About(Oldest + 1, answer') /\ whole \subseteq whole'
                   /\ area'[Cell(Oldest + 1)] \in {Oldest + 1, Garbage}
                   /\ answer'.ok => Oldest + 1 \in whole'
<1>4. (answer' = answer /\ area' = area /\ whole' = whole) \/ Sent
  BY NewAnswer
<1>5. ASSUME NEW k \in 1..Lag
      PROVE  \/ \E j \in 1..Lag : replies'[k] = replies[j] /\ (k # Lag => j = k + 1)
                                 /\ (k = Lag => j = Lag)
             \/ k = Lag /\ replies'[k] = answer' /\ Sent
  <2>1. CASE k # Lag
    BY <1>2, <2>1
  <2>2. CASE k = Lag
    BY <1>2, <1>3, <1>4, <2>2
  <2> QED BY <2>1, <2>2
<1> HIDE DEF Sent
<1>6. \A k \in 1..Lag : \/ replies'[k] = <<>>
                        \/ About(Oldest, replies'[k])
                        \/ About(Oldest + 1, replies'[k]) /\ Oldest < head
  <2> SUFFICES ASSUME NEW k \in 1..Lag
               PROVE  \/ replies'[k] = <<>>
                      \/ About(Oldest, replies'[k])
                      \/ About(Oldest + 1, replies'[k]) /\ Oldest < head
    OBVIOUS
  <2>1. CASE replies'[k] = answer' /\ Sent
    BY <2>1 DEF Sent
  <2>2. ASSUME NEW j \in 1..Lag, replies'[k] = replies[j]
        PROVE  \/ replies'[k] = <<>>
               \/ About(Oldest, replies'[k])
               \/ About(Oldest + 1, replies'[k]) /\ Oldest < head
    BY <2>2, OldAnswers
  <2> QED BY <1>5, <2>1, <2>2
<1>7. ASSUME NEW k \in 1..Lag, NEW l \in 1..Lag, k < l, About(Oldest + 1, replies'[k])
      PROVE  About(Oldest + 1, replies'[l])
  <2>1. k # Lag
    BY <1>7, LoaderAssumption
  <2>2. k + 1 \in 1..Lag /\ replies'[k] = replies[k + 1]
    BY <1>2, <2>1
  <2>3. Oldest = tail /\ About(tail + 1, replies[k + 1])
    BY <1>7, <2>2, OldAnswers
  <2>4. CASE l = Lag /\ replies'[l] = answer' /\ Sent
    BY <2>4 DEF Sent
  <2>5. ASSUME NEW j \in 1..Lag, replies'[l] = replies[j],
               l # Lag => j = l + 1, l = Lag => j = Lag
        PROVE  About(Oldest + 1, replies'[l])
    <3>1. k + 1 = j \/ k + 1 < j
      BY <1>7, <2>5, <2>2, LoaderAssumption
    <3> QED BY <2>2, <2>3, <2>5, <3>1 DEF LInv, IInv, AnswersInOrder
  <2> QED BY <1>5, <2>4, <2>5
<1>8. ASSUME NEW k \in 1..Lag, About(Oldest + 1, replies'[k]), replies'[k].ok
      PROVE  /\ Oldest + 1 \in whole'
             /\ area'[Cell(Oldest + 1)] \in {Oldest + 1, Garbage}
  <2>1. ASSUME NEW j \in 1..Lag, replies'[k] = replies[j]
        PROVE  /\ Oldest + 1 \in whole
               /\ area[Cell(Oldest + 1)] \in {Oldest + 1, Garbage}
    <3>1. Oldest = tail
      BY <1>8, <2>1, OldAnswers
    <3> QED BY <1>8, <2>1, <3>1 DEF LInv, IInv, AnswersInOrder
  <2>2. CASE Sent
    <3>1. CASE replies'[k] = answer'
      BY <1>8, <2>2, <3>1 DEF Sent
    <3>2. CASE replies'[k] # answer'
      BY <1>5, <2>1, <2>2, <3>2 DEF Sent
    <3> QED BY <3>1, <3>2
  <2>3. CASE ~Sent
    <3>1. area' = area /\ whole' = whole
      BY <1>4, <2>3
    <3>2. PICK j \in 1..Lag : replies'[k] = replies[j]
      BY <1>5, <2>3
    <3> QED BY <2>1, <3>1, <3>2
  <2> QED BY <2>2, <2>3
<1>9. /\ \A k, l \in 1..Lag :
           k < l /\ About(tail' + 1, replies'[k]) => About(tail' + 1, replies'[l])
      /\ \A k \in 1..Lag : About(tail' + 1, replies'[k]) /\ replies'[k].ok
                            => /\ tail' + 1 \in whole'
                               /\ area'[Cell(tail' + 1)] \in {tail' + 1, Garbage}
  BY <1>1, <1>7, <1>8
<1>10. \A k \in 1..Lag : \/ replies'[k] = <<>>
                         \/ About(tail', replies'[k])
                         \/ About(tail' + 1, replies'[k]) /\ tail' < head'
  BY <1>1, <1>6
<1> QED BY <1>2, <1>9, <1>10 DEF AnswersInOrder, About, Cell, Garbage, Seq16

-----------------------------------------------------------------------------
(* The invariant.                                                          *)
LEMMA InitHolds == ASSUME Init PROVE LInv
<1>1. /\ want = 0 /\ reading = FALSE /\ head = 0 /\ tail = 0 /\ inFlight = 0 /\ row = 0
      /\ failed = FALSE /\ lastClear = FALSE /\ misheard = FALSE /\ copyClear \in BOOLEAN
      /\ answer = <<>> /\ replies = [k \in 1..Lag |-> <<>>]
      /\ queue = [s \in 0..QueueLen - 1 |-> 0] /\ area = [x \in 0..Cells - 1 |-> 0]
      /\ whole = {}
  BY DEF Init
<1>2. replies \in Seq(Answers) /\ Len(replies) = Lag
  BY <1>1, LoaderAssumption DEF Answers
<1>3. TypeOK
  <2>1. inFlight \in 0..Timeout /\ row \in 0..GiveUp /\ answer \in Answers
    BY <1>1, LoaderAssumption DEF Answers
  <2>2. queue \in [0..QueueLen - 1 -> Nat] /\ area \in [0..Cells - 1 -> Nat]
    BY <1>1
  <2> QED BY <1>1, <1>2, <2>1, <2>2 DEF TypeOK
<1>4. QueueWhole /\ AcceptedWasWritten /\ EventsHeardOnce /\ FlightInv
  BY <1>1, LoaderAssumption DEF QueueWhole, AcceptedWasWritten, EventsHeardOnce, FlightInv
<1>5. AnswersInOrder
  BY <1>1, LoaderAssumption DEF AnswersInOrder, About
<1> QED BY <1>3, <1>4, <1>5 DEF LInv, IInv

LEMMA StepKeeps == ASSUME LInv, [Next]_vars PROVE LInv'
<1>1. ASSUME NEW n \in 1..MaxExtent, Ask(n) PROVE LInv'
  BY <1>1, AskKeeps
<1>2. CASE Read
  BY <1>2, ReadKeeps
<1>3. CASE Publish
  BY <1>3, PublishKeeps
<1>4. CASE ReadError
  BY <1>4, ReadErrorKeeps
<1>5. ASSUME NEW clear \in BOOLEAN, NEW wire \in Wire, Exchange(clear, wire) PROVE LInv'
  BY <1>5, ExchangeType, ExchangeFlight, ExchangeWritten, ExchangeAnswers DEF LInv, IInv
<1>6. CASE UNCHANGED vars
  <2>1. TypeOK' /\ QueueWhole' /\ AcceptedWasWritten' /\ EventsHeardOnce' /\ FlightInv'
    BY <1>6 DEF vars, dspVars, LInv, IInv, TypeOK, QueueWhole, AcceptedWasWritten,
                EventsHeardOnce, FlightInv
  <2>2. AnswersInOrder'
    BY <1>6 DEF vars, LInv, IInv, AnswersInOrder, About
  <2> QED BY <2>1, <2>2 DEF LInv, IInv
<1> QED BY <1>1, <1>2, <1>3, <1>4, <1>5, <1>6 DEF Next

LEMMA Always == Spec => []LInv
<1>1. Init => LInv
  BY InitHolds
<1>2. LInv /\ [Next]_vars => LInv'
  BY StepKeeps
<1> QED BY <1>1, <1>2, PTL DEF Spec

(* wr_load_poll, wr_frame_src, wr_load: types, and the bounds of the       *)
(* counters of exchanges and timeouts.                                     *)
THEOREM LoaderTypes == Spec => []TypeOK
<1>1. LInv => TypeOK
  BY DEF LInv
<1> QED BY <1>1, Always, PTL

(* The inductive invariant of the frame exchange.                          *)
THEOREM LoaderInvariant == Spec => []IInv
<1>1. LInv => IInv
  BY DEF LInv
<1> QED BY <1>1, Always, PTL

(* Filling a slot never disturbs a chunk that waits to be sent: the ISR    *)
(* sends the chunks whole and in order, whatever the interleaving.         *)
THEOREM QueueNeverOverwritten == Spec => []QueueWhole
<1>1. LInv => QueueWhole
  BY DEF LInv, IInv
<1> QED BY <1>1, Always, PTL

(* Of a chunk the loader counts as accepted the DSP got a whole copy, for  *)
(* any lag of the answers and any number of lost, refused and resent       *)
(* frames.                                                                 *)
THEOREM AcceptedChunksWereWritten == Spec => []AcceptedWasWritten
<1>1. LInv => AcceptedWasWritten
  BY DEF LInv, IInv
<1> QED BY <1>1, Always, PTL

(* A late answer is about the chunk in flight or the one before it.        *)
THEOREM LateAnswersAreOrdered == Spec => []AnswersInOrder
<1>1. LInv => AnswersInOrder
  BY DEF LInv, IInv
<1> QED BY <1>1, Always, PTL

(* Sending a chunk in place of a frame never costs or repeats an event.    *)
THEOREM EventsAreHeardOnce == Spec => []EventsHeardOnce
<1>1. LInv => EventsHeardOnce
  BY DEF LInv, IInv
<1> QED BY <1>1, Always, PTL

-----------------------------------------------------------------------------
(* Every step is one of LoadSpec's, or changes nothing it speaks of.       *)

LEMMA SameMod == \A n : Cell(n) = Delivery!Place(n)
BY DEF Cell, Delivery!Place

LEMMA StoredWrites ==
  ASSUME NEW c, Stored(c) PROVE Delivery!Writes(c)
BY SameMod DEF Stored, Delivery!Writes, Delivery!Puts

LEMMA UiDelivers ==
  ASSUME LInv, (\E n \in 1..MaxExtent : Ask(n)) \/ Read \/ Publish \/ ReadError
  PROVE  Delivery!Ask \/ UNCHANGED Delivery!vars
<1>1. /\ head' = head + 1 \/ head' = head
      /\ UNCHANGED <<tail, area, whole, failed>>
  BY DEF Ask, Read, Publish, ReadError, dspVars
<1> QED BY <1>1 DEF Delivery!Ask, Delivery!vars

LEMMA ExchangeDelivers ==
  ASSUME LInv, NEW clear \in BOOLEAN, NEW wire \in Wire, Exchange(clear, wire)
  PROVE  Delivery!Write \/ Delivery!Accept \/ Delivery!Stop \/ UNCHANGED Delivery!vars
<1>1. tail' = Oldest /\ head' = head
  BY DEF Exchange, uiVars
<1>2. UNCHANGED <<area, whole>> \/ (Oldest < head /\ Delivery!Writes(Oldest + 1))
  BY ExchangeEffect, StoredWrites
<1>3. /\ ~failed /\ ~Broken => failed' = failed
      /\ failed' = failed \/ failed' = TRUE
  <2> DEFINE broken == Broken
  <2>1. failed' = (failed \/ broken) /\ failed \in BOOLEAN
    BY DEF Exchange, LInv, TypeOK
  <2> HIDE DEF broken
  <2>2. CASE failed \/ broken
    <3>1. failed' = TRUE
      BY <2>1, <2>2
    <3> QED BY <2>2, <3>1 DEF broken
  <2>3. CASE ~failed /\ ~broken
    <3>1. failed' = failed
      BY <2>1, <2>3
    <3> QED BY <3>1
  <2> QED BY <2>2, <2>3
<1>4. CASE Accepted
  <2>1. tail < head /\ Oldest = tail + 1 /\ ~failed
    BY <1>4, AcceptedAnswers DEF Accepted, LInv, IInv, FlightInv
  <2>2. failed' = failed
    BY <1>3, <1>4, <2>1 DEF Broken, TimedOut
  <2>3. tail + 1 \in whole
    <3>1. 1 \in 1..Lag /\ About(tail + 1, replies[1]) /\ replies[1].ok
      BY <1>4, AcceptedAnswers, LoaderAssumption
    <3> QED BY <3>1 DEF LInv, IInv, AnswersInOrder
  <2>4. UNCHANGED <<area, whole>> \/ (tail' < head /\ Delivery!Writes(tail' + 1))
    BY <1>1, <1>2
  <2> QED BY <1>1, <2>1, <2>2, <2>3, <2>4 DEF Delivery!Accept, Delivery!Pending
<1>5. CASE ~Accepted /\ ~UNCHANGED <<area, whole>>
  <2>1. tail' = tail /\ tail < head /\ Delivery!Writes(tail + 1)
    BY <1>1, <1>2, <1>5 DEF Oldest
  <2>2. ~failed /\ ~Broken
    BY <1>5 DEF Exchange, Sends, Render
  <2>3. failed' = failed
    BY <1>3, <2>2
  <2> QED BY <1>1, <2>1, <2>2, <2>3 DEF Delivery!Write, Delivery!Pending
<1>6. CASE ~Accepted /\ UNCHANGED <<area, whole>>
  <2>1. tail' = tail
    BY <1>1, <1>6 DEF Oldest
  <2> QED BY <1>1, <1>3, <1>6, <2>1 DEF Delivery!Stop, Delivery!vars
<1> QED BY <1>4, <1>5, <1>6

(* The loader implements LoadSpec: for any wire, lag and queue, chunks     *)
(* come one at a time and in order, none accepted before it came whole.    *)
THEOREM LoaderDeliversInOrder == Spec => DeliversInOrder
<1>1. Init => Delivery!Init
  BY DEF Init, Delivery!Init
<1>2. LInv /\ [Next]_vars => [Delivery!Next]_(Delivery!vars)
  <2>1. UNCHANGED vars => UNCHANGED Delivery!vars
    BY DEF vars, Delivery!vars
  <2> QED BY <2>1, UiDelivers, ExchangeDelivers DEF Next, Delivery!Next
<1> QED BY <1>1, <1>2, Always, PTL DEF Spec, DeliversInOrder, Delivery!Spec
=============================================================================
