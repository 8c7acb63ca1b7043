------------------------- MODULE DnfwProgressProofs -------------------------
(***************************************************************************)
(* The progress file and its pane, proved for every number of tries of a   *)
(* rename, every count and any number of processes that take the job's     *)
(* pid.                                                                    *)
(*                                                                         *)
(* The argument is that the job's records are numbered and only the last   *)
(* one is ever written: every file is one of them, no older than the file  *)
(* before it, and the first that says how the job ended has the state and  *)
(* the count of the last.  What a reader holds was such a file, however    *)
(* long ago it read it; so the pane shows what happened, in that order,    *)
(* and "lost" only when it asked after it closed the file and the job was  *)
(* gone.  The counts take no part in it: they may go back.                 *)
(***************************************************************************)
EXTENDS DnfwProgress, TLAPS

(* r is no later than the job's own record, and one that says how the job  *)
(* ended says what the last one does.                                      *)
UpTo(r, d) ==
  /\ r.nth <= d.nth
  /\ r.state # "running" => r.state = d.state /\ r.done = d.done

PastInv == data \in past /\ \A r \in past : UpTo(r, data)

FileInv == file # None => file.record \in past

ReaderInv ==
  /\ got # None => got.record \in past
  /\ pane \in {"open", "read"} => got # None
  /\ got # None /\ file # None => got.record.nth <= file.record.nth

ViewInv ==
  view # None =>
    /\ got # None
    /\ view.nth <= got.record.nth
    /\ IF view.state = "lost" THEN ~Runs /\ \E r \in past : r.state = "running" /\ view = LostOf(r)
       ELSE view \in past

IInv == TypeOK /\ LastWordStands /\ PastInv /\ FileInv /\ ReaderInv /\ ViewInv

LEMMA ShownFollows == IInv => ShownIsTrue
<1> SUFFICES ASSUME IInv, view # None PROVE ShownIsTrue
  BY DEF ShownIsTrue
<1>1. view.state \in {"done", "failed"} => view \in past
  BY DEF IInv, ViewInv
<1>2. view.state \in {"done", "failed"} => view.state = data.state /\ view.done = data.done
  BY <1>1 DEF IInv, PastInv, UpTo
<1> QED BY <1>2 DEF IInv, ViewInv, ReaderInv, ShownIsTrue

LEMMA InitHolds == Init => IInv
<1> SUFFICES ASSUME Init PROVE IInv
  OBVIOUS
<1>1. data \in Records /\ tries \in 0..Tries /\ tries > 0 /\ reused \in 0..MaxReuse
  BY ProgressAssumption DEF Init, Records, States
<1>2. TypeOK
  BY <1>1 DEF Init, TypeOK
<1>3. PastInv
  BY <1>1 DEF Init, PastInv, UpTo, Records
<1> QED BY <1>2, <1>3 DEF Init, IInv, LastWordStands, FileInv, ReaderInv, ViewInv

(* What the job makes of its record: the next of its type, and the last    *)
(* word is not taken back.                                                 *)
LEMMA Records1 ==
  ASSUME TypeOK, Update \/ Conclude \/ Finish
  PROVE  /\ data' \in Records /\ data'.nth = data.nth + 1
         /\ past' = past \union {data'}
         /\ data.state # "running" => data'.state = data.state /\ data'.done = data.done
         /\ UNCHANGED <<reader, pid>> /\ Runs
         /\ Begin \/ Throttled
<1>1. data \in Records /\ data.nth + 1 \in Nat
  BY DEF TypeOK, Records
<1>2. CASE Update
  BY <1>1, <1>2 DEF Update, Becomes, Records, Runs
<1>3. CASE Conclude
  BY <1>1, <1>3 DEF Conclude, Becomes, Records, States, Runs
<1>4. CASE Finish
  BY <1>1, <1>4 DEF Finish, Becomes, Left, Records, States, Runs
<1> QED BY <1>2, <1>3, <1>4

LEMMA Others ==
  ASSUME [Next]_vars, ~(Update \/ Conclude \/ Finish)
  PROVE  UNCHANGED own /\ (Runs' => Runs)
<1>1. CASE Rename
  BY <1>1 DEF Rename, own, Runs
<1>2. CASE Kill
  BY <1>2 DEF Kill, own, Runs
<1>3. CASE Pane \/ Day \/ PidTaken \/ PidFreed \/ UNCHANGED vars
  BY <1>3 DEF Pane, Open, Close, Show, Unlink, Gone, Day, PidTaken, PidFreed, vars, own, Runs
<1> QED BY <1>1, <1>2, <1>3 DEF Next, Job

(* The job only goes on.                                                   *)
LEMMA JobGoesOn ==
  ASSUME TypeOK, [Next]_vars, PastInv
  PROVE  /\ past \subseteq past' /\ PastInv' /\ (Runs' => Runs)
<1>1. CASE Update \/ Conclude \/ Finish
  <2>1. \A r \in past : r.nth \in Nat /\ UpTo(r, data)
    BY DEF TypeOK, PastInv, Records
  <2>2. data.nth \in Nat /\ data'.nth = data.nth + 1
    BY <1>1, Records1 DEF TypeOK, Records
  <2>3. \A r \in past : UpTo(r, data')
    BY <1>1, <2>1, <2>2, Records1 DEF UpTo
  <2>4. UpTo(data', data')
    BY <2>2 DEF UpTo
  <2> QED BY <1>1, <2>3, <2>4, Records1 DEF PastInv
<1>2. CASE ~(Update \/ Conclude \/ Finish)
  BY <1>2, Others DEF own, PastInv, UpTo
<1> QED BY <1>1, <1>2

(* What is shown is of its type.                                           *)
LEMMA ShownType == ASSUME NEW f \in Files PROVE Shown(f) \in Views
BY DEF Shown, LostOf, Files, Views, Records

LEMMA StepKeepsType ==
  ASSUME TypeOK, [Next]_vars, pane = "read" => got # None
  PROVE  TypeOK'
<1> USE DEF TypeOK
<1>1. ASSUME Begin \/ Throttled, job = "work"
      PROVE  /\ job' \in {"work", "rename"} /\ tries' \in 0..Tries
             /\ job' = "rename" => tries' > 0
             /\ gaveUp' \in BOOLEAN /\ file' = file
  <2>1. Tries \in 0..Tries /\ Tries > 0 /\ tries \in 0..Tries
    BY ProgressAssumption
  <2>2. CASE Begin
    BY <2>1, <2>2 DEF Begin
  <2>3. CASE Throttled
    BY <1>1, <2>1, <2>3 DEF Throttled
  <2> QED BY <1>1, <2>2, <2>3
<1>2. CASE Update \/ Conclude \/ Finish
  <2>1. job = "work"
    BY <1>2 DEF Update, Conclude, Finish
  <2>2. data' \in Records /\ past' \subseteq Records
    BY <1>2, Records1
  <2> QED BY <1>1, <1>2, <2>1, <2>2, Records1 DEF reader, pid
<1>3. CASE Rename
  <2>1. tries' \in 0..Tries /\ (job' = "rename" => tries' > 0)
        /\ job' \in {"work", "rename", "ended", "killed"}
    BY <1>3, ProgressAssumption DEF Rename
  <2>2. gaveUp' \in BOOLEAN
    BY <1>3 DEF Rename
  <2>3. file' \in Files \union {None}
    <3>1. Written \in Files
      BY DEF Written, Files
    <3> QED BY <1>3, <3>1 DEF Rename
  <2> QED BY <1>3, <2>1, <2>2, <2>3 DEF Rename, own, reader, pid
<1>4. CASE Kill
  BY <1>4 DEF Kill, own, reader, pid
<1>5. CASE Open
  BY <1>5 DEF Open, own, pid
<1>6. CASE Close
  BY <1>6 DEF Close, own, pid
<1>7. CASE Show
  <2>1. view' \in Views \union {None}
    BY <1>7, ShownType DEF Show
  <2>2. pane' \in {"idle", "open", "read", "unlink"}
    BY <1>7 DEF Show
  <2> QED BY <1>7, <2>1, <2>2 DEF Show, own, pid
<1>8. CASE Unlink
  BY <1>8 DEF Unlink, own, pid
<1>9. CASE Gone
  BY <1>9 DEF Gone, own, pid
<1>10. CASE Day
  <2>1. file' \in Files
    BY <1>10 DEF Day, Files
  <2> QED BY <1>10, <2>1 DEF Day, own, reader, pid
<1>11. CASE PidTaken
  BY <1>11, ProgressAssumption DEF PidTaken, own, reader
<1>12. CASE PidFreed
  BY <1>12 DEF PidFreed, own, reader
<1>13. CASE UNCHANGED vars
  BY <1>13 DEF vars
<1> QED BY <1>2, <1>3, <1>4, <1>5, <1>6, <1>7, <1>8, <1>9, <1>10, <1>11, <1>12, <1>13
        DEF Next, Job, Pane

-----------------------------------------------------------------------------
(* A step keeps each part.                                                 *)

(* Where a file comes from: the last one, its day, or what the job says.   *)
LEMMA FileFrom ==
  ASSUME TypeOK, [Next]_vars
  PROVE  \/ file' = file
         \/ file' = None
         \/ file # None /\ file' = [file EXCEPT !.old = TRUE] /\ UNCHANGED got
         \/ Rename /\ file' = Written /\ UNCHANGED got
<1>1. CASE Update \/ Conclude \/ Finish
  BY <1>1, Records1 DEF Begin, Throttled
<1>2. CASE Rename
  BY <1>2 DEF Rename, reader
<1>3. CASE Kill \/ Pane \/ PidTaken \/ PidFreed \/ UNCHANGED vars
  BY <1>3 DEF Kill, Pane, Open, Close, Show, Unlink, Gone, PidTaken, PidFreed, vars
<1>4. CASE Day
  BY <1>4 DEF Day, reader
<1> QED BY <1>1, <1>2, <1>3, <1>4 DEF Next, Job

(* Every file is a record of the job, no older than the one before it.     *)
LEMMA FileKept ==
  ASSUME TypeOK, [Next]_vars, PastInv, FileInv
  PROVE  /\ FileInv'
         /\ file # None /\ file' # None => /\ file.record.nth <= file'.record.nth
                                           /\ file.record.state # "running" =>
                                                /\ file'.record.state = file.record.state
                                                /\ file'.record.done = file.record.done
<1>1. past \subseteq past'
  BY JobGoesOn
<1>2. file # None => file.record \in past /\ file.record.nth \in Nat /\ UpTo(file.record, data)
  BY DEF FileInv, PastInv, TypeOK, Files, Records
<1>3. CASE file' = file
  BY <1>1, <1>2, <1>3 DEF FileInv
<1>4. CASE file # None /\ file' = [file EXCEPT !.old = TRUE]
  <2>1. file'.record = file.record
    BY <1>4 DEF TypeOK, Files
  <2> QED BY <1>1, <1>2, <1>4, <2>1 DEF FileInv
<1>5. CASE Rename /\ file' = Written
  <2>1. file'.record = data /\ data \in past
    BY <1>5 DEF Written, PastInv
  <2> QED BY <1>1, <1>2, <2>1 DEF FileInv, UpTo
<1>6. CASE file' = None
  BY <1>6 DEF FileInv
<1> QED BY <1>3, <1>4, <1>5, <1>6, FileFrom

(* What the reader holds is the file as it was opened.                     *)
LEMMA GotFrom ==
  ASSUME TypeOK, [Next]_vars
  PROVE  got' = got \/ (Open /\ file # None /\ got' = file)
<1>1. CASE Update \/ Conclude \/ Finish
  BY <1>1, Records1 DEF reader
<1>2. CASE Rename \/ Kill
  BY <1>2 DEF Rename, Kill, reader
<1>3. CASE Pane
  BY <1>3 DEF Pane, Open, Close, Show, Unlink, Gone
<1>4. CASE Day \/ PidTaken \/ PidFreed \/ UNCHANGED vars
  BY <1>4 DEF Day, PidTaken, PidFreed, reader, vars
<1> QED BY <1>1, <1>2, <1>3, <1>4 DEF Next, Job

LEMMA PaneFrom ==
  ASSUME TypeOK, [Next]_vars
  PROVE  /\ pane' \in {"open", "read"} => pane \in {"open", "read"} \/ Open
         /\ view' = view \/ Show \/ Gone
<1>1. CASE Update \/ Conclude \/ Finish
  BY <1>1, Records1 DEF reader
<1>2. CASE Rename \/ Kill
  BY <1>2 DEF Rename, Kill, reader
<1>3. CASE Pane
  BY <1>3 DEF Pane, Open, Close, Show, Unlink, Gone
<1>4. CASE Day \/ PidTaken \/ PidFreed \/ UNCHANGED vars
  BY <1>4 DEF Day, PidTaken, PidFreed, reader, vars
<1> QED BY <1>1, <1>2, <1>3, <1>4 DEF Next, Job

LEMMA ReaderKept ==
  ASSUME TypeOK, [Next]_vars, PastInv, FileInv, ReaderInv
  PROVE  /\ ReaderInv'
         /\ got # None => got' # None
         /\ got # None /\ got' # got => got.record.nth <= got'.record.nth
<1>1. past \subseteq past'
  BY JobGoesOn
<1>2. /\ file # None => file.record \in past /\ file.record.nth \in Nat
      /\ got # None => got.record \in past /\ got.record.nth \in Nat /\ got.record.nth <= data.nth
      /\ data.nth \in Nat
  BY DEF FileInv, ReaderInv, PastInv, UpTo, TypeOK, Files, Records
<1>3. CASE Open
  <2>1. file' = file /\ got' = file /\ file # None
    BY <1>3 DEF Open
  <2> QED BY <1>1, <1>2, <2>1 DEF ReaderInv
<1>4. CASE ~Open
  <2>1. got' = got
    BY <1>4, GotFrom
  <2>2. pane' \in {"open", "read"} => got' # None
    BY <1>4, <2>1, PaneFrom DEF ReaderInv
  <2>3. ASSUME got' # None, file' # None PROVE got'.record.nth <= file'.record.nth
    <3>1. CASE file # None
      <4>1. file.record.nth <= file'.record.nth /\ file'.record \in past'
        BY <2>3, <3>1, FileKept DEF FileInv
      <4>2. file'.record.nth \in Nat
        BY <4>1, <2>3, <3>1, FileFrom, <1>2 DEF Written, TypeOK, Files
      <4> QED BY <1>2, <2>1, <2>3, <3>1, <4>1, <4>2 DEF ReaderInv
    <3>2. CASE file = None
      <4>1. file'.record = data
        BY <2>3, <3>2, FileFrom DEF Written
      <4> QED BY <1>2, <2>1, <2>3, <4>1
    <3> QED BY <3>1, <3>2
  <2> QED BY <1>1, <1>2, <2>1, <2>2, <2>3 DEF ReaderInv
<1> QED BY <1>3, <1>4

(* The last write ends the job with it in the file, or given up.           *)
LEMMA LastWordKept ==
  ASSUME TypeOK, [Next]_vars, LastWordStands
  PROVE  LastWordStands'
<1>1. CASE Rename
  <2>1. CASE pane # "open" /\ file' = Written
    BY <1>1, <2>1 DEF Rename, Written, own, LastWordStands
  <2>2. CASE pane = "open" /\ tries' = tries - 1 /\ gaveUp' = (tries = 1)
    <3>1. tries \in Nat /\ tries > 0
      BY <1>1, ProgressAssumption DEF TypeOK, Rename
    <3>2. tries' = 0 => tries = 1
      BY <2>2, <3>1
    <3>3. job' = "ended" => tries' = 0
      BY <1>1, <2>2, <3>1 DEF Rename
    <3>4. tries = 1 => gaveUp'
      BY <2>2
    <3> QED BY <3>2, <3>3, <3>4 DEF LastWordStands
  <2> QED BY <1>1, <2>1, <2>2 DEF Rename
<1>2. CASE Update \/ Conclude \/ Finish
  <2>1. job = "work"
    BY <1>2 DEF Update, Conclude, Finish
  <2> QED BY <1>2, <2>1, Records1 DEF Begin, Throttled, LastWordStands
<1>3. CASE Kill
  BY <1>3 DEF Kill, LastWordStands
<1>4. CASE Day
  <2>1. file'.record = file.record /\ file # None
    BY <1>4 DEF Day, TypeOK, Files
  <2> QED BY <1>4, <2>1 DEF Day, own, LastWordStands
<1>5. CASE Unlink
  BY <1>5 DEF Unlink, LastWordStands
<1>6. CASE Open \/ Close \/ Show \/ Gone \/ PidTaken \/ PidFreed \/ UNCHANGED vars
  BY <1>6 DEF Open, Close, Show, Gone, PidTaken, PidFreed, vars, own, LastWordStands
<1> QED BY <1>1, <1>2, <1>3, <1>4, <1>5, <1>6 DEF Next, Job, Pane

(* What the pane comes to show is what the reader holds; what it shows     *)
(* already was so, as the job's records stay, and one that went does not   *)
(* come back.                                                              *)
LEMMA ViewKept ==
  ASSUME TypeOK, [Next]_vars, PastInv, FileInv, ReaderInv, ViewInv
  PROVE  /\ ViewInv'
         /\ view # None /\ view' # None => view.nth <= view'.nth
<1>1. past \subseteq past' /\ (Runs' => Runs)
  BY JobGoesOn
<1>2. CASE view' = view
  <2> SUFFICES ASSUME view # None
               PROVE  got' # None /\ view.nth <= got'.record.nth /\ view.nth <= view.nth
    BY <1>1, <1>2 DEF ViewInv
  <2>1. view.nth \in Nat /\ got # None /\ got \in Files /\ view.nth <= got.record.nth
    BY DEF ViewInv, TypeOK, Views
  <2>2. got' # None /\ (got' # got => got.record.nth <= got'.record.nth)
    BY <2>1, ReaderKept
  <2>3. got.record.nth \in Nat /\ (got' # got => got'.record.nth \in Nat)
    BY <2>1, GotFrom DEF TypeOK, Files, Records
  <2> QED BY <2>1, <2>2, <2>3
<1>3. CASE Show
  <2>1. /\ got # None /\ got \in Files /\ got.record \in past
        /\ got' = got /\ job' = job /\ past' = past /\ view' = Shown(got)
    BY <1>3 DEF Show, TypeOK, ReaderInv, own
  <2>2. got.record \in Records /\ got.record.nth \in Nat
    BY <2>1 DEF Files, Records
  <2>3. CASE Lost(got)
    <3>1. ~Runs /\ got.record.state = "running" /\ view' = LostOf(got.record)
      BY <2>1, <2>3 DEF Lost, Alive, Shown
    <3>2. view'.state = "lost" /\ view'.nth = got.record.nth
      BY <2>2, <3>1 DEF LostOf, Records
    <3> QED BY <2>1, <2>2, <3>1, <3>2 DEF ViewInv, Runs
  <2>4. CASE ~Lost(got)
    <3>1. view' = got.record /\ view'.state # "lost"
      BY <2>1, <2>2, <2>4 DEF Shown, Records, States
    <3> QED BY <2>1, <2>2, <3>1 DEF ViewInv
  <2> QED BY <2>3, <2>4
<1>4. CASE Gone
  BY <1>4 DEF Gone, ViewInv
<1> QED BY <1>2, <1>3, <1>4, PaneFrom

LEMMA StepKeeps == IInv /\ [Next]_vars => IInv'
<1> SUFFICES ASSUME IInv, [Next]_vars PROVE IInv'
  OBVIOUS
<1>1. TypeOK'
  BY StepKeepsType DEF IInv, ReaderInv
<1> QED BY <1>1, JobGoesOn, FileKept, ReaderKept, LastWordKept, ViewKept DEF IInv

LEMMA InOrder == Spec => []IInv
BY InitHolds, StepKeeps, PTL DEF Spec

-----------------------------------------------------------------------------
(* The theorems.                                                           *)

(* Whatever is killed or reads when, a file that can be read is whole.     *)
THEOREM ProgressTyped == Spec => []TypeOK
<1>1. IInv => TypeOK
  BY DEF IInv
<1> QED BY <1>1, InOrder, PTL

(* A job that ended by itself left its last word in the file.              *)
THEOREM LastWordAlwaysStands == Spec => []LastWordStands
<1>1. IInv => LastWordStands
  BY DEF IInv
<1> QED BY <1>1, InOrder, PTL

(* Whatever the pane shows of a job happened, and in that order.           *)
THEOREM ShownIsAlwaysTrue == Spec => []ShownIsTrue
BY ShownFollows, InOrder, PTL

(* The file, and the pane, see a job go forward only, whatever its counts  *)
(* do: neither goes back to an earlier record, and a file that says how    *)
(* the job ended keeps saying so, with that count.                         *)
GoesOn ==
  /\ file # None /\ file' # None =>
       /\ file.record.nth <= file'.record.nth
       /\ file.record.state # "running" => /\ file'.record.state = file.record.state
                                           /\ file'.record.done = file.record.done
  /\ view # None /\ view' # None => view.nth <= view'.nth

THEOREM OnlyGoesOn == Spec => [][GoesOn]_vars
<1>1. IInv /\ [Next]_vars => [GoesOn]_vars
  BY FileKept, ViewKept DEF IInv, GoesOn
<1> QED BY <1>1, InOrder, PTL DEF Spec
=============================================================================
