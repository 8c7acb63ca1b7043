---------------------------- MODULE DnfwProgress ----------------------------
(***************************************************************************)
(* The progress file of a long job (src/dnfw/progress.py): Job writes it,  *)
(* jobs() reads it for the pane (tools/dn2progress.py), prune() removes it.*)
(*                                                                         *)
(* Two processes and no lock.  The job writes a temporary file and renames *)
(* it over the last one, which Windows refuses while a reader has it open; *)
(* a reader asks whether the job's process runs after it closed the file;  *)
(* and a process may be killed anywhere.                                   *)
(*                                                                         *)
(* Abstractions: one job, one pane; a record is the job's state, its count *)
(* and whether it ended, a file that and whether a day has passed since    *)
(* its last write.  Steps, details, the tree of parents and the drawing    *)
(* are left out.  A record also holds which one of the job's it is, which  *)
(* the program has not: it tells an earlier record from a later one.       *)
(***************************************************************************)
EXTENDS Naturals

CONSTANTS None,
          Tries,       (* how often a rename is tried                        *)
          MaxDone,     (* bound: the job's count                             *)
          MaxUpdates,  (* bound: updates of the job that still runs          *)
          MaxReuse     (* bound: other processes that get the job's pid      *)

ASSUME ProgressAssumption == Tries \in Nat \ {0} /\ MaxDone \in Nat
                             /\ MaxUpdates \in Nat /\ MaxReuse \in Nat

VARIABLES
  data,     (* the job's own record                                          *)
  past,     (* history: its records up to now                                *)
  job,      (* where it is: "work", "rename", "ended" or "killed"            *)
  tries,    (* renames left of this write                                    *)
  file,     (* the progress file, or None                                    *)
  pane,     (* the reader: "idle", "open", "read" or "unlink"                *)
  got,      (* what it read last                                             *)
  view,     (* what the pane shows of the job                                *)
  taken,    (* another process has the job's pid                             *)
  reused,   (* bound                                                         *)
  gaveUp    (* history: the write of data was given up                       *)

vars == <<data, past, job, tries, file, pane, got, view, taken, reused, gaveUp>>

States  == {"running", "done", "failed"}
Records == [state : States, done : 0..MaxDone, ended : BOOLEAN, nth : Nat]
Views   == [state : States \union {"lost"}, done : 0..MaxDone, ended : BOOLEAN, nth : Nat]
Files   == [record : Records, old : BOOLEAN]
Written == [record |-> data, old |-> FALSE]
Runs    == job \in {"work", "rename"}

own    == <<data, past>>
reader == <<pane, got, view>>
pid    == <<taken, reused>>

-----------------------------------------------------------------------------
(* The job.  A write is the temporary file, here whole at once as no one   *)
(* reads it, then the rename; one that comes too soon after the last is    *)
(* left out unless it is forced.                                           *)

Begin_InPlace ==           (* mutant: the file itself is written *)
  job' = "rename" /\ tries' = Tries /\ gaveUp' = FALSE
    /\ file' = [record |-> [data EXCEPT !.state = "half"], old |-> FALSE]
Begin == job' = "rename" /\ tries' = Tries /\ gaveUp' = FALSE /\ UNCHANGED file

Throttled == UNCHANGED <<job, tries, file, gaveUp>>

Becomes(d) ==
  /\ data' = [d EXCEPT !.nth = data.nth + 1]
  /\ past' = past \union {data'}
  /\ UNCHANGED <<reader, pid>>

(* update(): any count, also a lower one, as run_command takes it from     *)
(* whatever k/n the command prints.  A new step or total is always         *)
(* written, a count alone when it is time.                                 *)
Update ==
  /\ job = "work" /\ data.state = "running" /\ data.nth < MaxUpdates
  /\ \E k \in 0..MaxDone : Becomes([data EXCEPT !.done = k])
  /\ Begin \/ Throttled

(* update(state=): run_command and the test runner say how it went before  *)
(* they leave, with a write of its own.                                    *)
Conclude ==
  /\ job = "work" /\ data.state = "running"
  /\ \E s \in {"done", "failed"} : Becomes([data EXCEPT !.state = s])
  /\ Begin

(* __exit__: "done" or "failed" unless that was said, and a forced write.  *)
Left(s) == [data EXCEPT !.state = IF @ = "running" THEN s ELSE @, !.ended = TRUE]
Finish_Throttled ==        (* mutant: the last write waits for its time too *)
  /\ job = "work"
  /\ \E s \in {"done", "failed"} : Becomes(Left(s))
  /\ Begin \/ (job' = "ended" /\ UNCHANGED <<tries, file, gaveUp>>)
Finish ==
  /\ job = "work"
  /\ \E s \in {"done", "failed"} : Becomes(Left(s))
  /\ Begin

(* os.replace, tried again a moment later while the file is open, and then *)
(* given up.                                                               *)
Rename ==
  /\ job = "rename"
  /\ \/ pane # "open" /\ file' = Written /\ tries' = 0 /\ UNCHANGED gaveUp
     \/ pane = "open" /\ tries' = tries - 1 /\ gaveUp' = (tries = 1) /\ UNCHANGED file
  /\ job' = IF tries' > 0 THEN "rename" ELSE IF data.ended THEN "ended" ELSE "work"
  /\ UNCHANGED <<own, reader, pid>>

Kill ==
  /\ Runs /\ job' = "killed"
  /\ UNCHANGED <<own, tries, file, reader, pid, gaveUp>>

-----------------------------------------------------------------------------
(* The pane: jobs() opens the file, reads it, asks for the process and     *)
(* shows the job; a running one whose process has gone is lost.            *)

Alive == Runs \/ taken

Open ==
  /\ pane = "idle" /\ file # None
  /\ pane' = "open" /\ got' = file
  /\ UNCHANGED <<own, job, tries, file, view, pid, gaveUp>>

Close ==
  /\ pane = "open" /\ pane' = "read"
  /\ UNCHANGED <<own, job, tries, file, got, view, pid, gaveUp>>

Lost_Unasked(f) == f.record.state = "running" /\ f.old   (* mutant: lost is long silent *)
Lost(f) == f.record.state = "running" /\ ~Alive

LostOf(r) == [r EXCEPT !.state = "lost"]
Shown(f)  == IF Lost(f) THEN LostOf(f.record) ELSE f.record

(* The pane draws it, or its prune goes on with a job that ended.          *)
Show ==
  /\ pane = "read"
  /\ view' = Shown(got)
  /\ pane' \in {"idle"} \union (IF view'.state # "running" /\ got.old THEN {"unlink"} ELSE {})
  /\ UNCHANGED <<own, job, tries, file, got, pid, gaveUp>>

Unlink ==
  /\ pane = "unlink" /\ pane' = "idle"
  /\ file' = None
  /\ UNCHANGED <<own, job, tries, got, view, pid, gaveUp>>

Gone ==
  /\ pane = "idle" /\ file = None /\ view' = None
  /\ UNCHANGED <<own, job, tries, file, pane, got, pid, gaveUp>>

-----------------------------------------------------------------------------
(* A day without a write, and the pid of a process that has gone.          *)
Day ==
  /\ file # None /\ file' = [file EXCEPT !.old = TRUE]
  /\ UNCHANGED <<own, job, tries, reader, pid, gaveUp>>

PidTaken ==
  /\ ~Alive /\ reused < MaxReuse
  /\ taken' = TRUE /\ reused' = reused + 1
  /\ UNCHANGED <<own, job, tries, file, reader, gaveUp>>

PidFreed ==
  /\ taken /\ taken' = FALSE
  /\ UNCHANGED <<own, job, tries, file, reader, reused, gaveUp>>

(* __enter__ forces the first write.                                       *)
Init ==
  /\ data = [state |-> "running", done |-> 0, ended |-> FALSE, nth |-> 0]
  /\ past = {data}
  /\ job = "rename" /\ tries = Tries /\ file = None /\ gaveUp = FALSE
  /\ pane = "idle" /\ got = None /\ view = None
  /\ taken = FALSE /\ reused = 0

Job  == Update \/ Conclude \/ Finish \/ Rename
Pane == Open \/ Close \/ Show \/ Unlink \/ Gone
Next == Job \/ Kill \/ Pane \/ Day \/ PidTaken \/ PidFreed

Spec == Init /\ [][Next]_vars

(* The pane redraws each second, a started write goes on, and the process  *)
(* that got the pid ends.  The job may hang, and nothing must be killed.   *)
Fairness == WF_vars(Pane) /\ WF_vars(Rename) /\ WF_vars(PidFreed)
FairSpec == Spec /\ Fairness

-----------------------------------------------------------------------------
(* Every variable has its type: a file that can be read is whole, wherever *)
(* its writer was killed (jobs() skips one it cannot parse, for good).     *)
TypeOK ==
  /\ data \in Records /\ past \subseteq Records
  /\ file \in Files \union {None} /\ got \in Files \union {None}
  /\ job \in {"work", "rename", "ended", "killed"} /\ tries \in 0..Tries
  /\ pane \in {"idle", "open", "read", "unlink"}
  /\ view \in Views \union {None}
  /\ taken \in BOOLEAN /\ reused \in 0..MaxReuse /\ gaveUp \in BOOLEAN
  /\ job = "rename" => tries > 0

(* "The last one on leaving the `with` is always written" (progress.py:15):*)
(* a job that ended by itself left its last word in the file, unless a     *)
(* reader held the file through every try or prune removed it.             *)
LastWordStands ==
  job = "ended" => gaveUp \/ file = None \/ file.record = data

(* What the pane shows happened, in that order: it is a record the job has *)
(* had (counts may go back, so only which one it is tells how old), or one *)
(* that said running and is shown lost, of a job that has gone; a job      *)
(* shown done or failed ended so and with that count; and it is no later   *)
(* than what was read, nor that than what the file says now, however often *)
(* the writes in between were left out, refused or given up.               *)
ShownIsTrue ==
  view # None =>
    /\ IF view.state = "lost" THEN ~Runs /\ \E r \in past : r.state = "running" /\ view = LostOf(r)
       ELSE view \in past
    /\ view.state \in {"done", "failed"} => view.state = data.state /\ view.done = data.done
    /\ view.nth <= got.record.nth
    /\ file # None => got.record.nth <= file.record.nth

(* A job that has ended or was killed is not shown running for good: the   *)
(* pane comes to show what the file says, or that the job was lost, though *)
(* the pid went to another process for a while.                            *)
Settled == view = IF file = None THEN None
                  ELSE IF file.record.state = "running" THEN LostOf(file.record) ELSE file.record
Settles == <>[](~Runs) => <>[]Settled
=============================================================================
