------------------------------- MODULE Backups -------------------------------
(***************************************************************************)
(* Backups: the worker's two background tasks that take them and the       *)
(* `deploypro backup` command (worker.py, engine/maintenance.py,           *)
(* engine/backup.py, cli.py), over the rows of MaintenanceRuns, and the    *)
(* copy of each one that Offsite describes.                                *)
(*                                                                         *)
(* A backup is named by the second it began; its name is here its place in *)
(* disk.  What it holds is abstracted to how much of it is there.  A task  *)
(* is killed with its process at any step; the row it had open stays, and  *)
(* the advisory lock goes with its connection.                             *)
(***************************************************************************)
EXTENDS MaintenanceRuns, Offsite

CONSTANTS
    Worker,      \* worker processes
    LastMoment,  \* bound: the clock stops here
    MaxFaults    \* bound: crashes, restarts and errors

VARIABLES
    disk,    \* the backups begun in the backup directory, oldest first
    lock,    \* who holds the advisory lock, or None
    task,    \* what each taker of backups is at
    up,      \* the workers that run
    moment,  \* the time: two moments a day, the earlier in the backup hour
    faults

backupVars == <<runs, disk, lock, task, up, moment, faults>>

vars == <<backupVars, offsiteVars>>

ASSUME BackupsAssumption ==
    /\ LastMoment \in Nat
    /\ MaxFaults \in Nat
    /\ MaxName = MaxRuns + 1
    /\ Copier = Worker \X {"daily", "requested"}
    /\ IsFiniteSet(Worker)

\* None is no taker of backups and no target.
ASSUME NoneAssumption == None \notin Copier \cup {<<None, "command">>} \cup Target

Command == <<None, "command">>

Task == Copier \cup {Command}

Moment == 0..LastMoment

\* The clock starts in the later moment of day 1.
Day(m) == 1 + (m + 1) \div 2
IsBackupHour(m) == m % 2 = 1

TaskState ==
    [at : {"idle", "begun", "write", "list", "prune", "finish", "copy", "fail"},
     run : 0..MaxRuns, name : Name \cup {None}, old : SUBSET Name]

IdleTask == [at |-> "idle", run |-> 0, name |-> None, old |-> {}]

Files == [n \in Name |-> IF n \in DOMAIN disk THEN disk[n].state ELSE "none"]

Fault == faults < MaxFaults /\ faults' = faults + 1

\* A task's process runs, and the task is not still at work (_every).
Free(t) ==
    /\ t = Command \/ t[1] \in up
    /\ task[t].at = "idle"
    /\ t # Command => copy[t].at = "idle"

Go(t, at) == task' = [task EXCEPT ![t].at = at]

-----------------------------------------------------------------------------
(* How a backup is asked for *)

\* taken_today: the newest finished name is of today.
TakenToday ==
    \E n \in Finished(Files) : Newer(Files, n) = {} /\ disk[n].day = Day(moment)

\* POST /system/backup.
RequestBackup ==
    /\ CanInsert("backup")
    /\ runs' = Inserted("backup", "requested")
    /\ UNCHANGED <<disk, lock, task, up, moment, faults, offsiteVars>>

\* _backup, every minute: the hour, what the directory holds, and begin,
\* which gives None while one is open.
DailyBegins(t) ==
    /\ t[2] = "daily"
    /\ Free(t)
    /\ IsBackupHour(moment) /\ ~TakenToday
    /\ CanInsert("backup")
    /\ runs' = Inserted("backup", "running")
    /\ task' = [task EXCEPT ![t].at = "begun", ![t].run = Len(runs) + 1]
    /\ UNCHANGED <<disk, lock, up, moment, faults, offsiteVars>>

\* `deploypro backup`.
CommandBegins ==
    /\ Free(Command)
    /\ CanInsert("backup")
    /\ runs' = Inserted("backup", "running")
    /\ task' = [task EXCEPT ![Command].at = "begun", ![Command].run = Len(runs) + 1]
    /\ UNCHANGED <<disk, lock, up, moment, faults, offsiteVars>>

\* _maintenance_requests, every 5 seconds: runs nobody finished are failed ...
AbandonStale(t) ==
    /\ t[2] = "requested"
    /\ Free(t)
    /\ \E r \in RunId : Stale(r)
    /\ runs' = AllAbandoned
    /\ UNCHANGED <<disk, lock, task, up, moment, faults, offsiteVars>>

\* ... and the requested one is claimed.
ClaimRequest(t) ==
    /\ t[2] = "requested"
    /\ Free(t)
    /\ \A r \in RunId : ~Stale(r)
    /\ \E r \in RunId :
          /\ Claimable(r, "backup")
          /\ runs' = WithStatus(r, "running")
          /\ task' = [task EXCEPT ![t].at = "begun", ![t].run = r]
    /\ UNCHANGED <<disk, lock, up, moment, faults, offsiteVars>>

-----------------------------------------------------------------------------
(* backup.take *)

\* Variant: the open row is trusted to keep others out.
LockGranted(t) == TRUE

\* pg_try_advisory_lock.
LockFree(t) == lock = None

\* _take begins under the .partial name, or BackupSkipped.
TakeBegins(t) ==
    /\ task[t].at = "begun"
    /\ IF LockFree(t)
       THEN /\ lock' = t
            /\ disk' = Append(disk, [state |-> "partial", day |-> Day(moment)])
            /\ task' = [task EXCEPT ![t].at = "write", ![t].name = Len(disk) + 1]
       ELSE Go(t, "fail") /\ UNCHANGED <<lock, disk>>
    /\ UNCHANGED <<runs, up, moment, faults, offsiteVars>>

\* The dump, every volume, every Redis and the manifest are written, the
\* directory gets its name and the lock is given back.
TakeCompletes(t) ==
    /\ task[t].at = "write"
    /\ disk' = [disk EXCEPT ![task[t].name].state = "whole"]
    /\ lock' = None
    /\ Go(t, "list")
    /\ UNCHANGED <<runs, up, moment, faults, offsiteVars>>

\* The dump or a volume fails, or a volume's project has no image left.
TakeRaises(t) ==
    /\ task[t].at = "write"
    /\ Fault
    /\ disk' = [disk EXCEPT ![task[t].name].state = "none"]
    /\ lock' = None
    /\ Go(t, "fail")
    /\ UNCHANGED <<runs, up, moment, offsiteVars>>

\* prune lists, without the lock ...
PruneLists(t) ==
    /\ task[t].at = "list"
    /\ task' = [task EXCEPT ![t].at = "prune", ![t].old = Old(Files)]
    /\ UNCHANGED <<runs, disk, lock, up, moment, faults, offsiteVars>>

\* ... and removes one tree after the other, newest first.
Prunes(t) ==
    LET left == {n \in task[t].old : Files[n] # "none"}
    IN  /\ task[t].at = "prune"
        /\ IF left = {}
           THEN /\ task' = [task EXCEPT ![t].at = "finish", ![t].old = {}]
                /\ UNCHANGED disk
           ELSE /\ \E n \in left :
                      /\ \A m \in left : n >= m
                      /\ disk' = [disk EXCEPT ![n].state = Torn(Files, n)[n]]
                /\ UNCHANGED task
        /\ UNCHANGED <<runs, lock, up, moment, faults, offsiteVars>>

-----------------------------------------------------------------------------
(* How a run ends *)

\* finish, whatever the row says by now.  The command does not copy.
RunFinishes(t) ==
    /\ task[t].at = "finish"
    /\ runs' = Closed(task[t].run, "succeeded")
    /\ task' = [task EXCEPT ![t] = IF t = Command THEN IdleTask
                                   ELSE [@ EXCEPT !.at = "copy", !.run = 0]]
    /\ UNCHANGED <<disk, lock, up, moment, faults, offsiteVars>>

RunFails(t) ==
    /\ task[t].at = "fail"
    /\ runs' = Closed(task[t].run, "failed")
    /\ task' = [task EXCEPT ![t] = IdleTask]
    /\ UNCHANGED <<disk, lock, up, moment, faults, offsiteVars>>

\* offsite.copy: nothing without a target.
CopyStarts(t) ==
    /\ task[t].at = "copy"
    /\ task' = [task EXCEPT ![t] = IdleTask]
    /\ IF target = None THEN UNCHANGED offsiteVars ELSE CopyBegins(t, task[t].name)
    /\ UNCHANGED <<runs, disk, lock, up, moment, faults>>

CopyMoves(t) ==
    /\ CopyStep(t)
    /\ UNCHANGED backupVars

CopyFails(t) ==
    /\ Fault
    /\ CopyDrops(t)
    /\ UNCHANGED <<runs, disk, lock, task, up, moment>>

-----------------------------------------------------------------------------
(* Processes and time *)

\* The tasks T end where they are: killed, or cancelled by a worker that
\* stops, which removes the .partial directory.  Their rows stay open.
Ends(T) ==
    /\ \E cancelled \in BOOLEAN :
          disk' = [n \in DOMAIN disk |->
                      IF cancelled /\ \E t \in T : task[t].at = "write" /\ task[t].name = n
                      THEN [disk[n] EXCEPT !.state = "none"] ELSE disk[n]]
    /\ lock' = IF lock \in T THEN None ELSE lock
    /\ task' = [t \in Task |-> IF t \in T THEN IdleTask ELSE task[t]]
    /\ copy' = [c \in Copier |-> IF c \in T THEN IdleCopy ELSE copy[c]]
    /\ UNCHANGED <<target, authorized, remote, request, asks>>

WorkerEnds(w) ==
    /\ w \in up
    /\ Fault
    /\ up' = up \ {w}
    /\ Ends({t \in Copier : t[1] = w})
    /\ UNCHANGED <<runs, moment>>

CommandKilled ==
    /\ task[Command].at # "idle"
    /\ Fault
    /\ Ends({Command})
    /\ UNCHANGED <<runs, up, moment>>

WorkerStarts(w) ==
    /\ w \notin up
    /\ up' = up \cup {w}
    /\ UNCHANGED <<runs, disk, lock, task, moment, faults, offsiteVars>>

\* Twelve hours: more than a backup of most hosts takes, not of all.
GoesStale(r) ==
    /\ runs[r].status = "running"
    /\ ~runs[r].stale
    /\ runs' = [runs EXCEPT ![r].stale = TRUE]
    /\ UNCHANGED <<disk, lock, task, up, moment, faults, offsiteVars>>

Tick ==
    /\ moment < LastMoment
    /\ moment' = moment + 1
    /\ UNCHANGED <<runs, disk, lock, task, up, faults, offsiteVars>>

OwnerActs(r) ==
    /\ RequestStep(r)
    /\ UNCHANGED backupVars

-----------------------------------------------------------------------------
TaskStep(t) ==
    \/ TakeBegins(t)
    \/ TakeCompletes(t)
    \/ PruneLists(t)
    \/ Prunes(t)
    \/ RunFinishes(t)
    \/ RunFails(t)

CopyTaskStep(t) == CopyStarts(t) \/ CopyMoves(t)

Next ==
    \/ RequestBackup
    \/ CommandBegins
    \/ \E t \in Task : TaskStep(t) \/ TakeRaises(t)
    \/ \E t \in Copier :
          \/ DailyBegins(t) \/ AbandonStale(t) \/ ClaimRequest(t)
          \/ CopyTaskStep(t) \/ CopyFails(t)
    \/ \E w \in Worker : WorkerEnds(w) \/ WorkerStarts(w)
    \/ CommandKilled
    \/ \E r \in RunId : GoesStale(r)
    \/ Tick
    \/ \E r \in Request : OwnerActs(r)

\* A new host, or one whose last backup was copied.
Init ==
    /\ runs = <<>>
    /\ lock = None
    /\ task = [t \in Task |-> IdleTask]
    /\ up = Worker
    /\ moment = 0
    /\ faults = 0
    /\ OffsiteInit(1)
    /\ disk = IF target = None THEN <<>> ELSE <<[state |-> "whole", day |-> 0]>>

Spec == Init /\ [][Next]_vars

\* A worker that ends is started again; a task does what it has in hand, and
\* asks again every few seconds; time passes.
Fairness ==
    /\ \A t \in Task : WF_vars(TaskStep(t))
    /\ \A t \in Copier :
          /\ WF_vars(CopyTaskStep(t))
          /\ WF_vars(AbandonStale(t))
          /\ WF_vars(ClaimRequest(t))
    /\ \A w \in Worker : WF_vars(WorkerStarts(w))
    /\ \A r \in 1..MaxRuns : WF_vars(r \in RunId /\ GoesStale(r))

FairSpec == Spec /\ Fairness

-----------------------------------------------------------------------------
\* Every variable keeps its type.
TypeOK ==
    /\ RunsTypeOK
    /\ disk \in Seq([state : Content, day : Nat])
    /\ Len(disk) <= MaxName
    /\ lock \in Task \cup {None}
    /\ task \in [Task -> TaskState]
    /\ up \subseteq Worker
    /\ moment \in Moment
    /\ faults \in 0..MaxFaults
    /\ OffsiteTypeOK

\* One backup is written at a time, even when the row of the one that is
\* being written was failed as abandoned and another began: "two backups
\* write two copies of every volume at once" (0006_maintenance.sql:31).
OneWriter == Cardinality({t \in Task : task[t].at = "write"}) <= 1

\* A backup that was whole is only ever touched with Keep newer ones whole,
\* although prune runs without the lock, beside other writers, and may be
\* killed halfway through a tree.
BackupsKept ==
    [][\A n \in DOMAIN disk :
          disk[n].state = "whole" /\ disk'[n].state # "whole" =>
             Cardinality({m \in DOMAIN disk : m > n /\ disk[m].state = "whole"}) >= Keep]_vars

\* Neither side's pruning leaves fewer than Keep.
KeepsEnough == BackupsKept /\ CopiesKept

\* A run that was asked for or begun is over in the end, though its process
\* dies with it (repositories/maintenance.py:120: "so they do not block the
\* next one of their kind for ever").
EveryRunCloses ==
    \A r \in 1..MaxRuns :
        (r \in RunId /\ IsOpen(r)) ~> (r \in RunId /\ ~IsOpen(r))
=============================================================================
