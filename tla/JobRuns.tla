------------------------------ MODULE JobRuns ------------------------------
(***************************************************************************)
(* Scheduled jobs of one project: the sweep that turns due minutes into    *)
(* rows of job_runs (engine/scheduler.py), "run now" (routers/processes.py)*)
(* the job loop that claims and runs them (worker.py, engine/processes.py) *)
(* and the sweeps that fail lost runs and delete old ones.                 *)
(*                                                                         *)
(* A slot is a process and the minute its schedule names.  The row of a    *)
(* slot is the only memory of it: whoever inserts it decides that the slot *)
(* runs, whoever moves it from pending to running runs it, and what the    *)
(* row says afterwards is written by slot, never compared with a worker.   *)
(*                                                                         *)
(* Time is a clock in minutes for the slots, the catch-up horizon and the  *)
(* retention.  How long a job runs is not measured by it: a job may exit,  *)
(* time out, or outlive its lease at any point of the clock.               *)
(***************************************************************************)
EXTENDS Integers, FiniteSets

CONSTANTS
    Process,         \* the project's cron processes
    Schedule,        \* the minutes each one's expression names
    Worker,          \* worker processes
    Horizon,         \* MAX_CATCHUP
    Retention,       \* log_retention_days
    JobConcurrency,  \* JOB_CONCURRENCY
    Slow,            \* processes whose timeout exceeds the 7200 s of a lease
    Pressed,         \* the minutes in which people press "run now"
    LastMinute,      \* bound: the clock stops here
    MaxFaults,       \* bound: crashes, stops and raised errors
    None

Minute == 0..LastMinute
Slot == Process \X Minute

ASSUME ScheduleAssumption == Schedule \in [Process -> SUBSET Minute]
ASSUME TimeAssumption ==
    /\ Horizon \in Nat
    /\ Retention \in Nat
    /\ LastMinute \in Nat
    /\ Pressed \subseteq Minute
ASSUME LimitAssumption == JobConcurrency \in Nat \ {0} /\ MaxFaults \in Nat
ASSUME SlowAssumption == Slow \subseteq Process
ASSUME NoneAssumption == None \notin Slot \cup Worker

VARIABLES
    now,      \* the minute it is
    serving,  \* the project has a production deployment with an image
    process,  \* each process: on, off (not enabled) or gone (deleted)
    runs,     \* job_runs, by slot
    worker,   \* each worker: up, stopping or down
    sweep,    \* each worker's job loop: what its schedule sweep has read
    tasks,    \* the job tasks of all workers
    box,      \* the container of each slot, and how often one was started
    request,  \* the slot a "run now" is about to insert, or None
    faults    \* faults so far

vars == <<now, serving, process, runs, worker, sweep, tasks, box, request, faults>>

Terminal == {"succeeded", "failed", "timed_out", "skipped"}
Status == {"none", "pending", "running"} \cup Terminal

Row == [status : Status, by : Worker \cup {None}, late : BOOLEAN]

NoRow == [status |-> "none", by |-> None, late |-> FALSE]

Exists(s) == runs[s].status # "none"

\* The job loop is between two iterations ("top"), about to claim ("claim"),
\* or going through the processes list_scheduled returned.
Sweep == [at : {"top", "claim", "list"}, moment : Minute,
          todo : SUBSET Process, slot : Slot \cup {None}, serving : BOOLEAN]

At(pc) == [at |-> pc, moment |-> 0, todo |-> {}, slot |-> None, serving |-> FALSE]

Task == [worker : Worker, slot : Slot,
         phase : {"claimed", "start", "running", "finish"},
         outcome : Terminal \cup {None}]

Box == [state : {"none", "running", "exited"}, starts : Nat]

Fault == faults < MaxFaults /\ faults' = faults + 1

Holders(s) == {t \in tasks : t.slot = s}

TasksOf(w) == {t \in tasks : t.worker = w}

-----------------------------------------------------------------------------
(* The table *)

\* Variant: DO UPDATE instead of DO NOTHING.
Upserted(s, status) == [runs EXCEPT ![s] = [NoRow EXCEPT !.status = status]]

\* claim_slot: INSERT ... ON CONFLICT (process_id, scheduled_for) DO NOTHING.
Inserted(s, status) ==
    IF Exists(s) THEN runs
    ELSE [runs EXCEPT ![s] = [NoRow EXCEPT !.status = status]]

\* Variant: a run that failed is tried again.
ClaimFailed(s) ==
    /\ runs[s].status \in {"pending", "failed"}
    /\ \A t \in Slot : runs[t].status = "pending" => s[2] <= t[2]

\* claim_next_run's subquery: the oldest slot that is pending.
ClaimFirst(s) ==
    /\ runs[s].status = "pending"
    /\ \A t \in Slot : runs[t].status = "pending" => s[2] <= t[2]

Claimed(s, w) ==
    [runs EXCEPT ![s] = [status |-> "running", by |-> w, late |-> FALSE]]

\* Variant: a status the type job_status does not have.
FinishedAsExited(s, status) ==
    [runs EXCEPT ![s] = [NoRow EXCEPT !.status = "exited"]]

\* finish_run: by id alone.
Finished(s, status) ==
    [runs EXCEPT ![s] = [NoRow EXCEPT !.status = status]]

\* Variant: any run that is running.
AbandonedAtOnce(s) == runs[s].status = "running"

\* reclaim_abandoned_runs: claimed more than 7200 s ago and still running.
\* Jobs have no heartbeat.
Abandoned(s) == runs[s].status = "running" /\ runs[s].late

\* Variant: the lease is taken over, and nobody runs the job.
Renewed ==
    [s \in Slot |-> IF Abandoned(s) THEN [runs[s] EXCEPT !.late = FALSE]
                    ELSE runs[s]]

Reclaimed ==
    [s \in Slot |-> IF Abandoned(s) THEN [NoRow EXCEPT !.status = "failed"]
                    ELSE runs[s]]

\* delete_old_runs: over, past the retention, and not its process's newest.
Expired(s) ==
    /\ runs[s].status \in Terminal
    /\ s[2] < now - Retention
    /\ \E t \in Slot : Exists(t) /\ t[1] = s[1] /\ t[2] > s[2]

Kept == [s \in Slot |-> IF Expired(s) THEN NoRow ELSE runs[s]]

\* A process's rows go with it (ON DELETE CASCADE).
Without(p) == [s \in Slot |-> IF s[1] = p THEN NoRow ELSE runs[s]]

-----------------------------------------------------------------------------
(* The sweep *)

\* due_slot: the minutes the schedule names within the horizon ...
Due(p, moment) == {m \in Schedule[p] : m <= moment /\ m >= moment - Horizon}

\* ... of which only the newest counts.
DueSlots(p, moment) ==
    {<<p, m>> : m \in {x \in Due(p, moment) : \A y \in Due(p, moment) : y <= x}}

Look(w, at) == sweep' = [sweep EXCEPT ![w] = at]

\* _schedule: every 20 seconds the loop lists the enabled cron processes.
SweepStart(w) ==
    /\ worker[w] = "up"
    /\ sweep[w].at = "top"
    /\ Look(w, [At("list") EXCEPT !.moment = now,
                                  !.todo = {p \in Process : process[p] = "on"}])
    /\ UNCHANGED <<now, serving, process, runs, worker, tasks, box, request, faults>>

\* _schedule returned early: the 20 seconds are not over.
SweepLater(w) ==
    /\ worker[w] = "up"
    /\ sweep[w].at = "top"
    /\ Look(w, At("claim"))
    /\ UNCHANGED <<now, serving, process, runs, worker, tasks, box, request, faults>>

\* The next process, and the project's production if it owes a slot.
SweepRead(w, p) ==
    /\ sweep[w].at = "list"
    /\ sweep[w].slot = None
    /\ p \in sweep[w].todo
    /\ LET rest == [sweep[w] EXCEPT !.todo = @ \ {p}]
           due == DueSlots(p, sweep[w].moment)
       IN  \/ due = {} /\ Look(w, rest)
           \/ \E s \in due :
                 Look(w, [rest EXCEPT !.slot = s, !.serving = serving])
    /\ UNCHANGED <<now, serving, process, runs, worker, tasks, box, request, faults>>

\* Variant: a slot with nothing to run is dropped rather than recorded.
SweepClaimServing(w) ==
    LET s == sweep[w].slot
    IN  /\ sweep[w].at = "list"
        /\ s # None
        /\ process[s[1]] # "gone"
        /\ runs' = IF sweep[w].serving THEN Inserted(s, "pending") ELSE runs
        /\ Look(w, [sweep[w] EXCEPT !.slot = None, !.serving = FALSE])
        /\ UNCHANGED <<now, serving, process, worker, tasks, box, request, faults>>

\* claim_slot, straight to skipped when nothing is in production.
SweepClaim(w) ==
    LET s == sweep[w].slot
    IN  /\ sweep[w].at = "list"
        /\ s # None
        /\ process[s[1]] # "gone"
        /\ runs' = Inserted(s, IF sweep[w].serving THEN "pending" ELSE "skipped")
        /\ Look(w, [sweep[w] EXCEPT !.slot = None, !.serving = FALSE])
        /\ UNCHANGED <<now, serving, process, worker, tasks, box, request, faults>>

\* The process was deleted since the list was read: the insert violates its
\* foreign key, and _schedule logs it and drops the rest of the list.
SweepRaises(w) ==
    /\ sweep[w].at = "list"
    /\ sweep[w].slot # None
    /\ process[sweep[w].slot[1]] = "gone"
    /\ Look(w, At("claim"))
    /\ UNCHANGED <<now, serving, process, runs, worker, tasks, box, request, faults>>

\* A read or a write fails.  _schedule survives it and the loop goes on to
\* claim; a claim that fails is retried (_keep_going).
LoopRaises(w) ==
    /\ sweep[w].at # "top"
    /\ Fault
    /\ Look(w, At(IF sweep[w].at = "list" THEN "claim" ELSE "top"))
    /\ UNCHANGED <<now, serving, process, runs, worker, tasks, box, request>>

SweepEnds(w) ==
    /\ sweep[w].at = "list"
    /\ sweep[w].slot = None
    /\ sweep[w].todo = {}
    /\ Look(w, At("claim"))
    /\ UNCHANGED <<now, serving, process, runs, worker, tasks, box, request, faults>>

-----------------------------------------------------------------------------
(* "Run now" *)

\* The process and its project are read, and the minute it is.
RunNowRead(p) ==
    /\ now \in Pressed
    /\ request = None
    /\ process[p] # "gone"
    /\ request' = <<p, now>>
    /\ UNCHANGED <<now, serving, process, runs, worker, sweep, tasks, box, faults>>

\* claim_slot: a conflict is a 409, a process deleted meanwhile an error.
RunNowClaim ==
    /\ request # None
    /\ runs' = IF process[request[1]] = "gone" THEN runs
               ELSE Inserted(request, "pending")
    /\ request' = None
    /\ UNCHANGED <<now, serving, process, worker, sweep, tasks, box, faults>>

-----------------------------------------------------------------------------
(* The job loop *)

\* _job_once claims one run while it has fewer than JOB_CONCURRENCY tasks.
ClaimRun(w) ==
    /\ sweep[w].at = "claim"
    /\ Cardinality(TasksOf(w)) < JobConcurrency
    /\ \E s \in Slot :
          /\ ClaimFirst(s)
          /\ runs' = Claimed(s, w)
          /\ tasks' = tasks \cup {[worker |-> w, slot |-> s, phase |-> "claimed",
                                   outcome |-> None]}
    /\ Look(w, At("top"))
    /\ UNCHANGED <<now, serving, process, worker, box, request, faults>>

NothingToClaim(w) ==
    /\ sweep[w].at = "claim"
    /\ \/ Cardinality(TasksOf(w)) >= JobConcurrency
       \/ \A s \in Slot : runs[s].status # "pending"
    /\ Look(w, At("top"))
    /\ UNCHANGED <<now, serving, process, runs, worker, tasks, box, request, faults>>

Advance(t, phase, outcome) ==
    tasks' = (tasks \ {t}) \cup {[t EXCEPT !.phase = phase, !.outcome = outcome]}

Drop(t) == tasks' = tasks \ {t}

\* _execute reads the process, run_job the project and what is in production.
JobReads(t) ==
    /\ t.phase = "claimed"
    /\ process[t.slot[1]] # "gone"
    /\ IF serving THEN Advance(t, "start", None)
                  ELSE Advance(t, "finish", "skipped")
    /\ UNCHANGED <<now, serving, process, runs, worker, sweep, box, request, faults>>

\* _execute found no process: it logs and returns.
JobHasNoProcess(t) ==
    /\ t.phase = "claimed"
    /\ process[t.slot[1]] = "gone"
    /\ Drop(t)
    /\ UNCHANGED <<now, serving, process, runs, worker, sweep, box, request, faults>>

\* run_once: whatever has the slot's name is removed, then docker run.
JobStarts(t) ==
    /\ t.phase = "start"
    /\ Advance(t, "running", None)
    /\ box' = [box EXCEPT ![t.slot] = [state |-> "running", starts |-> @.starts + 1]]
    /\ UNCHANGED <<now, serving, process, runs, worker, sweep, request, faults>>

\* The command ended by itself: the container is removed.
JobEnds(t) ==
    /\ t.phase = "running"
    /\ box[t.slot].state = "exited"
    /\ \E outcome \in {"succeeded", "failed"} : Advance(t, "finish", outcome)
    /\ box' = [box EXCEPT ![t.slot].state = "none"]
    /\ UNCHANGED <<now, serving, process, runs, worker, sweep, request, faults>>

\* Its timeout expired: it is killed and removed.
JobTimesOut(t) ==
    /\ t.phase = "running"
    /\ box[t.slot].state = "running"
    /\ Advance(t, "finish", "timed_out")
    /\ box' = [box EXCEPT ![t.slot].state = "none"]
    /\ UNCHANGED <<now, serving, process, runs, worker, sweep, request, faults>>

\* The environment, a volume or docker raises: recorded as failed.
JobErrs(t) ==
    /\ t.phase \in {"start", "running"}
    /\ Fault
    /\ Advance(t, "finish", "failed")
    /\ UNCHANGED <<now, serving, process, runs, worker, sweep, box, request>>

\* finish_run: the row, if it is still there, else NotFound ends the task.
JobFinishes(t) ==
    /\ t.phase = "finish"
    /\ runs' = IF Exists(t.slot) THEN Finished(t.slot, t.outcome) ELSE runs
    /\ Drop(t)
    /\ UNCHANGED <<now, serving, process, worker, sweep, box, request, faults>>

\* The database refuses a read or a write: the task dies, its row stays.
JobDies(t) ==
    /\ t.phase \in {"claimed", "finish"}
    /\ Fault
    /\ Drop(t)
    /\ UNCHANGED <<now, serving, process, runs, worker, sweep, box, request>>

-----------------------------------------------------------------------------
(* The worker's other sweeps, and its life *)

\* _reclaim, between deploys.
Reclaim(w) ==
    /\ worker[w] # "down"
    /\ \E s \in Slot : Abandoned(s)
    /\ runs' = Reclaimed
    /\ UNCHANGED <<now, serving, process, worker, sweep, tasks, box, request, faults>>

\* The hourly housekeeping.
DeleteOld(w) ==
    /\ worker[w] # "down"
    /\ \E s \in Slot : Expired(s)
    /\ runs' = Kept
    /\ UNCHANGED <<now, serving, process, worker, sweep, tasks, box, request, faults>>

\* SIGTERM: no new iteration, and the tasks are waited for.
Stop(w) ==
    /\ worker[w] = "up"
    /\ Fault
    /\ worker' = [worker EXCEPT ![w] = "stopping"]
    /\ UNCHANGED <<now, serving, process, runs, sweep, tasks, box, request>>

Stopped(w) ==
    /\ worker[w] = "stopping"
    /\ sweep[w].at = "top"
    /\ TasksOf(w) = {}
    /\ worker' = [worker EXCEPT ![w] = "down"]
    /\ UNCHANGED <<now, serving, process, runs, sweep, tasks, box, request, faults>>

\* Its tasks are gone with it; the containers they started are not.
Crash(w) ==
    /\ worker[w] # "down"
    /\ Fault
    /\ worker' = [worker EXCEPT ![w] = "down"]
    /\ Look(w, At("top"))
    /\ tasks' = tasks \ TasksOf(w)
    /\ UNCHANGED <<now, serving, process, runs, box, request>>

Restart(w) ==
    /\ worker[w] = "down"
    /\ worker' = [worker EXCEPT ![w] = "up"]
    /\ UNCHANGED <<now, serving, process, runs, sweep, tasks, box, request, faults>>

-----------------------------------------------------------------------------
(* Everything else *)

\* A sweep and a request last seconds: the clock moves at most once in one.
Tick ==
    /\ now < LastMinute
    /\ \A w \in Worker : sweep[w].at = "list" => sweep[w].moment = now
    /\ request # None => request[2] = now
    /\ now' = now + 1
    /\ UNCHANGED <<serving, process, runs, worker, sweep, tasks, box, request, faults>>

\* The first deployment is promoted; nothing empties production again.
Promote ==
    /\ ~serving
    /\ serving' = TRUE
    /\ UNCHANGED <<now, process, runs, worker, sweep, tasks, box, request, faults>>

\* Bound: people change the processes before the last minute.
Toggle(p) ==
    /\ now < LastMinute
    /\ process[p] # "gone"
    /\ process' = [process EXCEPT ![p] = IF @ = "on" THEN "off" ELSE "on"]
    /\ UNCHANGED <<now, serving, runs, worker, sweep, tasks, box, request, faults>>

Delete(p) ==
    /\ now < LastMinute
    /\ process[p] # "gone"
    /\ process' = [process EXCEPT ![p] = "gone"]
    /\ runs' = Without(p)
    /\ UNCHANGED <<now, serving, worker, sweep, tasks, box, request, faults>>

BoxExits(s) ==
    /\ box[s].state = "running"
    /\ box' = [box EXCEPT ![s].state = "exited"]
    /\ UNCHANGED <<now, serving, process, runs, worker, sweep, tasks, request, faults>>

\* 7200 s since the claim.  A job with a shorter timeout is over by then, if
\* its worker lives.
LeaseExpires(s) ==
    /\ runs[s].status = "running"
    /\ ~runs[s].late
    /\ s[1] \in Slow \/ Holders(s) = {}
    /\ runs' = [runs EXCEPT ![s].late = TRUE]
    /\ UNCHANGED <<now, serving, process, worker, sweep, tasks, box, request, faults>>

-----------------------------------------------------------------------------
SweepStep(w) ==
    \/ \E p \in Process : SweepRead(w, p)
    \/ SweepClaim(w)
    \/ SweepRaises(w)
    \/ SweepEnds(w)

LoopStep(w) ==
    \/ SweepStep(w)
    \/ SweepStart(w)
    \/ SweepLater(w)
    \/ ClaimRun(w)
    \/ NothingToClaim(w)

JobStep(t) ==
    \/ JobReads(t)
    \/ JobHasNoProcess(t)
    \/ JobStarts(t)
    \/ JobEnds(t)
    \/ JobTimesOut(t)
    \/ JobFinishes(t)

JobFault(t) == JobErrs(t) \/ JobDies(t)

LifeStep(w) == LoopRaises(w) \/ Stop(w) \/ Stopped(w) \/ Crash(w) \/ Restart(w)

OwnerStep(p) == RunNowRead(p) \/ Toggle(p) \/ Delete(p)

Next ==
    \/ \E w \in Worker : LoopStep(w) \/ Reclaim(w) \/ DeleteOld(w) \/ LifeStep(w)
    \/ \E t \in tasks : JobStep(t) \/ JobFault(t)
    \/ \E p \in Process : OwnerStep(p)
    \/ RunNowClaim
    \/ \E s \in Slot : BoxExits(s) \/ LeaseExpires(s)
    \/ Tick
    \/ Promote

Init ==
    /\ now = 0
    /\ serving \in BOOLEAN
    /\ process = [p \in Process |-> "on"]
    /\ runs = [s \in Slot |-> NoRow]
    /\ worker = [w \in Worker |-> "down"]
    /\ sweep = [w \in Worker |-> At("top")]
    /\ tasks = {}
    /\ box = [s \in Slot |-> [state |-> "none", starts |-> 0]]
    /\ request = None
    /\ faults = 0

Spec == Init /\ [][Next]_vars

\* docker-compose.yml restarts a worker, a worker does what it has in hand
\* and sweeps every 20 seconds, time passes.
Fairness ==
    /\ \A w \in Worker :
          /\ WF_vars(LoopStep(w))
          /\ SF_vars(SweepStart(w))
          /\ WF_vars(Reclaim(w))
          /\ WF_vars(Restart(w) \/ Stopped(w))
    /\ \A s \in Slot :
          /\ WF_vars(\E t \in Holders(s) : JobStep(t))
          /\ WF_vars(LeaseExpires(s))
    /\ WF_vars(RunNowClaim)
    /\ WF_vars(Tick)

FairSpec == Spec /\ Fairness

-----------------------------------------------------------------------------
\* Every variable keeps its type.
TypeOK ==
    /\ now \in Minute
    /\ serving \in BOOLEAN
    /\ process \in [Process -> {"on", "off", "gone"}]
    /\ runs \in [Slot -> Row]
    /\ worker \in [Worker -> {"up", "stopping", "down"}]
    /\ sweep \in [Worker -> Sweep]
    /\ tasks \subseteq Task
    /\ box \in [Slot -> Box]
    /\ request \in Slot \cup {None}
    /\ faults \in 0..MaxFaults

\* A slot's container is started at most once, however many workers sweep
\* and however late, whoever presses "run now", whatever crashes, and
\* whatever the housekeeping has deleted (0002_processes.sql: "a slot can be
\* claimed exactly once").
ExactlyOnce == \A s \in Slot : box[s].starts <= 1

\* Nobody takes a run away from the task that has it: the row says so until
\* the task is over, unless the process is deleted.
TasksHoldTheirRuns ==
    \A t \in tasks :
        /\ Holders(t.slot) = {t}
        /\ runs[t.slot].status = "running" => runs[t.slot].by = t.worker
        /\ process[t.slot[1]] # "gone" => runs[t.slot].status = "running"

\* What a run ended as is not changed afterwards: a run failed as abandoned
\* is not finished by a worker that was only slow.
EndsOnce ==
    [][\A s \in Slot : runs[s].status \in Terminal =>
           runs'[s] \in {runs[s], NoRow}]_vars

\* Every run that is queued is over in the end, though its worker dies with
\* it: "a cron job that silently stops is worse than one that fails loudly".
EveryRunEnds ==
    \A s \in Slot : runs[s].status \in {"pending", "running"}
                       ~> runs[s].status \in Terminal \cup {"none"}

\* A worker that was down at the minute a schedule names still finds it: when
\* nothing else changes, the newest slot within the horizon has its row.
CatchesUp ==
    <>[](\A p \in Process : process[p] = "on" =>
            \A s \in DueSlots(p, now) : Exists(s))
=============================================================================
