------------------------------ MODULE Pipeline ------------------------------
(***************************************************************************)
(* The build queue and the workers that empty it: queueing and superseding *)
(* (engine/service.py), cancelling (routers/deployments.py), the deploy    *)
(* loop (worker.py) and one deployment from claim to promotion             *)
(* (engine/pipeline.py).  The promotion at its end, and the promotions and *)
(* domain changes people ask for meanwhile, are module Promotion's.        *)
(*                                                                         *)
(* Nothing after the claim compares the row with the worker that claimed   *)
(* it: a lease is a timestamp for the sweep, not a fence.                  *)
(***************************************************************************)
EXTENDS Promotion

CONSTANTS
    Asks,    \* what requests do here: "promote", "domains", "cancel"
    Stalls   \* a worker may outlive its lease: a phase takes too long

ASSUME AsksAssumption == Asks \subseteq {"promote", "domains", "cancel"}
ASSUME StallsAssumption == Stalls \in BOOLEAN

vars == promotionVars

-----------------------------------------------------------------------------
(* Requests *)

\* A push, a deploy or a redeploy: the row is inserted, with the number the
\* INSERT computes.
QueueDeploy(r, d, ref, trigger) ==
    /\ task[r].pc = "idle"
    /\ IsNextNumber(d)
    /\ rows' = Created(d, ref, trigger)
    /\ Become(r, IF trigger = "push"
                 THEN [Rest("supersede") EXCEPT !.op = "queue", !.d = d]
                 ELSE Rest("idle"))
    /\ UNCHANGED <<production, docker, route, verified, background, bounds>>

\* Then, in a second statement, what it replaces is cancelled.
Supersede(r) ==
    /\ At(r, "queue", "supersede")
    /\ rows' = Superseded(task[r].d)
    /\ Become(r, Rest("idle"))
    /\ UNCHANGED <<production, docker, route, verified, background, bounds>>

\* The cancel endpoints read the row and refuse unless it is queued ...
CancelRead(r, d) ==
    /\ Asked
    /\ task[r].pc = "idle"
    /\ rows[d].status = "queued"
    /\ Become(r, [Rest("cancel") EXCEPT !.op = "cancel", !.d = d])
    /\ UNCHANGED <<rows, production, docker, route, verified, background, faults>>

\* ... and write what they decided, whatever the row is by then.
CancelWrite(r) ==
    /\ At(r, "cancel", "cancel")
    /\ rows' = MarkedCancelled(task[r].d)
    /\ Become(r, Rest("idle"))
    /\ UNCHANGED <<production, docker, route, verified, background, bounds>>

-----------------------------------------------------------------------------
(* The deploy loop *)

\* reclaim_abandoned, at most once a minute and only between deploys.
SweepAbandoned(w) ==
    /\ task[w].pc = "loop"
    /\ \E d \in Deployment : Abandoned(d)
    /\ rows' = Reclaimed
    /\ UNCHANGED <<production, docker, route, verified, background, task, bounds>>

ClaimNext(w) ==
    /\ task[w].pc = "loop"
    /\ \E d \in Deployment :
          /\ Claimable(d)
          /\ rows' = Claimed(d, w)
          /\ Become(w, [Rest("checkout") EXCEPT !.op = "deploy", !.d = d])
    /\ UNCHANGED <<production, docker, route, verified, background, bounds>>

\* The clone, then the lease is pushed forward.  A background service has no
\* previews, and is refused before anything is cloned.
Checkout(w) ==
    /\ At(w, "deploy", "checkout")
    /\ background => IsProductionRef(task[w].d)
    /\ rows' = Heartbeat(task[w].d)
    /\ Goto(w, "plan")
    /\ UNCHANGED <<production, docker, route, verified, background, bounds>>

\* Detection, then the lease is pushed forward for the last time.
Plan(w) ==
    /\ At(w, "deploy", "plan")
    /\ rows' = Heartbeat(task[w].d)
    /\ Goto(w, "build")
    /\ UNCHANGED <<production, docker, route, verified, background, bounds>>

Build(w) ==
    /\ At(w, "deploy", "build")
    /\ Goto(w, "built")
    /\ UNCHANGED <<rows, production, docker, route, verified, background, bounds>>

\* No room on the disk, no such commit, no framework found, a build that
\* fails or runs out of time.
PhaseFails(w) ==
    /\ task[w].op = "deploy"
    /\ task[w].pc \in {"checkout", "plan", "build"}
    /\ Goto(w, "fail")
    /\ UNCHANGED <<rows, production, docker, route, verified, background, bounds>>

\* A row whose lease was swept or cancelled away cannot become deploying: the
\* CHECK refuses the UPDATE, and the deployment fails.
MarkBuilt(w) ==
    /\ At(w, "deploy", "built")
    /\ IF LeaseMatchesStatus(Built(rows[task[w].d]))
       THEN rows' = MarkedBuilt(task[w].d) /\ Goto(w, "launch")
       ELSE Goto(w, "fail") /\ UNCHANGED rows
    /\ UNCHANGED <<production, docker, route, verified, background, bounds>>

\* Ready; production's branch goes on to promote itself.
MarkReady(w) ==
    /\ At(w, "deploy", "ready")
    /\ rows' = MarkedReady(task[w].d, task[w].c)
    /\ Begin(w, IF IsProductionRef(task[w].d)
                THEN [Rest("check") EXCEPT !.op = "promote", !.d = task[w].d]
                ELSE Rest("loop"))
    /\ UNCHANGED <<production, docker, route, verified, background, bounds>>

\* run_deployment's except clauses, whichever step raised.
MarkFailed(w) ==
    /\ At(w, "deploy", "fail")
    /\ rows' = MarkedFailed(task[w].d)
    /\ Become(w, Rest("loop"))
    /\ UNCHANGED <<production, docker, route, verified, background, bounds>>

\* The except clause writes to the database too: if that is what failed, the
\* error ends the deploy, the row stays as it is and the loop goes on.
LoopSurvives(w) ==
    /\ Fault
    /\ task[w].op \in {"deploy", "promote"}
    /\ Become(w, Rest("loop"))
    /\ UNCHANGED <<rows, production, docker, route, verified, background, tasks>>

DeployStep(w) ==
    \/ SweepAbandoned(w) \/ ClaimNext(w)
    \/ Checkout(w) \/ Plan(w) \/ Build(w) \/ PhaseFails(w)
    \/ MarkBuilt(w) \/ MarkReady(w) \/ MarkFailed(w)

\* build_timeout + 120 seconds pass since the last heartbeat.
LeaseExpires(d) ==
    /\ rows[d].status \in InFlight
    /\ ~rows[d].late
    /\ Stalls \/ \A w \in Worker : ~(task[w].op = "deploy" /\ task[w].d = d)
    /\ rows' = [rows EXCEPT ![d].late = TRUE]
    /\ UNCHANGED <<production, docker, route, verified, background, task, bounds>>

-----------------------------------------------------------------------------
RequestDeploys(r) ==
    \/ \E d \in Deployment, ref \in Ref, trigger \in Trigger :
          QueueDeploy(r, d, ref, trigger)
    \/ Supersede(r)
    \/ "cancel" \in Asks /\ \E d \in Deployment : CancelRead(r, d)
    \/ CancelWrite(r)

RequestPromotes(r) ==
    \/ "promote" \in Asks /\ \E d \in Deployment : RequestPromotion(r, d)
    \/ "domains" \in Asks /\ ChangeDomains(r)
    \/ RefreshTarget(r)

WorkerStep(w) ==
    StartWorker(w) \/ ReconcileStep(w) \/ DeployStep(w) \/ PromotionStep(w)

Next ==
    \/ \E w \in Worker : WorkerStep(w) \/ LoopSurvives(w)
    \/ \E r \in Request :
          RequestDeploys(r) \/ RequestPromotes(r) \/ PromotionStep(r)
    \/ \E d \in Deployment : LeaseExpires(d)
    \/ Environment

\* An installation with one new project.
Init ==
    /\ rows = [d \in Deployment |-> NoRow]
    /\ production = None
    /\ docker = [c \in Container |-> "unborn"]
    /\ route = None
    /\ background \in BOOLEAN
    /\ verified \in BOOLEAN
    /\ background => ~verified
    /\ task = [a \in Actor |-> Off(a)]
    /\ tasks = 0
    /\ faults = 0

Spec == Init /\ [][Next]_vars

\* docker-compose.yml restarts a worker that died, a worker does what it has
\* in hand, time passes, and a request that started is carried out.
Fairness ==
    /\ \A w \in Worker : WF_vars(WorkerStep(w))
    /\ \A r \in Request :
          WF_vars(Supersede(r) \/ CancelWrite(r) \/ RefreshTarget(r)
                  \/ PromotionStep(r))
    /\ \A d \in Deployment : WF_vars(LeaseExpires(d))

FairSpec == Spec /\ Fairness

-----------------------------------------------------------------------------
(* Properties *)

Deploying(w, d) == task[w].op = "deploy" /\ task[w].d = d

\* A deployment has at most one worker building it, and while it is in flight
\* the lease names that worker: claim_next hands a row out once, and a worker
\* that outlived its lease cannot put the row back in flight.
OneBuilder ==
    \A w \in Worker, d \in Deployment : Deploying(w, d) =>
        /\ rows[d].status \in InFlight => rows[d].lease = w
        /\ \A v \in Worker \ {w} : ~Deploying(v, d)

\* Whatever is in production or routed to has at some time been proven ready,
\* through every race, crash and stale read (promote.py: the container is
\* proven to serve before anything routes to it).
ProductionWasReady ==
    \A d \in {production, route} \ {None} : rows[d].readyAt

\* A build recorded as replaced never started, stays cancelled, and a newer
\* push of its branch exists: the head of a branch is never dropped
\* (supersede_queued against claim_next).
ReplacedNeverStarted ==
    \A d \in Deployment : rows[d].error = "replaced" =>
        /\ rows[d].status = "cancelled" /\ ~rows[d].built
        /\ \A w \in Worker : ~Deploying(w, d)
        /\ \E e \in Deployment :
              /\ e > d /\ rows[e].ref = rows[d].ref
              /\ rows[e].trigger = "push" /\ Exists(e)

\* What the history of a project may rely on (module Lifecycle).
L == INSTANCE Lifecycle
        WITH state <- [d \in Deployment |-> rows[d].status],
             built <- [d \in Deployment |-> rows[d].built]

Lifecycles == L!Spec

\* Every deployment asked for is eventually over, though workers crash: a
\* restarted worker takes up the queue, and the sweep fails what a dead one
\* left behind.
Settles ==
    \A d \in Deployment : Exists(d) ~> rows[d].status \in Terminal

\* A deployment failed as abandoned keeps that record, is never ready and
\* never in production, as long as no live worker outlives its lease
\* ("Nothing was deployed; try again", reclaim_abandoned).
AbandonedWasNotDeployed ==
    [][\A d \in Deployment : rows[d].error = "abandoned" =>
          /\ rows'[d].error = "abandoned" /\ ~rows'[d].readyAt
          /\ production' # d /\ route' # d]_vars

\* Deploys never move production back to an older deployment: only a person
\* does (worker.py runs them one at a time, claim_next takes the oldest of
\* production's branch first).
ProductionMovesForward ==
    [][production # None /\ production' # None => production' >= production]_vars

\* A deployment recorded as failed is not the one in production
\* (pipeline.py: a failed deploy leaves the previous one serving).
FailedIsNotProduction ==
    production # None => rows[production].status # "failed"
=============================================================================
