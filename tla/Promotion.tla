----------------------------- MODULE Promotion -----------------------------
(***************************************************************************)
(* Moving production: promote, rollback, reclaim (engine/promote.py), the  *)
(* launch of a container that is not resident (engine/launch.py), the      *)
(* router file (engine/routing.py, adapters/edge.py) and the worker's      *)
(* startup reconciliation (engine/service.py).                             *)
(*                                                                         *)
(* Three stores are involved and none is locked: the database, Docker and  *)
(* the router's file.  Every await between two of them is a point where    *)
(* another process runs, so each read or write of a store is its own       *)
(* action, and what a coroutine has read so far is kept in its task.       *)
(***************************************************************************)
EXTENDS Deployments

CONSTANTS
    Request,    \* API, dashboard and CLI requests that run at once
    KeepWarm,   \* projects.keep_warm
    MaxTasks,   \* bound: promotions, domain changes and cancellations asked for
    MaxFaults   \* bound: crashes, lost containers and raised errors

ASSUME RequestAssumption == Request \cap Worker = {}
ASSUME KeepAssumption == KeepWarm \in Nat
ASSUME BoundAssumption == MaxTasks \in Nat /\ MaxFaults \in Nat

VARIABLES
    docker,      \* each container: unborn, running, draining or gone
    route,       \* the deployment the project's router file names, or None
    verified,    \* the project has a verified domain
    background,  \* projects.kind: a background service has no address
    task,        \* what each request and each worker is doing
    tasks,       \* requests so far
    faults       \* faults so far

bounds == <<tasks, faults>>

promotionVars == <<rows, production, docker, route, verified, background,
                   task, bounds>>

Actor == Worker \cup Request

Op == {"none", "deploy", "promote", "refresh", "reconcile", "queue", "cancel"}

\* The steps of a promotion once ensure_promotable has passed.
PromotePC == {"serve", "launch", "health", "attach", "domains", "write",
              "point", "reread", "reclaim", "drain", "detach", "done"}

PC == PromotePC \cup
      {"idle", "down", "loop", "check", "target", "look", "forget", "abandoned",
       "supersede", "cancel", "checkout", "plan", "build", "built", "ready",
       "fail"}

Task == [op    : Op,
         pc    : PC,
         d     : Deployment \cup {None},   \* its deployment
         c     : Container \cup {None},    \* the container it read or started
         ptr   : Deployment \cup {None},   \* the production pointer it read
         dom   : BOOLEAN,                  \* it saw a verified domain
         todo  : SUBSET (Deployment \X Container),  \* rows it listed
         alone : BOOLEAN]                  \* history: nothing interfered

Rest(pc) == [op |-> "none", pc |-> pc, d |-> None, c |-> None, ptr |-> None,
             dom |-> FALSE, todo |-> {}, alone |-> FALSE]

\* A worker that failed to do its work is gone; a request just ends.
Off(a) == Rest(IF a \in Worker THEN "down" ELSE "idle")

At(a, op, pc) == task[a].op = op /\ task[a].pc = pc

Goto(a, pc) == task' = [task EXCEPT ![a].pc = pc]

Become(a, t) == task' = [task EXCEPT ![a] = t]

\* Work that moves production, its route or the containers kept for it.
Touching == {"promote", "refresh", "reconcile"}

\* a starts such work: it is alone if nobody else is at it, and whoever is
\* no longer is alone.
Begin(a, t) ==
    task' = [x \in Actor |->
        IF x = a
        THEN [t EXCEPT !.alone = \A b \in Actor \ {a} : task[b].op \notin Touching]
        ELSE [task[x] EXCEPT !.alone = FALSE]]

Interfere == task' = [x \in Actor |-> [task[x] EXCEPT !.alone = FALSE]]

\* A step raised.  A request answers with an error; a deploying worker goes
\* to run_deployment's except clause.
Raised(a) ==
    IF a \in Worker
    THEN [Rest("fail") EXCEPT !.op = "deploy", !.d = task[a].d]
    ELSE Rest("idle")

Asked == tasks < MaxTasks /\ tasks' = tasks + 1

Fault == faults < MaxFaults /\ faults' = faults + 1

-----------------------------------------------------------------------------
(* Docker *)

\* docker inspect's State.Running; a container being drained still runs.
IsRunning(c) == c # None /\ docker[c] \in {"running", "draining"}

\* The container that holds d's name: draining renames it away.
HoldsName(d) == {c \in Container : c[1] = d /\ docker[c] = "running"}

RemovedByName(d) ==
    [c \in Container |-> IF c \in HoldsName(d) THEN "gone" ELSE docker[c]]

\* Variant: stopped and left, which no sweep looks for.
Stopped(c) == [docker EXCEPT ![c] = IF @ = "running" THEN "exited" ELSE @]

\* drain of a container that runs asks it to stop; one already gone is left.
Drained(c) == [docker EXCEPT ![c] = IF @ = "running" THEN "draining" ELSE @]

\* The next container id: Docker gives d a container it never had.
IsFresh(c) ==
    /\ docker[c] = "unborn"
    /\ \A n \in 1..MaxRuns : n < c[2] => docker[<<c[1], n>>] # "unborn"

\* A drained container exits, or sweep_draining kills it at its deadline.
DrainEnds(c) ==
    /\ docker[c] = "draining"
    /\ docker' = [docker EXCEPT ![c] = "gone"]
    /\ Interfere
    /\ UNCHANGED <<rows, production, route, verified, background, bounds>>

\* The host reboots, the container is killed, or someone runs docker rm.
ContainerDies(c) ==
    /\ Fault
    /\ docker[c] = "running"
    /\ docker' = [docker EXCEPT ![c] = "gone"]
    /\ Interfere
    /\ UNCHANGED <<rows, production, route, verified, background, tasks>>

-----------------------------------------------------------------------------
(* promote *)

\* A request to promote d: the API's rollback refuses the deployment it read
\* as production's, the dashboard and the CLI do not ask.
RequestPromotion(r, d) ==
    /\ Asked
    /\ task[r].pc = "idle"
    /\ Exists(d)
    /\ Begin(r, [Rest("check") EXCEPT !.op = "promote", !.d = d])
    /\ UNCHANGED <<rows, production, docker, route, verified, background, faults>>

\* ensure_promotable, and the row as it is at that moment.
EnsurePromotable(a) ==
    /\ At(a, "promote", "check")
    /\ \/ /\ Promotable(task[a].d)
          /\ Become(a, [task[a] EXCEPT !.pc = "serve",
                                       !.c = rows[task[a].d].container])
       \/ /\ ~Promotable(task[a].d)
          /\ Become(a, Raised(a))
    /\ UNCHANGED <<rows, production, docker, route, verified, background, bounds>>

\* The container is proven: publish, which a background service skips.
Serving == IF background THEN "point" ELSE "domains"

\* Variant: the recorded container is believed.
EnsureRecorded(a) ==
    /\ At(a, "promote", "serve")
    /\ Become(a, [task[a] EXCEPT !.c = None,
                     !.pc = IF task[a].c # None THEN Serving ELSE "launch"])
    /\ UNCHANGED <<rows, production, docker, route, verified, background, bounds>>

\* ensure_serving: a container that runs is used as it is.
EnsureServing(a) ==
    /\ At(a, "promote", "serve")
    /\ Become(a, [task[a] EXCEPT !.c = None,
                     !.pc = IF IsRunning(task[a].c) THEN Serving ELSE "launch"])
    /\ UNCHANGED <<rows, production, docker, route, verified, background, bounds>>

\* launch, in a promotion or in a deploy: whatever holds the name is removed,
\* then a new container is started under it.
LaunchRun(a) ==
    /\ task[a].pc = "launch"
    /\ rows[task[a].d].built
    /\ \E c \in Container :
          /\ c[1] = task[a].d
          /\ IsFresh(c)
          /\ docker' = [RemovedByName(task[a].d) EXCEPT ![c] = "running"]
          /\ Become(a, [task[a] EXCEPT !.pc = "health", !.c = c])
    /\ UNCHANGED <<rows, production, route, verified, background, bounds>>

\* No image, or the name is cleared and then the run fails (another launch
\* took the name, no memory): nothing was started.
LaunchRefused(a) ==
    /\ task[a].pc = "launch"
    /\ docker' \in {docker, RemovedByName(task[a].d)}
    /\ Become(a, Raised(a))
    /\ UNCHANGED <<rows, production, route, verified, background, bounds>>

\* wait_until_healthy, or a background service still up after it settled.
HealthPasses(a) ==
    /\ task[a].pc = "health"
    /\ IsRunning(task[a].c)
    /\ Goto(a, "attach")
    /\ UNCHANGED <<rows, production, docker, route, verified, background, bounds>>

\* The container is destroyed before the error is raised.
HealthFails(a) ==
    /\ task[a].pc = "health"
    /\ docker' = [docker EXCEPT ![task[a].c] = "gone"]
    /\ Become(a, Raised(a))
    /\ UNCHANGED <<rows, production, route, verified, background, bounds>>

Attach(a) ==
    /\ task[a].pc = "attach"
    /\ rows' = SetContainer(task[a].d, task[a].c)
    /\ IF task[a].op = "deploy"
       THEN Goto(a, "ready")
       ELSE Become(a, [task[a] EXCEPT !.pc = Serving, !.c = None])
    /\ UNCHANGED <<production, docker, route, verified, background, bounds>>

\* publish: which domains are verified, then the router's file.  write_route
\* renames a finished file into place, so a reader never sees half of one.
PublishRead(a) ==
    /\ task[a].pc = "domains"
    /\ Become(a, [task[a] EXCEPT !.pc = "write", !.dom = verified])
    /\ UNCHANGED <<rows, production, docker, route, verified, background, bounds>>

PublishWrite(a) ==
    /\ task[a].pc = "write"
    /\ route' = IF task[a].dom THEN task[a].d ELSE None
    /\ Become(a, IF task[a].op = "refresh" THEN Rest("idle")
                 ELSE [task[a] EXCEPT !.pc = "point", !.dom = FALSE])
    /\ UNCHANGED <<rows, production, docker, verified, background, bounds>>

SetProduction(a) ==
    /\ At(a, "promote", "point")
    /\ production' = task[a].d
    /\ Goto(a, "reread")
    /\ UNCHANGED <<rows, docker, route, verified, background, bounds>>

\* The project is read again; reconcile_workers then runs, and whatever it
\* raises is only logged.
RereadProject(a) ==
    /\ At(a, "promote", "reread")
    /\ Become(a, [task[a] EXCEPT !.pc = "reclaim", !.ptr = production])
    /\ UNCHANGED <<rows, production, docker, route, verified, background, bounds>>

\* A background service keeps nothing warm.
Keep == IF background THEN 0 ELSE KeepWarm

Protected(a) == {task[a].d, task[a].ptr}

ReclaimQuery(a) ==
    /\ At(a, "promote", "reclaim")
    /\ LET stale == Reclaimable(Keep, Protected(a))
       IN  Become(a, [task[a] EXCEPT
              !.todo = {<<d, rows[d].container>> : d \in stale},
              !.pc = IF stale = {} THEN "done" ELSE "drain",
              !.ptr = None])
    /\ UNCHANGED <<rows, production, docker, route, verified, background, bounds>>

\* The listed row with the highest number: rows come number DESC.
IsNewest(p, todo) == \A q \in todo : q[1] <= p[1]

ReclaimDrain(a) ==
    /\ At(a, "promote", "drain")
    /\ \E p \in task[a].todo :
          IsNewest(p, task[a].todo) /\ docker' = Drained(p[2])
    /\ Goto(a, "detach")
    /\ UNCHANGED <<rows, production, route, verified, background, bounds>>

ReclaimDetach(a) ==
    /\ At(a, "promote", "detach")
    /\ \E p \in task[a].todo :
          LET rest == task[a].todo \ {p}
          IN  /\ IsNewest(p, task[a].todo)
              /\ rows' = SetContainer(p[1], None)
              /\ Become(a, [task[a] EXCEPT !.todo = rest,
                               !.pc = IF rest = {} THEN "done" ELSE "drain"])
    /\ UNCHANGED <<production, docker, route, verified, background, bounds>>

\* The promotion returns: a request answers, a worker goes to its next deploy.
PromotionDone(a) ==
    /\ At(a, "promote", "done")
    /\ Become(a, Rest(IF a \in Worker THEN "loop" ELSE "idle"))
    /\ UNCHANGED <<rows, production, docker, route, verified, background, bounds>>

\* Docker, the disk or the database refuses a step; nothing of it happened.
PromotionRaises(a) ==
    /\ Fault
    /\ task[a].op \in {"promote", "refresh"}
    /\ Become(a, Raised(a))
    /\ UNCHANGED <<rows, production, docker, route, verified, background, tasks>>

PromotionStep(a) ==
    \/ EnsurePromotable(a) \/ EnsureServing(a)
    \/ LaunchRun(a) \/ LaunchRefused(a)
    \/ HealthPasses(a) \/ HealthFails(a) \/ Attach(a)
    \/ PublishRead(a) \/ PublishWrite(a) \/ SetProduction(a)
    \/ RereadProject(a) \/ ReclaimQuery(a) \/ ReclaimDrain(a)
    \/ ReclaimDetach(a) \/ PromotionDone(a)

-----------------------------------------------------------------------------
(* Domains: verify_domain and remove_domain change the list, then refresh
   the route from the project as it is then. *)

ChangeDomains(r) ==
    /\ Asked
    /\ task[r].pc = "idle"
    /\ ~background
    /\ verified' = ~verified
    /\ Begin(r, [Rest("target") EXCEPT !.op = "refresh"])
    /\ UNCHANGED <<rows, production, docker, route, background, faults>>

\* Variant: with nothing in production the route is left as it is.
RefreshNothing(r) ==
    /\ At(r, "refresh", "target")
    /\ IF production = None
       THEN Become(r, Rest("idle"))
       ELSE Become(r, [task[r] EXCEPT !.pc = "domains", !.d = production])
    /\ UNCHANGED <<rows, production, docker, route, verified, background, bounds>>

\* Nothing in production: the route is cleared and that is all.
RefreshTarget(r) ==
    /\ At(r, "refresh", "target")
    /\ IF production = None
       THEN route' = None /\ Become(r, Rest("idle"))
       ELSE /\ Become(r, [task[r] EXCEPT !.pc = "domains", !.d = production])
            /\ UNCHANGED route
    /\ UNCHANGED <<rows, production, docker, verified, background, bounds>>

-----------------------------------------------------------------------------
(* Workers starting and processes dying *)

\* Variant: only production's container is looked at.
StartWithProduction(w) ==
    /\ task[w].pc = "down"
    /\ Begin(w, [Rest("look") EXCEPT !.op = "reconcile",
                   !.todo = {<<d, rows[d].container>> :
                               d \in {e \in Deployment :
                                        e = production /\ rows[e].container # None}}])
    /\ UNCHANGED <<rows, production, docker, route, verified, background, bounds>>

\* reconcile lists the project's rows; those without a container are skipped.
StartWorker(w) ==
    /\ task[w].pc = "down"
    /\ Begin(w, [Rest("look") EXCEPT !.op = "reconcile",
                   !.todo = {<<d, rows[d].container>> :
                               d \in {e \in Deployment : rows[e].container # None}}])
    /\ UNCHANGED <<rows, production, docker, route, verified, background, bounds>>

\* is_running, one row at a time.
ReconcileLook(w) ==
    /\ At(w, "reconcile", "look")
    /\ \/ task[w].todo = {} /\ Goto(w, "abandoned")
       \/ \E p \in task[w].todo :
             /\ IsNewest(p, task[w].todo)
             /\ Become(w, IF IsRunning(p[2])
                          THEN [task[w] EXCEPT !.todo = @ \ {p}]
                          ELSE [task[w] EXCEPT !.pc = "forget", !.d = p[1]])
    /\ UNCHANGED <<rows, production, docker, route, verified, background, bounds>>

\* A container that is gone is recorded as gone.
ReconcileForget(w) ==
    /\ At(w, "reconcile", "forget")
    /\ rows' = SetContainer(task[w].d, None)
    /\ Become(w, [task[w] EXCEPT !.pc = "look", !.d = None,
                     !.todo = {p \in @ : p[1] # task[w].d}])
    /\ UNCHANGED <<production, docker, route, verified, background, bounds>>

\* The deployments no worker reports on any more are failed; then the loops.
ReconcileAbandoned(w) ==
    /\ At(w, "reconcile", "abandoned")
    /\ rows' = Reclaimed
    /\ Become(w, Rest("loop"))
    /\ UNCHANGED <<production, docker, route, verified, background, bounds>>

ReconcileStep(w) ==
    ReconcileLook(w) \/ ReconcileForget(w) \/ ReconcileAbandoned(w)

\* The process dies: what it had in memory is gone, what it wrote stays.
Crash(a) ==
    /\ Fault
    /\ task[a].pc \notin {"down", "idle"}
    /\ Become(a, Off(a))
    /\ UNCHANGED <<rows, production, docker, route, verified, background, tasks>>

-----------------------------------------------------------------------------
RequestStep(r) ==
    \/ \E d \in Deployment : RequestPromotion(r, d)
    \/ ChangeDomains(r)
    \/ RefreshTarget(r)

Environment ==
    \/ \E c \in Container : DrainEnds(c) \/ ContainerDies(c)
    \/ \E a \in Actor : PromotionRaises(a) \/ Crash(a)

PromotionNext ==
    \/ \E a \in Actor : PromotionStep(a)
    \/ \E r \in Request : RequestStep(r)
    \/ \E w \in Worker : StartWorker(w) \/ ReconcileStep(w)
    \/ Environment

\* A project whose deployments all succeeded some time ago; each is resident
\* or was reclaimed, and production is any of them, routed if it has a domain.
ReadyRow(d, c) ==
    [NoRow EXCEPT !.status = "ready", !.built = TRUE, !.readyAt = TRUE,
                  !.container = c]

PromotionInit ==
    /\ \E resident \in SUBSET Deployment :
          /\ rows = [d \in Deployment |->
                        ReadyRow(d, IF d \in resident THEN <<d, 1>> ELSE None)]
          /\ docker = [c \in Container |->
                         IF c[2] > 1 THEN "unborn"
                         ELSE IF c[1] \in resident THEN "running" ELSE "gone"]
          /\ production \in resident \cup {None}
    /\ background \in BOOLEAN
    /\ verified \in BOOLEAN
    /\ background => ~verified
    /\ route = IF verified THEN production ELSE None
    /\ task = [a \in Actor |-> Off(a)]
    /\ tasks = 0
    /\ faults = 0

PromotionSpec == PromotionInit /\ [][PromotionNext]_promotionVars

-----------------------------------------------------------------------------
TypeOK ==
    /\ TableTypeOK
    /\ docker \in [Container -> {"unborn", "running", "draining", "gone"}]
    /\ route \in Deployment \cup {None}
    /\ verified \in BOOLEAN
    /\ background \in BOOLEAN
    /\ task \in [Actor -> Task]
    /\ tasks \in 0..MaxTasks
    /\ faults \in 0..MaxFaults

\* What the project's domains should reach, given the table.
ServedRoute == IF verified /\ production # None THEN production ELSE None

\* A promotion nothing interfered with leaves the three stores agreeing,
\* whatever crashes and races came before it: the pointer and the route name
\* its deployment, the container on record runs, and no more than the warm
\* few stay resident beside it (promote.py, its order and reclaim).
CleanPromotion ==
    \A a \in Actor : At(a, "promote", "done") /\ task[a].alone =>
        LET d == task[a].d
        IN  /\ production = d
            /\ route = ServedRoute
            /\ IsRunning(rows[d].container)
            /\ Cardinality(Resident \ {d}) <= Keep

\* A change of domains nothing interfered with leaves the route naming what
\* the table says is in production, and naming nothing without a verified
\* domain (routing.refresh).
CleanRefresh ==
    [][\A r \in Request :
          (task[r].op = "refresh" /\ task[r].alone /\ task'[r].op = "none"
             /\ faults' = faults)
          => route' = ServedRoute']_promotionVars

\* A startup reconciliation nothing interfered with leaves no row recording
\* a container Docker does not run: "a container that is gone is recorded
\* as gone" (service.reconcile).
ReconcileTellsTruth ==
    \A w \in Worker : At(w, "reconcile", "abandoned") /\ task[w].alone =>
        \A d \in Deployment :
            rows[d].container # None => IsRunning(rows[d].container)

\* The two together: what promotions and reconciliations leave when nothing
\* interferes.
CleanWork == CleanPromotion /\ ReconcileTellsTruth
=============================================================================
