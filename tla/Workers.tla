------------------------------- MODULE Workers -------------------------------
(***************************************************************************)
(* The worker containers of one project's worker process: rolled onto a    *)
(* deployment by a promotion, paused and resumed from the dashboard,       *)
(* drained, swept, and removed when the project is deleted                 *)
(* (engine/processes.py, engine/service.py, drain and sweep_draining of    *)
(* adapters/containers.py).                                                *)
(*                                                                         *)
(* Promotions, rollbacks and pauses come from the worker and from any      *)
(* number of requests; nothing serialises them.  A container's name is its *)
(* replica, until drain renames it out of the way.  Docker restarts a      *)
(* worker that exits, so only one that drains can end by itself.           *)
(***************************************************************************)
EXTENDS Integers, FiniteSets, Sequences

CONSTANTS
    Op,             \* operations in flight at once
    MaxReplicas,    \* bound: replicas of the process
    MaxDeployments, \* bound: deployments to promote
    MaxBoxes,       \* bound: containers ever started
    MaxAsks,        \* bound: operations begun
    MaxFaults,      \* bound: operations that fail or die halfway
    None

ASSUME WorkersAssumption ==
    /\ MaxReplicas \in Nat /\ MaxDeployments \in Nat /\ MaxBoxes \in Nat
    /\ MaxAsks \in Nat /\ MaxFaults \in Nat

VARIABLES
    project,    \* the project's row: new (not there yet), present, deleted
    production, \* the deployment in production, 0 before the first
    process,    \* the process row: how many replicas, and enabled or paused
    box,        \* every container ever started, in order
    op,         \* what each operation is at
    orphans,    \* the orphan sweep: what it has listed, or None
    asks,
    faults

vars == <<project, production, process, box, op, orphans, asks, faults>>

Replica == 0..MaxReplicas - 1
Deployment == 1..MaxDeployments
Box == DOMAIN box
ContainerName == Replica \X (0..MaxBoxes)

\* draining: renamed out of its name, with a deadline.  asked: not restarted
\* any more, and sent the stop signal.
BoxState == [replica : Replica, image : Deployment,
             state : {"running", "draining", "asked", "gone"}]

Gone == [replica |-> 0, image |-> 1, state |-> "gone"]

\* roll: reconcile_workers.  apply: apply_worker.  extra and left: replicas
\* still to drain only, and to drain and start; half: the container drain has
\* renamed and not yet signalled; found: the names delete_project has listed.
OpState ==
    [kind : {"idle", "roll", "apply", "delete"},
     at : {"read", "work", "remove"}, image : Deployment \cup {0},
     extra : SUBSET Replica, left : SUBSET Replica, wanted : SUBSET Replica,
     existing : SUBSET Replica, half : 0..MaxBoxes,
     found : SUBSET ContainerName, alone : BOOLEAN]

Idle == [kind |-> "idle", at |-> "read", image |-> 0, extra |-> {}, left |-> {},
         wanted |-> {}, existing |-> {}, half |-> 0, found |-> {}, alone |-> TRUE]

\* Draining containers have names of their own.
NameOf(b) == IF box[b].state = "running" THEN <<box[b].replica, 0>>
             ELSE <<box[b].replica, b>>

Named(r) == {b \in Box : box[b].state = "running" /\ box[b].replica = r}

\* The process's replicas a promotion starts: list_long_running leaves paused
\* ones out.
Wanted == IF process.enabled THEN 0..process.replicas - 1 ELSE {}

Active == {o \in Op : op[o].kind # "idle"}

\* Who begins while another is at work makes neither alone.
Begin(o, state) ==
    /\ op[o].kind = "idle"
    /\ asks < MaxAsks
    /\ asks' = asks + 1
    /\ op' = [x \in Op |->
                IF x = o THEN [state EXCEPT !.alone = Active = {}]
                ELSE [op[x] EXCEPT !.alone = @ /\ x \notin Active]]

Set(o, state) == op' = [op EXCEPT ![o] = state]

-----------------------------------------------------------------------------
(* Rows *)

CreateProject ==
    /\ project = "new"
    /\ project' = "present"
    /\ UNCHANGED <<production, process, box, op, orphans, asks, faults>>

\* PATCH and DELETE of a process: only the row.
SetReplicas(n) ==
    /\ project = "present"
    /\ n # process.replicas
    /\ asks < MaxAsks
    /\ asks' = asks + 1
    /\ process' = [process EXCEPT !.replicas = n]
    /\ UNCHANGED <<project, production, box, op, orphans, faults>>

-----------------------------------------------------------------------------
(* What begins an operation *)

\* A promotion or a rollback has moved the pointer and reconciles workers.
Promote(o, d) ==
    /\ project = "present"
    /\ Begin(o, [Idle EXCEPT !.kind = "roll", !.image = d])
    /\ production' = d
    /\ UNCHANGED <<project, process, box, orphans, faults>>

\* toggle_process: the row, then the containers, unless nothing is served.
Toggle(o) ==
    /\ project = "present"
    /\ process' = [process EXCEPT !.enabled = ~@]
    /\ IF production = 0
       THEN asks < MaxAsks /\ asks' = asks + 1 /\ UNCHANGED op
       ELSE Begin(o, [Idle EXCEPT !.kind = "apply", !.image = production])
    /\ UNCHANGED <<project, production, box, orphans, faults>>

\* delete_project: the route and the rows first.
Delete(o) ==
    /\ project = "present"
    /\ Begin(o, [Idle EXCEPT !.kind = "delete"])
    /\ project' = "deleted"
    /\ UNCHANGED <<production, process, box, orphans, faults>>

-----------------------------------------------------------------------------
(* reconcile_workers and apply_worker *)

\* Variant: replicas nobody wants any more are left alone.
RollReadsWanted(o) ==
    LET existing == {r \in Replica : Named(r) # {}}
    IN  /\ op[o].kind = "roll" /\ op[o].at = "read"
        /\ Set(o, [op[o] EXCEPT !.at = "work", !.existing = existing, !.wanted = Wanted,
                                !.left = Wanted])
        /\ UNCHANGED <<project, production, process, box, orphans, asks, faults>>

\* The processes, then the containers that hold a worker's name.
RollReads(o) ==
    LET existing == {r \in Replica : Named(r) # {}}
    IN  /\ op[o].kind = "roll" /\ op[o].at = "read"
        /\ Set(o, [op[o] EXCEPT !.at = "work", !.existing = existing, !.wanted = Wanted,
                                !.extra = existing \ Wanted, !.left = Wanted])
        /\ UNCHANGED <<project, production, process, box, orphans, asks, faults>>

\* The row is read again.  Paused: the names of as many replicas as it has ...
PauseReads(o) ==
    /\ op[o].kind = "apply" /\ op[o].at = "read" /\ ~process.enabled
    /\ Set(o, [op[o] EXCEPT !.at = "work", !.extra = 0..process.replicas - 1])
    /\ UNCHANGED <<project, production, process, box, orphans, asks, faults>>

\* ... resumed: those of them that do not run.
ResumeReads(o) ==
    /\ op[o].kind = "apply" /\ op[o].at = "read" /\ process.enabled
    /\ Set(o, [op[o] EXCEPT !.at = "work",
                            !.left = {r \in 0..process.replicas - 1 : Named(r) = {}}])
    /\ UNCHANGED <<project, production, process, box, orphans, asks, faults>>

Renamed(b) == [box EXCEPT ![b].state = "draining"]

\* drain: inspected and renamed, which frees the name; by id from here on.
Drain(o, r, rest) ==
    IF Named(r) = {} THEN Set(o, rest) /\ UNCHANGED box
    ELSE \E b \in Named(r) :
            /\ box' = Renamed(b)
            /\ Set(o, [rest EXCEPT !.half = b])

\* The first name nobody wants is drained.
DrainsExtra(o, r) ==
    /\ op[o].at = "work" /\ op[o].half = 0
    /\ r \in op[o].extra
    /\ \A x \in op[o].extra : r <= x
    /\ Drain(o, r, [op[o] EXCEPT !.extra = @ \ {r}])
    /\ UNCHANGED <<project, production, process, orphans, asks, faults>>

\* Variant: the successor takes the name without a drain.
PassesOver(o, r) ==
    /\ op[o].at = "work" /\ op[o].half = 0 /\ op[o].extra = {}
    /\ r \in op[o].left \cap op[o].existing
    /\ Set(o, [op[o] EXCEPT !.existing = @ \ {r}])
    /\ UNCHANGED <<project, production, process, box, orphans, asks, faults>>

\* A worker that is replaced is drained before its successor starts.
DrainsReplaced(o, r) ==
    /\ op[o].at = "work" /\ op[o].half = 0 /\ op[o].extra = {}
    /\ r \in op[o].left \cap op[o].existing
    /\ \A x \in op[o].left : r <= x
    /\ Drain(o, r, [op[o] EXCEPT !.existing = @ \ {r}])
    /\ UNCHANGED <<project, production, process, orphans, asks, faults>>

\* No restart any more, and the stop signal.
DrainSignals(o) ==
    LET b == op[o].half
    IN  /\ b # 0
        /\ box' = IF box[b].state = "draining" THEN [box EXCEPT ![b].state = "asked"]
                  ELSE box
        /\ Set(o, [op[o] EXCEPT !.half = 0])
        /\ UNCHANGED <<project, production, process, orphans, asks, faults>>

NamesOf(B) == {NameOf(b) : b \in B}

Holding(N) == {b \in Box : box[b].state # "gone" /\ NameOf(b) \in N}

Removed(B) == [b \in Box |-> IF b \in B THEN Gone ELSE box[b]]

\* Variant: replicas counted from one.
StartedFromOne(r, d) == [replica |-> r + 1, image |-> d, state |-> "running"]

Started(r, d) == [replica |-> r, image |-> d, state |-> "running"]

\* run_worker: whatever holds the name is removed by force, then docker run.
Starts(o, r) ==
    /\ op[o].at = "work" /\ op[o].half = 0 /\ op[o].extra = {}
    /\ r \in op[o].left /\ r \notin op[o].existing
    /\ \A x \in op[o].left : r <= x
    /\ Len(box) < MaxBoxes
    /\ box' = Append(Removed(Named(r)), Started(r, op[o].image))
    /\ Set(o, [op[o] EXCEPT !.left = @ \ {r}])
    /\ UNCHANGED <<project, production, process, orphans, asks, faults>>

Ends(o) ==
    /\ op[o].at = "work" /\ op[o].half = 0 /\ op[o].extra = {} /\ op[o].left = {}
    /\ Set(o, Idle)
    /\ UNCHANGED <<project, production, process, box, orphans, asks, faults>>

\* Docker refuses, an image is missing, the process dies: what is left of
\* the list is not done.
Stops(o) ==
    /\ op[o].kind # "idle"
    /\ faults < MaxFaults
    /\ faults' = faults + 1
    /\ Set(o, Idle)
    /\ UNCHANGED <<project, production, process, box, orphans, asks>>

-----------------------------------------------------------------------------
(* Removal *)

Left == {b \in Box : box[b].state # "gone"}

\* delete_project lists the project's containers, draining ones too ...
DeleteLists(o) ==
    /\ op[o].kind = "delete" /\ op[o].at = "read"
    /\ Set(o, [op[o] EXCEPT !.at = "remove", !.found = NamesOf(Left)])
    /\ UNCHANGED <<project, production, process, box, orphans, asks, faults>>

\* ... and removes one name after the other, whoever has it by then.
DeleteRemoves(o) ==
    /\ op[o].kind = "delete" /\ op[o].at = "remove"
    /\ IF op[o].found = {} THEN Set(o, Idle) /\ UNCHANGED box
       ELSE LET n == CHOOSE n \in op[o].found : TRUE
            IN  /\ box' = Removed(Holding({n}))
                /\ Set(o, [op[o] EXCEPT !.found = @ \ {n}])
    /\ UNCHANGED <<project, production, process, orphans, asks, faults>>

\* remove_orphans lists the containers, then the projects.
OrphansList ==
    /\ orphans = None
    /\ Left # {}
    /\ orphans' = NamesOf(Left)
    /\ UNCHANGED <<project, production, process, box, op, asks, faults>>

\* Variant: a deleted project counts as there.
OrphanedUnlessKnown == IF project = "new" THEN orphans ELSE {}

Orphaned == IF project = "present" THEN {} ELSE orphans

OrphansRemove ==
    /\ orphans # None
    /\ box' = Removed(Holding(Orphaned))
    /\ orphans' = None
    /\ UNCHANGED <<project, production, process, op, asks, faults>>

\* Variant: those that were asked.
SweptAsked(b) == box[b].state = "asked"

\* sweep_draining: a name with a deadline, of one that has exited by now or
\* whose deadline has passed; either may be at any time.
Swept(b) == box[b].state \in {"draining", "asked"}

SweepDraining(b) ==
    /\ Swept(b)
    /\ box' = Removed({b})
    /\ UNCHANGED <<project, production, process, op, orphans, asks, faults>>

-----------------------------------------------------------------------------
OpStep(o) ==
    \/ RollReads(o)
    \/ PauseReads(o)
    \/ ResumeReads(o)
    \/ \E r \in Replica : DrainsExtra(o, r) \/ DrainsReplaced(o, r) \/ Starts(o, r)
    \/ DrainSignals(o)
    \/ Ends(o)
    \/ DeleteLists(o)
    \/ DeleteRemoves(o)

Next ==
    \/ CreateProject
    \/ \E n \in 0..MaxReplicas : SetReplicas(n)
    \/ \E o \in Op : Toggle(o) \/ Delete(o) \/ OpStep(o) \/ Stops(o)
    \/ \E o \in Op, d \in Deployment : Promote(o, d)
    \/ OrphansList
    \/ OrphansRemove
    \/ \E b \in Box : SweepDraining(b)

Init ==
    /\ project = "new"
    /\ production = 0
    /\ process = [replicas |-> MaxReplicas, enabled |-> TRUE]
    /\ box = <<>>
    /\ op = [o \in Op |-> Idle]
    /\ orphans = None
    /\ asks = 0
    /\ faults = 0

Spec == Init /\ [][Next]_vars

\* Operations go on, the job loop sweeps every 5 seconds, the deploy loop
\* looks for orphans, and time passes.
Fairness ==
    /\ \A o \in Op : WF_vars(OpStep(o))
    /\ WF_vars(OrphansList)
    /\ WF_vars(OrphansRemove)
    /\ \A b \in 1..MaxBoxes : WF_vars(b \in Box /\ SweepDraining(b))

FairSpec == Spec /\ Fairness

-----------------------------------------------------------------------------
\* Every variable keeps its type.
TypeOK ==
    /\ project \in {"new", "present", "deleted"}
    /\ production \in Deployment \cup {0}
    /\ process \in [replicas : 0..MaxReplicas, enabled : BOOLEAN]
    /\ box \in Seq(BoxState)
    /\ Len(box) <= MaxBoxes
    /\ op \in [Op -> OpState]
    /\ orphans \in (SUBSET ContainerName) \cup {None}
    /\ asks \in 0..MaxAsks
    /\ faults \in 0..MaxFaults

\* A promotion whose roll ran alone leaves one container for every replica
\* the process had, on its image, and no other worker that holds a name,
\* whatever earlier operations left behind by dying halfway.
RollConverges ==
    [][\A o \in Op :
          /\ op[o].kind = "roll" /\ op[o].alone /\ op[o].at = "work"
          /\ Ends(o) /\ project = "present"
          => \A r \in Replica :
                /\ Cardinality(Named(r)) = IF r \in op[o].wanted THEN 1 ELSE 0
                /\ \A b \in Named(r) : box[b].image = op[o].image]_vars

\* A worker is not cut off: while its project exists and operations do not
\* overlap, no container goes that was not drained first, though four actors
\* rename, replace and remove them.
FullGrace ==
    [][\A b \in Box :
          box[b].state = "running" /\ box'[b].state = "gone" =>
             project = "deleted" \/ \E o \in Active : ~op[o].alone]_vars

\* Draining ends: a replaced container is gone in the end, though the
\* operation that renamed it died before it sent the signal.
DrainingEnds ==
    \A b \in 1..MaxBoxes :
        (b \in Box /\ box[b].state \in {"draining", "asked"})
            ~> (b \in Box /\ box[b].state = "gone")

\* A deleted project runs nothing in the end, though a promotion was starting
\* its workers while it was deleted, and a removal failed halfway.
DeletedRunsNothing == (project = "deleted") ~> [](Left = {})
=============================================================================
