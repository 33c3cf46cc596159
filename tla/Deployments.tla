---------------------------- MODULE Deployments ----------------------------
(***************************************************************************)
(* The deployments table of one project, which is also the build queue     *)
(* (repositories/deployments.py, db/migrations/0001_core.sql).             *)
(*                                                                         *)
(* The connection pool runs in autocommit, so each statement below is one  *)
(* atomic step.  A statement is written as the value the table has after   *)
(* it; the actions of the modules that extend this one say when it runs.   *)
(* A deployment is identified by its number, which the INSERT computes.    *)
(***************************************************************************)
EXTENDS Naturals, FiniteSets

CONSTANTS
    Deployment,        \* numbers a deployment of the project can get
    Ref,               \* git branches
    ProductionBranch,  \* projects.production_branch
    Worker,            \* worker processes
    MaxRuns,           \* bound: containers ever started per deployment
    None               \* SQL NULL

ASSUME NumberAssumption == Deployment \subseteq Nat /\ None \notin Deployment
ASSUME BranchAssumption == ProductionBranch \in Ref
ASSUME WorkerAssumption == None \notin Worker
ASSUME RunsAssumption == MaxRuns \in Nat \ {0}

InFlight == {"building", "deploying"}
Terminal == {"ready", "failed", "cancelled"}
Status == {"none", "queued"} \cup InFlight \cup Terminal

\* What asked for the build.  "push" stands for both triggers that follow a
\* branch's head (push, manual); "redeploy" names its commit on purpose.
Trigger == {"push", "redeploy"}

\* The error column: NULL, "Replaced by #n", the lease sweep's sentence, or
\* what the pipeline raised.
Error == {"none", "replaced", "abandoned", "raised"}

\* Docker never reuses a container id.
Container == Deployment \X (1..MaxRuns)

ASSUME NullAssumption == None \notin Container

Row == [status    : Status,
        ref       : Ref,
        trigger   : Trigger,
        lease     : Worker \cup {None},  \* leased_by
        late      : BOOLEAN,             \* leased_at is older than the limit
        built     : BOOLEAN,             \* image_tag and built_at are set
        readyAt   : BOOLEAN,             \* ready_at is set
        container : Container \cup {None},
        error     : Error]

VARIABLES
    rows,        \* the table; status "none" is a number not yet inserted
    production   \* projects.production_deployment_id

NoRow == [status |-> "none", ref |-> ProductionBranch, trigger |-> "push",
          lease |-> None, late |-> FALSE, built |-> FALSE, readyAt |-> FALSE,
          container |-> None, error |-> "none"]

Exists(d) == rows[d].status # "none"

IsProductionRef(d) == rows[d].ref = ProductionBranch

\* UNIQUE (project_id, number), and number = MAX(number) + 1 in the INSERT.
IsNextNumber(d) ==
    /\ ~Exists(d)
    /\ \A e \in Deployment : e < d => Exists(e)

Created(d, ref, trigger) ==
    [rows EXCEPT ![d] = [NoRow EXCEPT !.status = "queued", !.ref = ref,
                                      !.trigger = trigger]]

\* Variant: the newest first.
NewestFirst(d, e) ==
    \/ IsProductionRef(d) /\ ~IsProductionRef(e)
    \/ /\ IsProductionRef(d) <=> IsProductionRef(e)
       /\ d >= e

\* The row claim_next takes: production's branch before previews, then the
\* oldest.  created_at follows the number within one project.
ClaimFirst(d, e) ==
    \/ IsProductionRef(d) /\ ~IsProductionRef(e)
    \/ /\ IsProductionRef(d) <=> IsProductionRef(e)
       /\ d <= e

\* Variant: what failed is taken up again.
ClaimableAgain(d) == rows[d].status \in {"queued", "failed"}

Claimable(d) ==
    /\ rows[d].status = "queued"
    /\ \A e \in Deployment : rows[e].status = "queued" => ClaimFirst(d, e)

Claimed(d, w) ==
    [rows EXCEPT ![d] = [@ EXCEPT !.status = "building", !.lease = w,
                                  !.late = FALSE]]

\* Variant: only builds are swept.
AbandonedBuild(d) == rows[d].status = "building" /\ rows[d].late

Abandoned(d) == rows[d].status \in InFlight /\ rows[d].late

\* Variant: what a dead worker left is queued again.
Requeued ==
    [d \in Deployment |->
        IF Abandoned(d)
        THEN [rows[d] EXCEPT !.status = "queued", !.error = "abandoned",
                             !.lease = None, !.late = FALSE]
        ELSE rows[d]]

\* reclaim_abandoned fails every late row in one statement.
Reclaimed ==
    [d \in Deployment |->
        IF Abandoned(d)
        THEN [rows[d] EXCEPT !.status = "failed", !.error = "abandoned",
                             !.lease = None, !.late = FALSE]
        ELSE rows[d]]

Heartbeat(d) == [rows EXCEPT ![d].late = FALSE]

\* Variant: without the constraint.
AnyLease(r) == TRUE

\* The CHECK deployments_lease_matches_status: an UPDATE that would break it
\* raises instead.
LeaseMatchesStatus(r) == r.status \in InFlight => r.lease # None

Built(r) == [r EXCEPT !.status = "deploying", !.built = TRUE]

MarkedBuilt(d) == [rows EXCEPT ![d] = Built(@)]

MarkedReady(d, c) ==
    [rows EXCEPT ![d] = [@ EXCEPT !.status = "ready", !.container = c,
                                  !.error = "none", !.readyAt = TRUE,
                                  !.lease = None, !.late = FALSE]]

\* Variant: a status the enum does not have.
MarkedErrored(d) ==
    [rows EXCEPT ![d] = [@ EXCEPT !.status = "error", !.error = "raised",
                                  !.lease = None, !.late = FALSE]]

MarkedFailed(d) ==
    [rows EXCEPT ![d] = [@ EXCEPT !.status = "failed", !.error = "raised",
                                  !.lease = None, !.late = FALSE]]

MarkedCancelled(d) ==
    [rows EXCEPT ![d] = [@ EXCEPT !.status = "cancelled", !.lease = None,
                                  !.late = FALSE]]

\* Variant: builds that started are replaced too.
ReplacedWhenever(newer) ==
    {d \in Deployment : /\ rows[d].status \in {"queued", "building"}
                        /\ rows[d].ref = rows[newer].ref
                        /\ rows[d].trigger = "push"
                        /\ d < newer}

\* Queued builds of newer's branch that newer replaces.
ReplacedBy(newer) ==
    {d \in Deployment : /\ rows[d].status = "queued"
                        /\ rows[d].ref = rows[newer].ref
                        /\ rows[d].trigger = "push"
                        /\ d < newer}

Superseded(newer) ==
    [d \in Deployment |->
        IF d \in ReplacedBy(newer)
        THEN [rows[d] EXCEPT !.status = "cancelled", !.error = "replaced"]
        ELSE rows[d]]

SetContainer(d, c) == [rows EXCEPT ![d].container = c]

\* Ready deployments with a container: what reclaim chooses among.
Resident == {d \in Deployment : rows[d].status = "ready" /\ rows[d].container # None}

\* ORDER BY number DESC OFFSET keep, of the residents not protected.
Reclaimable(keep, protect) ==
    LET free == Resident \ protect
    IN  {d \in free : Cardinality({e \in free : e > d}) >= keep}

\* Variant: what has an image is promotable.
PromotableImage(d) == rows[d].built

Promotable(d) == rows[d].status = "ready"

\* Deleted numbers never come back and the pointer is a foreign key.
TableTypeOK ==
    /\ rows \in [Deployment -> Row]
    /\ production \in Deployment \cup {None}
=============================================================================
