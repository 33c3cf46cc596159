------------------------------- MODULE Images -------------------------------
(***************************************************************************)
(* The images of one project on the host, and the sweep that removes those *)
(* nothing needs (engine/housekeeping.py, domain/retention.py), against    *)
(* the builds, launches and rollbacks that need them.                      *)
(*                                                                         *)
(* An image is tagged by its commit, so deployments of the same commit     *)
(* share it.  The sweep reads the project, then its deployments, then      *)
(* Docker's images, and then removes one tag after another; Docker refuses *)
(* a tag a container still uses.  Moving production is one step here: its  *)
(* interleavings are those of Promotion.                                   *)
(***************************************************************************)
EXTENDS Deployments

CONSTANTS
    Sha,        \* commits
    Console,    \* `deploypro housekeeping` runs beside the worker
    KeepImages, \* settings.keep_images
    KeepWarm    \* projects.keep_warm

ASSUME ImagesAssumption ==
    /\ KeepImages \in Nat /\ KeepWarm \in Nat
    /\ None \notin Sha /\ Console \cap Worker = {}

VARIABLES
    sha,     \* the commit of each deployment
    image,   \* the tags Docker lists
    alive,   \* containers that exist, draining ones too
    work,    \* what each worker's deploy loop is at
    rolling, \* the deployment a rollback has found without a container
    sweep,   \* what each sweep has read
    unseen   \* history: tags gone by a sweep that had not seen who needs them

imagesVars == <<rows, production, sha, image, alive, work, rolling, sweep, unseen>>

Sweeper == Worker \cup Console

Idle == [at |-> "idle", d |-> None, c |-> None]

NoSweep == [at |-> "idle", ptr |-> None, tags |-> {}, seen |-> {}]

\* The newest n of D.
NewestOf(n, D) == {d \in D : Cardinality({e \in D : e > d}) < n}

Ready == {d \in Deployment : rows[d].status = "ready"}

\* Failures whose build had made an image.
FailedBuilt == {d \in Deployment : rows[d].status = "failed" /\ rows[d].built}

\* Variant: a tag counts when it is recorded.
KeptRecorded(ptr) ==
    {sha[d] : d \in {e \in Deployment : rows[e].built /\
                        (e = ptr \/ rows[e].container # None)}
                    \cup NewestOf(KeepImages, Ready) \cup NewestOf(1, FailedBuilt)}

\* Variant: rollback targets are counted with what is kept anyway.
KeptOthers(ptr) ==
    {sha[d] : d \in {e \in Deployment : rows[e].status \in {"queued"} \cup InFlight}
                    \cup {e \in Deployment : rows[e].built /\
                             (e = ptr \/ rows[e].container # None)}
                    \cup NewestOf(KeepImages - 1, Ready) \cup NewestOf(1, FailedBuilt)}

\* images_to_keep: queued and in flight, by commit; served or resident; the
\* newest rollback targets; the newest failure.
Kept(ptr) ==
    {sha[d] : d \in {e \in Deployment : rows[e].status \in {"queued"} \cup InFlight}
                    \cup {e \in Deployment : rows[e].built /\
                             (e = ptr \/ rows[e].container # None)}
                    \cup NewestOf(KeepImages, Ready) \cup NewestOf(1, FailedBuilt)}

-----------------------------------------------------------------------------
(* The deploy loop *)

Goes(w, at) == work' = [work EXCEPT ![w].at = at]

Queue(d, s) ==
    /\ IsNextNumber(d)
    /\ rows' = Created(d, ProductionBranch, "redeploy")
    /\ sha' = [sha EXCEPT ![d] = s]
    /\ UNCHANGED <<production, image, alive, work, rolling, sweep, unseen>>

Cancel(d) ==
    /\ rows[d].status = "queued"
    /\ rows' = MarkedCancelled(d)
    /\ UNCHANGED <<production, sha, image, alive, work, rolling, sweep, unseen>>

Claims(w, d) ==
    /\ work[w].at = "idle" /\ sweep[w].at = "idle"
    /\ Claimable(d)
    /\ rows' = Claimed(d, w)
    /\ work' = [work EXCEPT ![w] = [Idle EXCEPT !.at = "room", !.d = d]]
    /\ UNCHANGED <<production, sha, image, alive, rolling, sweep, unseen>>

\* ensure_room is satisfied, at once or after its sweep.
HasRoom(w) ==
    /\ work[w].at = "room" /\ sweep[w].at = "idle"
    /\ Goes(w, "build")
    /\ UNCHANGED <<rows, production, sha, image, alive, rolling, sweep, unseen>>

Builds(w) ==
    /\ work[w].at = "build"
    /\ image' = image \cup {sha[work[w].d]}
    /\ unseen' = unseen \ {sha[work[w].d]}
    /\ Goes(w, "built")
    /\ UNCHANGED <<rows, production, sha, alive, rolling, sweep>>

RecordsBuild(w) ==
    /\ work[w].at = "built"
    /\ rows' = MarkedBuilt(work[w].d)
    /\ Goes(w, "launch")
    /\ UNCHANGED <<production, sha, image, alive, rolling, sweep, unseen>>

\* docker run of an image that is there; otherwise it raises.
Runs(d, c) ==
    /\ sha[d] \in image
    /\ c[1] = d /\ c \notin alive
    /\ \A n \in 1..c[2] - 1 : <<d, n>> \in alive
    /\ alive' = alive \cup {c}

Launches(w, c) ==
    /\ work[w].at = "launch"
    /\ Runs(work[w].d, c)
    /\ work' = [work EXCEPT ![w].at = "health", ![w].c = c]
    /\ UNCHANGED <<rows, production, sha, image, rolling, sweep, unseen>>

\* No room, no checkout, no build, no image, no health: failed; a container
\* that was started is removed.
Fails(w) ==
    /\ work[w].at \in {"room", "build", "launch", "health"} /\ sweep[w].at = "idle"
    /\ rows' = MarkedFailed(work[w].d)
    /\ alive' = alive \ {work[w].c}
    /\ work' = [work EXCEPT ![w] = Idle]
    /\ UNCHANGED <<production, sha, image, rolling, sweep, unseen>>

\* Production moves to d, and residents beyond keep_warm lose their container,
\* which drains.
Served(table, d) ==
    LET free == {e \in Deployment \ {d} :
                    table[e].status = "ready" /\ table[e].container # None}
    IN  [e \in Deployment |->
            IF e \in free \ NewestOf(KeepWarm, free)
            THEN [table[e] EXCEPT !.container = None] ELSE table[e]]

\* What is healthy is ready, and promoted.
Serves(w) ==
    /\ work[w].at = "health"
    /\ production' = work[w].d
    /\ rows' = Served(MarkedReady(work[w].d, work[w].c), work[w].d)
    /\ work' = [work EXCEPT ![w] = Idle]
    /\ UNCHANGED <<sha, image, alive, rolling, sweep, unseen>>

\* A rollback to what is resident moves production; one to what is not first
\* looks whether its image is there.
RollsBack(d) ==
    /\ rolling = None
    /\ Promotable(d) /\ d # production
    /\ \/ /\ rows[d].container # None
          /\ production' = d
          /\ rows' = Served(rows, d)
          /\ UNCHANGED rolling
       \/ /\ rows[d].container = None
          /\ sha[d] \in image
          /\ rolling' = d
          /\ UNCHANGED <<rows, production>>
    /\ UNCHANGED <<sha, image, alive, work, sweep, unseen>>

Relaunches(c) ==
    /\ rolling # None
    /\ Runs(rolling, c)
    /\ production' = rolling
    /\ rows' = Served(SetContainer(rolling, c), rolling)
    /\ rolling' = None
    /\ UNCHANGED <<sha, image, work, sweep, unseen>>

\* docker run raised.
GivesUp ==
    /\ rolling # None
    /\ rolling' = None
    /\ UNCHANGED <<rows, production, sha, image, alive, work, sweep, unseen>>

\* Draining ends.
Exits(c) ==
    /\ c \in alive
    /\ \A d \in Deployment : rows[d].container # c
    /\ \A w \in Worker : work[w].c # c
    /\ alive' = alive \ {c}
    /\ UNCHANGED <<rows, production, sha, image, work, rolling, sweep, unseen>>

-----------------------------------------------------------------------------
(* sweep_images *)

\* Hourly between deploys, for room before a build, or by hand: the project.
SweepBegins(s) ==
    /\ sweep[s].at = "idle"
    /\ s \in Worker => work[s].at \in {"idle", "room"}
    /\ sweep' = [sweep EXCEPT ![s] = [NoSweep EXCEPT !.at = "project", !.ptr = production]]
    /\ UNCHANGED <<rows, production, sha, image, alive, work, rolling, unseen>>

\* Its deployments.
SweepKeeps(s) ==
    /\ sweep[s].at = "project"
    /\ sweep' = [sweep EXCEPT ![s].at = "keep", ![s].tags = Kept(sweep[s].ptr),
                               ![s].seen = {d \in Deployment : Exists(d)}]
    /\ UNCHANGED <<rows, production, sha, image, alive, work, rolling, unseen>>

\* Docker's images, less those.
SweepLists(s) ==
    /\ sweep[s].at = "keep"
    /\ sweep' = [sweep EXCEPT ![s].at = "remove", ![s].tags = image \ @]
    /\ UNCHANGED <<rows, production, sha, image, alive, work, rolling, unseen>>

Used(t) == \E c \in alive : sha[c[1]] = t

Unseen(t, s) == \E d \in Deployment \ sweep[s].seen : sha[d] = t

\* One after another; Docker refuses one in use.
SweepRemoves(s) ==
    /\ sweep[s].at = "remove"
    /\ \/ /\ sweep[s].tags = {}
          /\ sweep' = [sweep EXCEPT ![s] = NoSweep]
          /\ UNCHANGED <<image, unseen>>
       \/ \E t \in sweep[s].tags :
             /\ sweep' = [sweep EXCEPT ![s].tags = @ \ {t}]
             /\ image' = IF Used(t) THEN image ELSE image \ {t}
             /\ unseen' = IF ~Used(t) /\ Unseen(t, s) THEN unseen \cup {t} ELSE unseen
    /\ UNCHANGED <<rows, production, sha, alive, work, rolling>>

-----------------------------------------------------------------------------
DeployStep(w) ==
    \/ HasRoom(w) \/ Builds(w) \/ RecordsBuild(w) \/ Fails(w) \/ Serves(w)
    \/ \E c \in Container : Launches(w, c)

SweepStep(s) == SweepKeeps(s) \/ SweepLists(s) \/ SweepRemoves(s)

ImagesNext ==
    \/ \E d \in Deployment, s \in Sha : Queue(d, s)
    \/ \E d \in Deployment : Cancel(d) \/ RollsBack(d)
    \/ \E w \in Worker, d \in Deployment : Claims(w, d)
    \/ \E w \in Worker : DeployStep(w)
    \/ \E c \in Container : Relaunches(c) \/ Exits(c)
    \/ GivesUp
    \/ \E s \in Sweeper : SweepBegins(s) \/ SweepStep(s)

ImagesInit ==
    /\ rows = [d \in Deployment |-> NoRow]
    /\ production = None
    /\ sha = [d \in Deployment |-> None]
    /\ image = {}
    /\ alive = {}
    /\ work = [w \in Worker |-> Idle]
    /\ rolling = None
    /\ sweep = [s \in Sweeper |-> NoSweep]
    /\ unseen = {}

ImagesTypeOK ==
    /\ TableTypeOK
    /\ sha \in [Deployment -> Sha \cup {None}]
    /\ image \subseteq Sha
    /\ alive \subseteq Container
    /\ work \in [Worker -> [at : {"idle", "room", "build", "built", "launch",
                                  "health"},
                            d : Deployment \cup {None}, c : Container \cup {None}]]
    /\ rolling \in Deployment \cup {None}
    /\ sweep \in [Sweeper -> [at : {"idle", "project", "keep", "remove"},
                              ptr : Deployment \cup {None}, tags : SUBSET Sha,
                              seen : SUBSET Deployment]]
    /\ unseen \subseteq Sha

-----------------------------------------------------------------------------
\* The sweep does not take what is about to run: from the end of a build to
\* its docker run the image is on the host, though sweeps run beside it, unless
\* one took it that had read the deployments before this one was queued.
BuiltImageStays ==
    \A w \in Worker :
        work[w].at \in {"built", "launch"} => sha[work[w].d] \in image \cup unseen

\* A rollback is always possible: what production serves and the newest
\* rollback targets have their images, with the same exception.
RollbackTargetsStay ==
    \A d \in NewestOf(KeepImages, Ready) \cup ({production} \ {None}) :
        sha[d] \in image \cup unseen

\* What is being launched and what can be rolled back to keep their images
\* (the two above; housekeeping.py, "never one that is needed").
NeededImagesStay == BuiltImageStays /\ RollbackTargetsStay
=============================================================================
