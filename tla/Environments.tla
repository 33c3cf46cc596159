---------------------------- MODULE Environments ----------------------------
(***************************************************************************)
(* What a build and a container of one project are given: a variable set   *)
(* for some scope, Redis's address, the volumes (engine/environment.py,    *)
(* engine/storage.py, redis.variables), from the moment they are changed   *)
(* to the containers that hold them.                                       *)
(*                                                                         *)
(* One variable stands for all: its value is known by where it came from.  *)
(* Moving production is one step; its interleavings are Promotion's.       *)
(***************************************************************************)
EXTENDS Naturals

CONSTANTS
    Release,  \* deployments
    Commit,   \* what they deploy
    MaxEdits, \* bound: changes of the settings
    Nobody    \* no deployment, no container

ASSUME EnvironmentsAssumption == MaxEdits \in Nat

VARIABLES
    target,  \* what each is deployed as, from its branch
    commit,  \* the commit of each
    scopes,  \* the scopes the variable is set for
    redis,   \* the project has Redis
    volumes, \* the project has volumes
    bundle,  \* the image of each commit: the value its build saw
    builder, \* the deployment being deployed, and how far it is
    ready,   \* deployments that became ready
    unit,    \* the container of each deployment
    live,    \* the deployment in production
    asked,   \* history: deployments somebody asked to put in production
    edits    \* how often the settings changed

deliveryVars == <<target, commit, scopes, redis, volumes, bundle, builder, ready, unit,
                  live, asked, edits>>

configured == <<scopes, redis, volumes, edits>>

Target == {"production", "preview"}

Scope == Target \cup {"all"}

Covers(scope, t) == scope \in {"all", t}

\* Variant: in the order the database returns them.
AsReturned == <<"production", "preview", "all">>

\* The rows in the order they are applied: all first.
Applied == <<"all", "production", "preview">>

\* collect: what is injected, then every row that covers the target.
Collected(t, injected) ==
    LET value[i \in 0 .. 3] ==
            IF i = 0 THEN injected
            ELSE IF Applied[i] \in scopes /\ Covers(Applied[i], t) THEN Applied[i]
            ELSE value[i - 1]
    IN  value[3]

\* Redis and volumes are production's alone.
Injected(t) == IF redis /\ t = "production" THEN "redis" ELSE "none"

Mounts(t) == volumes /\ t = "production"

\* A container of deployment d started for t.
ContainerFor(d, t) ==
    [target |-> t, env |-> Collected(t, Injected(t)), mounts |-> Mounts(t),
     bundle |-> bundle[commit[d]]]

-----------------------------------------------------------------------------
Edits ==
    /\ edits < MaxEdits /\ edits' = edits + 1
    /\ UNCHANGED <<target, commit, bundle, builder, ready, unit, live, asked>>

SetsVariable(s) ==
    /\ scopes' = scopes \cup {s}
    /\ Edits
    /\ UNCHANGED <<redis, volumes>>

\* One scope's row, or the key altogether.
UnsetsVariable(s) ==
    /\ scopes' \in {scopes \ {s}, {}} /\ scopes' # scopes
    /\ Edits
    /\ UNCHANGED <<redis, volumes>>

\* Redis or a volume is added or removed; containers are not touched.
Configures ==
    /\ \/ redis' = ~redis /\ UNCHANGED volumes
       \/ volumes' = ~volumes /\ UNCHANGED redis
    /\ Edits
    /\ UNCHANGED scopes

\* A deploy builds with the value its target sees; Redis is not there yet.
BuildsFor(d) ==
    /\ builder = Nobody /\ d \notin ready /\ unit[d] = Nobody
    /\ bundle' = [bundle EXCEPT ![commit[d]] = Collected(target[d], "none")]
    /\ builder' = [d |-> d, at |-> "built"]
    /\ UNCHANGED <<target, commit, configured, ready, unit, live, asked>>

\* The container is healthy, and the deployment ready.
StartsUnit ==
    /\ builder # Nobody /\ builder.at = "built"
    /\ LET d == builder.d
       IN  /\ unit' = [unit EXCEPT ![d] = ContainerFor(d, target[d])]
           /\ ready' = ready \cup {d}
           /\ builder' = IF target[d] = "production"
                         THEN [d |-> d, at |-> "promote"] ELSE Nobody
    /\ UNCHANGED <<target, commit, configured, bundle, live, asked>>

\* The build, the container or the promotion fails.
DeployFails ==
    /\ builder # Nobody
    /\ builder' = Nobody
    /\ ready' = ready \ {builder.d}
    /\ UNCHANGED <<target, commit, configured, bundle, unit, live, asked>>

\* d goes into production: in its own container when that is running and in a
\* new one otherwise, and some of the others are reclaimed.
GoesLiveWith(d, gone) ==
    /\ live' = d
    /\ unit' = [e \in Release |->
                   IF e = d /\ unit[d] = Nobody THEN ContainerFor(d, "production")
                   ELSE IF e \in gone THEN Nobody ELSE unit[e]]
    /\ UNCHANGED <<target, commit, configured, bundle, ready>>

PromotesBuilt ==
    /\ builder # Nobody /\ builder.at = "promote"
    /\ \E gone \in SUBSET (Release \ {builder.d}) : GoesLiveWith(builder.d, gone)
    /\ builder' = Nobody
    /\ UNCHANGED asked

\* Promote and rollback take any deployment that is ready.
PromotesByHand(d) ==
    /\ d \in ready /\ d # live
    /\ \E gone \in SUBSET (Release \ {d}) : GoesLiveWith(d, gone)
    /\ asked' = asked \cup {d}
    /\ UNCHANGED builder

\* A container is gone: it crashed, or was reclaimed.
UnitGoes(d) ==
    /\ unit[d] # Nobody
    /\ unit' = [unit EXCEPT ![d] = Nobody]
    /\ UNCHANGED <<target, commit, configured, bundle, builder, ready, live, asked>>

EnvironmentsNext ==
    \/ \E s \in Scope : SetsVariable(s) \/ UnsetsVariable(s)
    \/ Configures \/ StartsUnit \/ DeployFails \/ PromotesBuilt
    \/ \E d \in Release : BuildsFor(d) \/ PromotesByHand(d) \/ UnitGoes(d)

EnvironmentsInit ==
    /\ target \in [Release -> Target] /\ commit \in [Release -> Commit]
    /\ scopes = {} /\ redis = FALSE /\ volumes = FALSE
    /\ bundle = [c \in Commit |-> "none"]
    /\ builder = Nobody /\ ready = {} /\ unit = [d \in Release |-> Nobody]
    /\ live = Nobody /\ asked = {} /\ edits = 0

Source == Scope \cup {"redis", "none"}

Unit == [target : Target, env : Source, mounts : BOOLEAN, bundle : Source]

EnvironmentsTypeOK ==
    /\ target \in [Release -> Target] /\ commit \in [Release -> Commit]
    /\ scopes \subseteq Scope /\ {redis, volumes} \subseteq BOOLEAN
    /\ bundle \in [Commit -> Source]
    /\ builder = Nobody \/ builder \in [d : Release, at : {"built", "promote"}]
    /\ ready \subseteq Release /\ asked \subseteq Release
    /\ unit \in [Release -> Unit \cup {Nobody}]
    /\ live \in Release \cup {Nobody} /\ edits \in 0 .. MaxEdits

-----------------------------------------------------------------------------
\* A value set for one environment beats the same key set for all, and both
\* beat what DeployPro injects, in whatever order they were set (collect).
ScopedWins ==
    \A t \in Target :
        Collected(t, Injected(t)) =
            IF t \in scopes THEN t
            ELSE IF "all" \in scopes THEN "all" ELSE Injected(t)

\* A deployment of another branch, which nobody put in production, runs with
\* no production value, no Redis, no volume, and from an image whose build saw
\* no production value, whatever was promoted, reclaimed or restarted beside
\* it and though commits share their image (environment.py, storage.py).
PreviewIsolated ==
    \A d \in Release :
        target[d] = "preview" /\ d \notin asked /\ unit[d] # Nobody =>
            /\ unit[d].env \notin {"production", "redis"} /\ ~unit[d].mounts
            /\ unit[d].bundle # "production"

\* Which value a container holds is decided by where it was deployed to, and by
\* nothing beside it (the two above).
EnvironmentIsScoped == ScopedWins /\ PreviewIsolated

\* What serves production was started as production: with its values, its
\* Redis and its volumes ("production gets the project's volumes, a preview
\* gets none", engine/storage.py).
ProductionHasItsOwn ==
    live # Nobody /\ unit[live] # Nobody => unit[live].target = "production"
=============================================================================
