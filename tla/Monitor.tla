------------------------------ MODULE Monitor ------------------------------
(***************************************************************************)
(* The monitor's pass over sites, workers, Redis and disks, once a minute, *)
(* and the alerts it fires and resolves (engine/monitor.py,                *)
(* engine/alerts.py, adapters/notify.py, the job alerts of worker.py).     *)
(*                                                                         *)
(* Strikes and firing alerts live in the worker's memory and go with it.   *)
(* A pass reads the list of what to watch first and probes one thing after *)
(* another; a message that cannot be sent is dropped.                      *)
(***************************************************************************)
EXTENDS Integers

CONSTANTS
    Probed,    \* sites and Redis: down when they do not answer
    Started,   \* worker containers: unknown when there is none by that name
    Gauge,     \* disks and Redis memory: with a margin before they resolve
    Job,       \* scheduled jobs: fired and resolved as their runs end
    Strikes,   \* STRIKES
    Scenes,    \* what an installation has: sets of things
    MaxTrouble \* bound: changes of what is watched, restarts and lost messages

ASSUME MonitorAssumption ==
    /\ \A scene \in Scenes : scene \subseteq Probed \cup Started \cup Gauge \cup Job
    /\ (Probed \cup Started) \cap (Gauge \cup Job) = {}
    /\ Strikes \in Nat \ {0} /\ MaxTrouble \in Nat

VARIABLES
    here,     \* the things this installation has
    health,   \* each thing: up, between, down, or absent
    watched,  \* things the tables name: in production, not paused, in range
    pass,     \* what the pass has left to check
    strikes,  \* Monitor._strikes
    firing,   \* Alerts._firing
    chat,     \* the last message about each thing
    row,      \* history: failed checks of each thing without a good one
    trouble

monitorVars == <<here, health, watched, pass, strikes, firing, chat, row, trouble>>

Watchable == Probed \cup Started \cup Gauge
Thing == Watchable \cup Job

Healths(t) ==
    {"up", "down"} \cup (IF t \in Started THEN {"absent"} ELSE {})
                   \cup (IF t \in Gauge THEN {"between"} ELSE {})

Troubled == trouble < MaxTrouble /\ trouble' = trouble + 1

\* notify.send: one POST, whose failure is only logged.
Says(t, word) ==
    \/ chat' = [chat EXCEPT ![t] = word] /\ UNCHANGED trouble
    \/ chat' = [chat EXCEPT ![t] = "lost"] /\ Troubled

\* fire and resolve: once each.
Fire(t) ==
    IF t \in firing THEN UNCHANGED <<firing, chat, trouble>>
    ELSE firing' = firing \cup {t} /\ Says(t, "critical")

Resolve(t) ==
    IF t \in firing THEN firing' = firing \ {t} /\ Says(t, "resolved")
    ELSE UNCHANGED <<firing, chat, trouble>>

\* Variant: a good check leaves the strikes.
StrikesKept(t) == strikes

StrikesCleared(t) == [strikes EXCEPT ![t] = 0]

\* Counted no further than the threshold.
Struck(t) == [strikes EXCEPT ![t] = IF @ < Strikes THEN @ + 1 ELSE @]

\* _record of a site, a worker or a Redis.
RecordGood(t) ==
    /\ strikes' = StrikesCleared(t)
    /\ row' = [row EXCEPT ![t] = 0]
    /\ Resolve(t)

RecordBad(t) ==
    /\ strikes' = Struck(t)
    /\ row' = [row EXCEPT ![t] = IF @ < Strikes THEN @ + 1 ELSE @]
    /\ IF strikes'[t] >= Strikes THEN Fire(t) ELSE UNCHANGED <<firing, chat, trouble>>

\* A pass: the tables are read.
Begins ==
    /\ pass = {}
    /\ pass' = watched \cap Watchable
    /\ UNCHANGED <<here, health, watched, strikes, firing, chat, row, trouble>>

\* Variant: the pass ends with the first thing that is down.
ChecksUntilDown(t) ==
    /\ t \in pass
    /\ \/ /\ health[t] = "down"
          /\ pass' = {}
          /\ IF t \in Gauge THEN Fire(t) /\ UNCHANGED <<strikes, row>>
             ELSE RecordBad(t)
       \/ /\ health[t] = "up"
          /\ pass' = pass \ {t}
          /\ IF t \in Gauge THEN Resolve(t) /\ UNCHANGED <<strikes, row>>
             ELSE RecordGood(t)
       \/ /\ health[t] \in {"absent", "between"}
          /\ pass' = pass \ {t}
          /\ UNCHANGED <<strikes, row, firing, chat, trouble>>
    /\ UNCHANGED <<here, health, watched>>

\* One check.  A worker without a container is neither up nor down; a gauge
\* fires at its threshold and resolves below the margin.
Checks(t) ==
    /\ t \in pass
    /\ pass' = pass \ {t}
    /\ \/ /\ health[t] = "down"
          /\ IF t \in Gauge THEN Fire(t) /\ UNCHANGED <<strikes, row>>
             ELSE RecordBad(t)
       \/ /\ health[t] = "up"
          /\ IF t \in Gauge THEN Resolve(t) /\ UNCHANGED <<strikes, row>>
             ELSE RecordGood(t)
       \/ /\ health[t] \in {"absent", "between"}
          /\ UNCHANGED <<strikes, row, firing, chat, trouble>>
    /\ UNCHANGED <<here, health, watched>>

\* A project deleted under the pass: reading it raises, and the pass ends.
Breaks ==
    /\ pass # {}
    /\ Troubled
    /\ pass' = {}
    /\ UNCHANGED <<here, health, watched, strikes, firing, chat, row>>

\* _alert_on_job: a run has failed or timed out, or succeeded.
JobRuns(j) ==
    /\ j \in here
    /\ IF health[j] = "down" THEN Fire(j) ELSE Resolve(j)
    /\ UNCHANGED <<here, health, watched, pass, strikes, row>>

Restarts ==
    /\ Troubled
    /\ pass' = {}
    /\ strikes' = [t \in Thing |-> 0] /\ row' = [t \in Thing |-> 0]
    /\ firing' = {}
    /\ UNCHANGED <<here, health, watched, chat>>

\* Promoted, paused, resumed, scaled, deleted.
Rewatched(t) ==
    /\ t \in here /\ Troubled
    /\ watched' = (watched \ {t}) \cup ({t} \ watched)
    /\ UNCHANGED <<here, health, pass, strikes, firing, chat, row>>

Becomes(t, h) ==
    /\ t \in here /\ h # health[t]
    /\ health' = [health EXCEPT ![t] = h]
    /\ UNCHANGED <<here, watched, pass, strikes, firing, chat, row, trouble>>

MonitorNext ==
    \/ Begins
    \/ \E t \in Watchable : Checks(t) \/ Rewatched(t)
    \/ Breaks
    \/ \E j \in Job : JobRuns(j)
    \/ Restarts
    \/ \E t \in Thing : \E h \in Healths(t) : Becomes(t, h)

MonitorInit ==
    /\ health = [t \in Thing |-> "up"]
    /\ here \in Scenes
    /\ watched = here \cap Watchable
    /\ pass = {}
    /\ strikes = [t \in Thing |-> 0]
    /\ firing = {}
    /\ chat = [t \in Thing |-> "none"]
    /\ row = [t \in Thing |-> 0]
    /\ trouble = 0

MonitorTypeOK ==
    /\ health \in [Thing -> {"up", "down", "absent", "between"}]
    /\ \A t \in Thing : health[t] \in Healths(t)
    /\ here \in Scenes /\ watched \subseteq here /\ pass \subseteq Watchable
    /\ strikes \in [Thing -> 0..Strikes] /\ row \in [Thing -> 0..Strikes]
    /\ firing \subseteq Thing
    /\ chat \in [Thing -> {"none", "critical", "resolved", "lost"}]
    /\ trouble \in 0..MaxTrouble

-----------------------------------------------------------------------------
\* One failed check is no alarm: a site, a Redis or a worker is reported down
\* only when it failed twice with no good check between, whatever passes
\* broke off and whatever was taken off the list and put back meanwhile.
NoFalseAlarm ==
    [][\A t \in Probed \cup Started :
          t \notin firing /\ t \in firing' => row'[t] >= Strikes]_monitorVars

\* An outage is not slept through: of a thing that stays down, and on the
\* list, the last word is in the end that it is down, or a message that was
\* lost, though passes broke off, the worker restarted with no memory of what
\* it had said, and other things were down too.
OutageReported ==
    \A t \in Thing :
        <>[](health[t] = "down" /\ (t \in watched \cup Job))
            => <>[](chat[t] \in {"critical", "lost"})

\* The chat is told of an outage, and of nothing less.
AlarmsAreTrue == NoFalseAlarm /\ OutageReported
=============================================================================
