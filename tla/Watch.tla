------------------------------- MODULE Watch -------------------------------
(***************************************************************************)
(* What the job loop does beside the deploys: follow a log, take pictures, *)
(* watch for outages, keep Redis running.  The tasks share the loop that   *)
(* starts them and nothing else, so a behaviour here is a behaviour of one *)
(* of them, with the others at rest: part says which.                      *)
(***************************************************************************)
EXTENDS DeployLog, Previews, Monitor, Redis

VARIABLE part

vars == <<part, logVars, previewVars, monitorVars, redisVars>>

LogStep ==
    /\ part = "log" /\ LogNext
    /\ UNCHANGED <<part, previewVars, monitorVars, redisVars>>

PreviewStep ==
    /\ part = "previews" /\ PreviewNext
    /\ UNCHANGED <<part, logVars, monitorVars, redisVars>>

MonitorStep ==
    /\ part = "monitor" /\ MonitorNext
    /\ UNCHANGED <<part, logVars, previewVars, redisVars>>

RedisPart ==
    /\ part = "redis" /\ RedisNext
    /\ UNCHANGED <<part, logVars, previewVars, monitorVars>>

Init ==
    /\ part \in {"log", "previews", "monitor", "redis"}
    /\ LogInit /\ PreviewInit /\ MonitorInit /\ RedisInit
    /\ part = "monitor" \/ here = CHOOSE scene \in Scenes : TRUE

Next == LogStep \/ PreviewStep \/ MonitorStep \/ RedisPart

Spec == Init /\ [][Next]_vars

\* The job loop looks for pictures to take every five seconds, and a capture
\* has its timeouts; time passes.  It starts the monitor every minute, whose
\* probes and messages have timeouts, and Redis is looked after in the same
\* pass; jobs run on their schedule.
FairSpec ==
    /\ Spec
    /\ \A k \in Camera : WF_previewVars(part = "previews" /\ CameraStep(k))
    /\ \A p \in Site : WF_previewVars(part = "previews" /\ GrowsLate(p))
    /\ WF_monitorVars(part = "monitor" /\ Begins)
    /\ \A t \in Watchable : WF_monitorVars(part = "monitor" /\ Checks(t))
    /\ \A j \in Job : WF_monitorVars(part = "monitor" /\ JobRuns(j))
    /\ WF_redisVars(part = "redis" /\ Recorded(PassBegins))
    /\ \A a \in Actor : WF_redisVars(part = "redis" /\ Recorded(RedisStep(a)))

\* The shapes of the four.
TypeOK == LogTypeOK /\ PreviewTypeOK /\ MonitorTypeOK /\ RedisTypeOK
=============================================================================
