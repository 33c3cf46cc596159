-------------------------------- MODULE Host --------------------------------
(***************************************************************************)
(* What a deploy rests on: the plan its checkout gives, the values its     *)
(* containers hold, the images the host keeps, the domain it is reached    *)
(* at, the schedules of its jobs, the GitHub App that reads its code.      *)
(* They share nothing but the project, so a behaviour here is a behaviour  *)
(* of one of them with the others at rest: concern says which.             *)
(***************************************************************************)
EXTENDS Images, Schedules, Plans, Dns, Environments, GitHub

VARIABLE concern

vars == <<concern, imagesVars, scheduleVars, planVars, dnsVars, deliveryVars, gitHubVars>>

Concerns == {"images", "schedules", "plans", "dns", "environments", "github"}

ImagesPart ==
    /\ concern = "images" /\ ImagesNext
    /\ UNCHANGED <<concern, scheduleVars, planVars, dnsVars, deliveryVars, gitHubVars>>

SchedulesPart ==
    /\ concern = "schedules" /\ SchedulesNext
    /\ UNCHANGED <<concern, imagesVars, planVars, dnsVars, deliveryVars, gitHubVars>>

PlansPart ==
    /\ concern = "plans" /\ PlansNext
    /\ UNCHANGED <<concern, imagesVars, scheduleVars, dnsVars, deliveryVars, gitHubVars>>

DnsPart ==
    /\ concern = "dns" /\ DnsNext
    /\ UNCHANGED <<concern, imagesVars, scheduleVars, planVars, deliveryVars, gitHubVars>>

EnvironmentsPart ==
    /\ concern = "environments" /\ EnvironmentsNext
    /\ UNCHANGED <<concern, imagesVars, scheduleVars, planVars, dnsVars, gitHubVars>>

GitHubPart ==
    /\ concern = "github" /\ GitHubNext
    /\ UNCHANGED <<concern, imagesVars, scheduleVars, planVars, dnsVars, deliveryVars>>

Next ==
    \/ ImagesPart \/ SchedulesPart \/ PlansPart \/ DnsPart \/ EnvironmentsPart
    \/ GitHubPart

\* What is at rest starts in one of its initial states, named first.
SomeExpression == CHOOSE e \in Expressions : Parses(e)
SomeCheckout == CHOOSE c \in Checkouts : TRUE
SomeSettings == CHOOSE o \in Settings : TRUE
SomeCommit == CHOOSE c \in Commit : TRUE

Init ==
    /\ concern \in Concerns
    /\ concern = "schedules" \/ cron = Parse(SomeExpression)
    /\ SchedulesInit
    /\ concern = "plans" \/ (checkout = SomeCheckout /\ settings = SomeSettings)
    /\ PlansInit
    /\ \/ concern = "environments"
       \/ /\ target = [d \in Release |-> "production"]
          /\ commit = [d \in Release |-> SomeCommit]
    /\ EnvironmentsInit /\ ImagesInit /\ DnsInit
    /\ concern = "github" \/ project = [there |-> FALSE, link |-> 0]
    /\ GitHubInit

Spec == Init /\ [][Next]_vars

\* The shapes of the six.
TypeOK ==
    /\ ImagesTypeOK /\ SchedulesTypeOK /\ PlansTypeOK /\ DnsTypeOK
    /\ EnvironmentsTypeOK /\ GitHubTypeOK
=============================================================================
