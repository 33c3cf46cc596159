------------------------------- MODULE GitHub -------------------------------
(***************************************************************************)
(* The GitHub App (engine/github.py, web/github.py, routers/github.py): it *)
(* is connected and disconnected, installed and uninstalled, a project is  *)
(* imported or linked to an installation, and pushes deploy it.            *)
(*                                                                         *)
(* GitHub's side is the apps it created, their installations and the       *)
(* deliveries on their way.  One project and its repository, on one        *)
(* account: an app has one live installation at a time.  Apps and          *)
(* installations are numbered as GitHub makes them; 0 is none.  A request  *)
(* is cut where it writes: what it read and was answered before is kept in *)
(* its state.                                                              *)
(***************************************************************************)
EXTENDS Naturals, Sequences

CONSTANTS
    Caller,   \* requests the control plane can be at once: pages and webhooks
    MaxApps, MaxGrants, MaxPushes \* bounds: what is ever made on GitHub

ASSUME GitHubAssumption == {MaxApps, MaxGrants, MaxPushes} \subseteq Nat

VARIABLES
    apps,     \* apps created on GitHub
    app,      \* the app connected (github_app)
    grant,    \* installations on GitHub: whose, and whether still there
    known,    \* github_installations
    project,  \* whether it is there, and its installation
    mail,     \* webhook deliveries on their way, oldest first
    caller,   \* what each request is at
    pushes,   \* pushes made
    deployed, \* pushes that queued a deployment
    owed,     \* history: pushes made while the project was linked, and still is
    muddled   \* history: a delivery came to nothing, or a request met another

gitHubVars == <<apps, app, grant, known, project, mail, caller, pushes, deployed, owed, muddled>>

onGitHub == <<grant, mail, pushes>>

App == 1 .. MaxApps
Grant == 1 .. MaxGrants
Push == 1 .. MaxPushes

Granted == DOMAIN grant

\* An installation GitHub lets app a act for.
Answers(a, g) == grant[g].app = a /\ grant[g].live

Rest == [at |-> "rest", app |-> 0, grant |-> 0, kind |-> "none", push |-> 0]

Busy == {c \in Caller : caller[c] # Rest}

IsAt(c, at) == caller[c].at = at

Proceeds(c, at) == caller' = [caller EXCEPT ![c].at = at]

Begins(c, state) ==
    /\ caller[c] = Rest
    /\ caller' = [caller EXCEPT ![c] = state]

Ends(c) == caller' = [caller EXCEPT ![c] = Rest]

-----------------------------------------------------------------------------
(* On GitHub *)

Installs(a) ==
    /\ a <= apps /\ Len(grant) < MaxGrants
    /\ \A g \in Granted : ~Answers(a, g)
    /\ grant' = Append(grant, [app |-> a, live |-> TRUE])
    /\ mail' = Append(mail, [kind |-> "created", app |-> a, grant |-> Len(grant'), push |-> 0])
    /\ UNCHANGED <<apps, app, known, project, caller, pushes, deployed>>

Uninstalls(g) ==
    /\ g \in Granted /\ grant[g].live
    /\ grant' = [grant EXCEPT ![g].live = FALSE]
    /\ mail' = Append(mail, [kind |-> "deleted", app |-> grant[g].app, grant |-> g, push |-> 0])
    /\ UNCHANGED <<apps, app, known, project, caller, pushes, deployed>>

Live == {g \in Granted : grant[g].live}

\* Somebody pushes the production branch: every app that reads it is told
\* once, in no order.
Pushes ==
    LET Tell(g) == [kind |-> "push", app |-> grant[g].app, grant |-> g, push |-> pushes']
    IN  /\ pushes < MaxPushes /\ pushes' = pushes + 1
        /\ \E n \in 0 .. Len(grant) : \E told \in [1 .. n -> Live] :
              /\ \A g \in Live : \E k \in 1 .. n : told[k] = g
              /\ \A j, k \in 1 .. n : told[j] = told[k] => j = k
              /\ mail' = mail \o [k \in 1 .. n |-> Tell(told[k])]
        /\ UNCHANGED <<apps, app, grant, known, project, caller, deployed>>

-----------------------------------------------------------------------------
(* Pages of the dashboard *)

\* /github/created: an app was made and its one-time code exchanged, which is
\* refused while an app is connected ...
AppCreated(c) ==
    /\ app = 0 /\ apps < MaxApps
    /\ apps' = apps + 1
    /\ Begins(c, [Rest EXCEPT !.at = "keep", !.app = apps'])
    /\ UNCHANGED <<onGitHub, app, known, project, deployed>>

\* ... and it is kept, unless another was meanwhile: there is one row.
KeepsApp(c) ==
    /\ IsAt(c, "keep")
    /\ app' = IF app = 0 THEN caller[c].app ELSE app
    /\ Ends(c)
    /\ UNCHANGED <<onGitHub, apps, known, project, deployed>>

\* /github/installed, with an id anyone could type: GitHub answers only for
\* the app's own installations.
AppInstalled(c) ==
    /\ \E g \in Granted :
          /\ Answers(app, g)
          /\ Begins(c, [Rest EXCEPT !.at = "save", !.grant = g, !.kind = "record"])
    /\ UNCHANGED <<onGitHub, apps, app, known, project, deployed>>

\* link, from the project's page: the installation that covers the repository.
Links(c) ==
    /\ project.there
    /\ \E g \in Granted :
          /\ Answers(app, g)
          /\ Begins(c, [Rest EXCEPT !.at = "save", !.grant = g, !.kind = "link"])
    /\ UNCHANGED <<onGitHub, apps, app, known, project, deployed>>

SavesInstallation(c) ==
    /\ IsAt(c, "save")
    /\ known' = known \cup {caller[c].grant}
    /\ IF caller[c].kind = "link" THEN Proceeds(c, "link") ELSE Ends(c)
    /\ UNCHANGED <<onGitHub, apps, app, project, deployed>>

\* The installation must still be a row: otherwise the database refuses.
LinksProject(c) ==
    /\ IsAt(c, "link")
    /\ project' = IF caller[c].grant \in known
                  THEN [project EXCEPT !.link = caller[c].grant] ELSE project
    /\ Ends(c)
    /\ UNCHANGED <<onGitHub, apps, app, known, deployed>>

\* Importing: of a repository one of the installations reads, a project is
\* made, and then linked.
Imports(c) ==
    /\ ~project.there
    /\ \E g \in known :
          /\ Answers(app, g)
          /\ Begins(c, [Rest EXCEPT !.at = "create", !.grant = g, !.kind = "import"])
    /\ UNCHANGED <<onGitHub, apps, app, known, project, deployed>>

CreatesProject(c) ==
    /\ IsAt(c, "create")
    /\ IF project.there THEN Ends(c) /\ UNCHANGED project
       ELSE Proceeds(c, "link") /\ project' = [there |-> TRUE, link |-> 0]
    /\ UNCHANGED <<onGitHub, apps, app, known, deployed>>

Unlinks ==
    /\ project.link # 0
    /\ project' = [project EXCEPT !.link = 0]
    /\ UNCHANGED <<onGitHub, apps, app, known, caller, deployed>>

\* Variant: the app's row alone is deleted.
ForgetsTheApp ==
    /\ app # 0 /\ app' = 0
    /\ UNCHANGED <<onGitHub, apps, known, project, caller, deployed>>

\* The app and its installations are forgotten, and with those the link.
Disconnects ==
    /\ app # 0 /\ app' = 0
    /\ known' = {} /\ project' = [project EXCEPT !.link = 0]
    /\ UNCHANGED <<onGitHub, apps, caller, deployed>>

\* A request fails where it is.
RequestFails(c) ==
    /\ caller[c] # Rest
    /\ Ends(c)
    /\ UNCHANGED <<onGitHub, apps, app, known, project, deployed>>

-----------------------------------------------------------------------------
(* Webhooks *)

Without(i) == SubSeq(mail, 1, i - 1) \o SubSeq(mail, i + 1, Len(mail))

\* A delivery arrives: refused unless it is signed with the connected app's
\* secret.
Arrives(c, i) ==
    /\ caller[c] = Rest
    /\ mail' = Without(i)
    /\ IF mail[i].app = app
       THEN Begins(c, [at |-> "hook", app |-> app, grant |-> mail[i].grant,
                       kind |-> mail[i].kind, push |-> mail[i].push])
       ELSE UNCHANGED caller
    /\ UNCHANGED <<apps, grant, pushes, app, known, project, deployed>>

\* GitHub does not try again.
Lost(i) ==
    /\ mail' = Without(i)
    /\ UNCHANGED <<apps, grant, pushes, app, known, project, caller, deployed>>

\* An installation's row that goes takes the link with it.
Applies(c) ==
    LET g == caller[c].grant
        kind == caller[c].kind
    IN  /\ IsAt(c, "hook")
        /\ known' = CASE kind = "created" -> known \cup {g}
                      [] kind = "deleted" -> known \ {g}
                      [] OTHER -> known
        /\ project' = [project EXCEPT !.link = IF @ \in known' THEN @ ELSE 0]
        /\ deployed' = IF kind = "push" /\ project.link # 0
                       THEN deployed \cup {caller[c].push} ELSE deployed
        /\ Ends(c)
        /\ UNCHANGED <<onGitHub, apps, app>>

-----------------------------------------------------------------------------

GitHubInit ==
    /\ apps = 0 /\ app = 0 /\ grant = <<>> /\ known = {}
    /\ project \in [there : BOOLEAN, link : {0}]
    /\ mail = <<>> /\ caller = [c \in Caller |-> Rest]
    /\ pushes = 0 /\ deployed = {} /\ owed = {} /\ muddled = FALSE

\* One request is told of an uninstall while another handles that
\* installation.
Collides ==
    \E c, d \in Busy :
        /\ c # d /\ caller[c].grant = caller[d].grant
        /\ IsAt(c, "hook") /\ caller[c].kind = "deleted"

Overtakes(i) == \E j \in 1 .. (i - 1) : mail[j].grant = mail[i].grant

\* The project is linked to an installation that is still there.
Reached == project.link # 0 /\ grant[project.link].live

\* A push is owed as long as the project stays linked.
Noting(upset) ==
    /\ muddled' = (upset \/ Collides')
    /\ owed' = IF Reached' THEN owed \cup ((pushes + 1) .. pushes') ELSE {}

Page(c) ==
    \/ AppCreated(c) \/ AppInstalled(c) \/ Links(c) \/ SavesInstallation(c)
    \/ LinksProject(c) \/ Imports(c) \/ CreatesProject(c)

\* A behaviour is followed until something is muddled.
GitHubNext == ~muddled /\
    \/ \E a \in App : Installs(a) /\ Noting(FALSE)
    \/ \E g \in Grant : Uninstalls(g) /\ Noting(FALSE)
    \/ Pushes /\ Noting(FALSE)
    \/ \E c \in Caller : Page(c) /\ Noting(FALSE)
    \/ \E c \in Caller : KeepsApp(c) /\ Noting(\E g \in Granted : Answers(app', g))
    \/ Unlinks /\ Noting(FALSE)
    \/ Disconnects /\ Noting(Busy # {})
    \/ \E c \in Caller : RequestFails(c) /\ Noting(IsAt(c, "hook"))
    \/ \E c \in Caller, i \in DOMAIN mail : Arrives(c, i) /\ Noting(Overtakes(i))
    \/ \E i \in DOMAIN mail : Lost(i) /\ Noting(TRUE)
    \/ \E c \in Caller : Applies(c) /\ Noting(FALSE)

\* The shapes of the component's state; rows and links are of installations
\* there once were.
GitHubTypeOK ==
    /\ apps \in 0 .. MaxApps /\ app \in 0 .. apps
    /\ Len(grant) <= MaxGrants /\ \A g \in Granted : grant[g] \in [app : App, live : BOOLEAN]
    /\ known \subseteq Granted
    /\ project \in [there : BOOLEAN, link : {0} \cup known]
    /\ \A c \in Caller : caller[c].grant \in {0} \cup Granted
    /\ deployed \subseteq Push /\ owed \subseteq Push /\ muddled \in BOOLEAN

Quiet == Busy = {} /\ mail = <<>> /\ ~muddled

\* When every delivery was heard and none met a request about the same
\* installation, github_installations is what GitHub says of the connected
\* app (routers/github.py, "Keep the list of installations in step"), across
\* disconnecting it and connecting another ...
InstallationsInStep == Quiet => known = {g \in Granted : Answers(app, g)}

\* ... each push made to a linked project that stays linked is deployed
\* (web/github.py, "Every push now deploys by itself") ...
PushesDeploy == Quiet => owed \subseteq deployed

\* ... and a project is linked to the connected app's installation, never to
\* one of an app before it, whose tokens workers may still hold.
LinkedToTheApp == ~muddled /\ project.link # 0 => grant[project.link].app = app

\* The three together.
AppInStep == InstallationsInStep /\ PushesDeploy /\ LinkedToTheApp
=============================================================================
