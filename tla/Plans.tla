------------------------------- MODULE Plans -------------------------------
(***************************************************************************)
(* How a checkout becomes a build plan: detection (domain/detect.py) and   *)
(* the Dockerfiles it generates (domain/dockerfiles.py).                   *)
(*                                                                         *)
(* A generated Dockerfile is the sequence of its stages, and a stage what  *)
(* the next ones can tell of it: its image, the tools and paths it has,    *)
(* what it copies from another stage, the commands it runs (their tool, a  *)
(* cache mounted, the project's variables mounted), its user and its CMD.  *)
(* A port is on the plan, in the runtime stage and in the command.         *)
(***************************************************************************)
EXTENDS Naturals, FiniteSets, Sequences

CONSTANTS
    Checkouts, \* what a commit may hold
    Settings,  \* what a project's settings may say
    Unset,     \* nothing said, nothing there
    Broken     \* not valid JSON

Port == 1 .. 65535

\* A port is in range wherever it is said (routers/schemas.py, _port); an
\* EXPOSE is any number.
ASSUME PlansAssumption ==
    /\ \A s \in Settings : s.port \in Port \cup {Unset}
    /\ \A c \in Checkouts :
          /\ c.manifest \notin {Unset, Broken} => c.manifest.port \in Port \cup {Unset}
          /\ \A expose \in {c.dockerfile, c.named} \ {Unset} : expose \in Seq(Nat)

VARIABLES
    checkout, \* the commit being deployed
    settings, \* Overrides: framework, install, build, start and port
    plan      \* what was decided

planVars == <<checkout, settings, plan>>

DefaultPort == 8080

Undecided == [verdict |-> "undecided"]

Refused == [verdict |-> "refused"]

Or(x, y) == IF x # Unset THEN x ELSE y

\* Package managers by lockfile, the stricter one first.
Managers == <<"pnpm", "yarn", "bun", "npm">>

\* The lockfile decides; a custom install command replaces only the command.
Toolchain(locks) ==
    LET found == {i \in 1 .. Len(Managers) : Managers[i] \in locks}
        name == IF found = {} THEN "npm"
                ELSE Managers[CHOOSE i \in found : \A j \in found : i <= j]
    IN  [name |-> name, locked |-> found # {},
         setup |-> IF name = "npm" THEN {} ELSE {name}]

\* What the base images come with.
ToolsOf(image) ==
    CASE image = "node" -> {"node", "npm", "npx", "yarn"}
      [] image = "python" -> {"python", "pip"}
      [] image = "go" -> {"go"}
      [] image = "caddy" -> {"caddy"}
      [] image = "distroless" -> {}

Stage(name, image) ==
    [name |-> name, image |-> image, tools |-> ToolsOf(image), copies |-> {},
     has |-> {}, runs |-> {}, user |-> "root", port |-> Unset, cmd |-> Unset]

Run(tool, cached, secret) == [tool |-> tool, cached |-> cached, secret |-> secret]

Context(path) == <<"context", path>>

InstallStage(tc) ==
    [Stage("deps", "node") EXCEPT
        !.tools = @ \cup tc.setup,
        !.copies = {Context("manifests")},
        !.has = {"node_modules"},
        !.runs = {Run(tc.name, TRUE, FALSE)}]

\* The build stage: the tree over the installed modules, and the project's
\* build with its variables mounted, if there is one; makes is what it writes.
BuildStage(tc, script, makes) ==
    [Stage("build", "node") EXCEPT
        !.copies = {<<"deps", "node_modules">>, Context("tree")},
        !.has = {"tree", "node_modules"} \cup makes,
        !.runs = IF script = Unset THEN {} ELSE {Run(tc.name, FALSE, TRUE)}]

StaticRuntime(source, dir, port) ==
    [Stage("run", "caddy") EXCEPT
        !.copies = {<<source, dir>>, Context("Caddyfile")},
        !.runs = {Run("apk", FALSE, FALSE)}, !.tools = @ \cup {"apk"},
        !.user = "1000", !.port = port,
        !.cmd = [tool |-> "caddy", port |-> port]]

Plan(framework, port, stages) ==
    [verdict |-> "generated", framework |-> framework, port |-> port, stages |-> stages]

\* What each framework's own build writes.
Output(framework) ==
    CASE framework \in {"vite", "astro"} -> "dist"
      [] framework \in {"cra", "sveltekit-static"} -> "build"
      [] framework = "next-export" -> "out"

NodeStatic(framework, tc, script, dir, port) ==
    Plan(framework, port,
         <<InstallStage(tc), BuildStage(tc, script, {Output(framework)}),
           StaticRuntime("build", dir, port)>>)

\* A server bundle traced by Next: no modules in the runtime stage.
NextStandalone(tc, port) ==
    Plan("next-standalone", port,
         <<InstallStage(tc),
           BuildStage(tc, "build", {".next/standalone", ".next/static", "public"}),
           [Stage("run", "node") EXCEPT
               !.copies = {<<"build", p>> : p \in {"public", ".next/standalone", ".next/static"}},
               !.user = "node", !.port = port,
               !.cmd = [tool |-> "node", port |-> port]]>>)

\* A long-running Node process: the tree and its modules, development ones
\* pruned after the build (unless the framework needs them to serve).
NodeServer(framework, tc, script, start, port, prune) ==
    LET build == BuildStage(tc, script, {})
    IN  Plan(framework, port,
             <<InstallStage(tc),
               [build EXCEPT !.runs =
                   IF prune THEN @ \cup {Run(tc.name, TRUE, FALSE)} ELSE @],
               [Stage("run", "node") EXCEPT
                   !.copies = {<<"build", "tree">>, <<"build", "node_modules">>},
                   !.user = "node", !.port = port,
                   !.cmd = [tool |-> start, port |-> port]]>>)

\* Packages in a virtualenv, copied whole; adds are the servers installed
\* beside the project's own requirements.
PythonServer(framework, start, adds, port) ==
    Plan(framework, port,
         <<[Stage("build", "python") EXCEPT
               !.copies = {Context("tree")}, !.has = {"tree", "venv"},
               !.runs = {Run("pip", TRUE, FALSE)}],
           [Stage("run", "python") EXCEPT
               !.tools = @ \cup adds,
               !.copies = {<<"build", "venv">>, <<"build", "tree">>},
               !.user = "10001", !.port = port,
               !.cmd = [tool |-> start, port |-> port]]>>)

GoServer(port) ==
    Plan("go", port,
         <<[Stage("build", "go") EXCEPT
               !.copies = {Context("manifests"), Context("tree")}, !.has = {"server"},
               !.runs = {Run("go", TRUE, FALSE), Run("go", TRUE, TRUE)}],
           [Stage("run", "distroless") EXCEPT
               !.tools = {"server"}, !.copies = {<<"build", "server">>},
               !.user = "65532", !.port = port,
               !.cmd = [tool |-> "server", port |-> port]]>>)

PlainStatic(port) ==
    Plan("static", port,
         <<[Stage("source", "caddy") EXCEPT !.copies = {Context("tree")}, !.has = {"tree"}],
           StaticRuntime("source", "tree", port)>>)

\* Variant: the last EXPOSE, whatever it says.
FromRepoDockerfileAsIs(expose, port) ==
    LET exposed == IF expose = <<>> THEN Unset ELSE expose[Len(expose)]
    IN  [verdict |-> "unchanged", port |-> Or(port, Or(exposed, DefaultPort))]

\* The repository's own Dockerfile is built unchanged; its last valid EXPOSE
\* is the port unless the settings name one.
FromRepoDockerfile(expose, port) ==
    LET valid == {i \in 1 .. Len(expose) : expose[i] \in Port}
        exposed == IF valid = {} THEN Unset
                   ELSE expose[CHOOSE i \in valid : \A j \in valid : j <= i]
    IN  [verdict |-> "unchanged", port |-> Or(port, Or(exposed, DefaultPort))]

\* What a manifest may say as well as the settings.
Overridable == {"framework", "install", "build", "start", "port"}

\* Variant: the manifest in the repository has the last word.
MergeManifestOver(over, manifest) ==
    [f \in Overridable |-> Or(manifest[f], over[f])]

\* deploypro.json fills in what the settings left unset.
MergeManifest(over, manifest) ==
    [f \in Overridable |-> Or(over[f], manifest[f])]

\* The first framework a configuration file or a dependency gives away.
Signatures == <<<<"next", "next">>, <<"nuxt", "nuxt">>, <<"astro", "astro">>,
                <<"svelte", "sveltekit">>, <<"no file", "remix">>,
                <<"no file", "cra">>, <<"vite", "vite">>>>

NodeFramework(configs, deps) ==
    LET found == {i \in 1 .. Len(Signatures) :
                     Signatures[i][1] \in configs \/ Signatures[i][2] \in deps}
    IN  IF found = {} THEN Unset
        ELSE Signatures[CHOOSE i \in found : \A j \in found : i <= j][2]

DetectNext(c, tc, port) ==
    CASE c.output = "export" -> NodeStatic("next-export", tc, "build", "out", port)
      [] c.output = "standalone" -> NextStandalone(tc, port)
      [] OTHER -> NodeServer("next", tc, "build", "npx", port, FALSE)

DetectAstro(deps, tc, port) ==
    IF "astro-node" \in deps
    THEN NodeServer("astro-node", tc, "build", "node", port, FALSE)
    ELSE NodeStatic("astro", tc, "build", "dist", port)

DetectSvelteKit(deps, tc, port) ==
    IF "adapter-static" \in deps
    THEN NodeStatic("sveltekit-static", tc, "build", "build", port)
    ELSE NodeServer("sveltekit", tc, "build", "node", port, TRUE)

DetectNode(c, over, port) ==
    LET tc == Toolchain(c.locks)
        own == IF "build" \in c.pkg.scripts THEN "build" ELSE Unset
        script == Or(over.build, own)
        framework == Or(over.framework, NodeFramework(c.configs, c.pkg.deps))
    IN  IF over.start # Unset
        THEN NodeServer(Or(framework, "node"), tc, script, over.start, port, TRUE)
        ELSE CASE framework = "next" -> DetectNext(c, tc, port)
               [] framework = "astro" -> DetectAstro(c.pkg.deps, tc, port)
               [] framework = "sveltekit" -> DetectSvelteKit(c.pkg.deps, tc, port)
               [] framework = "nuxt" ->
                     NodeServer("nuxt", tc, Or(script, "build"), "node", port, FALSE)
               [] framework = "remix" ->
                     NodeServer("remix", tc, Or(script, "build"), "npx", port, TRUE)
               [] framework = "vite" ->
                     NodeStatic("vite", tc, Or(script, "build"), "dist", port)
               [] framework = "cra" ->
                     NodeStatic("cra", tc, Or(script, "build"), "build", port)
               [] OTHER ->
                     IF "start" \in c.pkg.scripts
                     THEN NodeServer("node", tc, script, tc.name, port, TRUE)
                     ELSE Refused

\* Python: a start command, Django's wsgi module, or the application object
\* the first conventional file constructs.
DetectPython(c, over, port) ==
    IF over.start # Unset
    THEN PythonServer(Or(over.framework, "python"), over.start, {over.start}, port)
    ELSE IF c.python.django /\ c.python.wsgi
    THEN PythonServer("django", "gunicorn", {"gunicorn"}, port)
    ELSE CASE c.python.app = "asgi" ->
                 PythonServer("python-asgi", "uvicorn", {"uvicorn"}, port)
           [] c.python.app = "wsgi" ->
                 PythonServer("python-wsgi", "gunicorn", {"gunicorn"}, port)
           [] OTHER -> Refused

\* From the most explicit to the least.
Detect(c, set) ==
    IF c.dockerfile # Unset THEN FromRepoDockerfile(c.dockerfile, set.port)
    ELSE IF Broken \in {c.manifest, c.pkg} THEN Refused
    ELSE LET over == IF c.manifest = Unset THEN set ELSE MergeManifest(set, c.manifest)
             port == Or(over.port, DefaultPort)
         IN  IF c.pkg # Unset THEN DetectNode(c, over, port)
             ELSE IF c.python # Unset THEN DetectPython(c, over, port)
             ELSE IF "go.mod" \in c.configs THEN GoServer(port)
             ELSE IF "index.html" \in c.configs THEN PlainStatic(port)
             ELSE Refused

\* The Dockerfile the settings name, wherever it is, or else detection.
MakePlan(c, set) ==
    IF set.dockerfile
    THEN IF c.named = Unset THEN Refused ELSE FromRepoDockerfile(c.named, set.port)
    ELSE Detect(c, set)

PlansInit ==
    /\ checkout \in Checkouts /\ settings \in Settings
    /\ plan = Undecided

\* The worker decides, once it has the checkout.
Decide ==
    /\ plan = Undecided
    /\ plan' = MakePlan(checkout, settings)
    /\ UNCHANGED <<checkout, settings>>

PlansNext == Decide

PlansTypeOK ==
    /\ plan.verdict \in {"undecided", "refused", "unchanged", "generated"}
    /\ plan.verdict \in {"unchanged", "generated"} => plan.port \in Port

Generated == plan.verdict = "generated"

Runtime == plan.stages[Len(plan.stages)]

Stages == {plan.stages[i] : i \in 1 .. Len(plan.stages)}

\* What the project says of a field: its settings first, its manifest next.
Said(field) ==
    IF checkout.manifest = Unset THEN settings[field]
    ELSE Or(settings[field], checkout.manifest[field])

\* Every tool a stage runs, or its container starts, is in that stage; a start
\* command somebody wrote is theirs to answer for.
HasItsTools(stage) ==
    /\ \A r \in stage.runs : r.tool \in stage.tools
    /\ stage.cmd # Unset => stage.cmd.tool \in stage.tools \cup {Said("start")}

\* What a stage copies was there to copy.
CopiesExist ==
    \A i \in 1 .. Len(plan.stages) : \A from \in plan.stages[i].copies :
        from[1] = "context"
            \/ \E j \in 1 .. i - 1 :
                  plan.stages[j].name = from[1] /\ from[2] \in plan.stages[j].has

\* The image that serves ran no package manager and saw no variable, and its
\* process is not root's.
RuntimeIsBare ==
    /\ Runtime.user # "root"
    /\ \A r \in Runtime.runs : ~r.cached /\ ~r.secret

\* A value typed into the settings wins over what the repository says, and
\* what the repository says over a default.
SettingsWin ==
    /\ plan.port = Or(Said("port"), DefaultPort)
    /\ Said("start") # Unset /\ (checkout.pkg # Unset \/ checkout.python # Unset)
          => Runtime.cmd.tool = Said("start")

\* A generated plan can run: what its stages copy exists, the image serves on
\* the port the router is told, as nobody, with nothing of the build left in
\* it, and as the settings say (detect.py, dockerfiles.py: the three rules).
\* The tools are there too, except where the package manager is pnpm or bun:
\* see PackageManagerFound.
PlanServes ==
    Generated =>
        /\ CopiesExist /\ RuntimeIsBare /\ SettingsWin
        /\ Runtime.port = plan.port /\ Runtime.cmd.port = plan.port
        /\ checkout.locks \cap {"pnpm", "bun"} = {} => \A s \in Stages : HasItsTools(s)

\* Every stage has the tools it runs, whichever lockfile the repository has
\* ("Whichever lockfile is present decides", _toolchain).
PackageManagerFound ==
    Generated => \A s \in Stages : HasItsTools(s)
=============================================================================
