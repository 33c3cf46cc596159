------------------------------- MODULE MCHost -------------------------------
(* A project that deploys two commits, a year of three short months, the
   repositories and settings people have, a domain two people edit. *)
EXTENDS Host, TLC

Months == <<4, 3, 5>>

One(v) == [form |-> "one", from |-> v, step |-> 0]
From(v, n) == [form |-> "one", from |-> v, step |-> n]
Every(n) == [form |-> "star", step |-> n]
To(a, b) == [form |-> "range", from |-> a, to |-> b, step |-> 0]

\* Each field as star, number, list, step or range; 7 for Sunday; 5-7, which
\* is refused.
Written ==
    {<<minute, hour, day, month, weekday>> :
        minute \in {{Star}, {One(1)}, {From(1, 2)}}, hour \in {{Star}, {One(0)}},
        day \in {{Star}, {One(2)}, {One(4), One(5)}}, month \in {{Star}, {One(2)}},
        weekday \in {{Star}, {One(7)}, {Every(3)}, {To(2, 4)}, {To(5, 7)}}}

NoOverrides == [f \in Overridable |-> Unset]

Overriding ==
    {[f \in Overridable \cup {"dockerfile"} |->
        CASE f = "framework" -> framework [] f = "build" -> build [] f = "start" -> start
          [] f = "port" -> port [] f = "install" -> Unset [] f = "dockerfile" -> named] :
        framework \in {Unset, "vite"}, build \in {Unset, "build:web"},
        start \in {Unset, "serve"}, port \in {Unset, 9000}, named \in BOOLEAN}

Bare == [dockerfile |-> Unset, named |-> Unset, manifest |-> Unset, pkg |-> Unset,
         python |-> Unset, locks |-> {}, configs |-> {}, output |-> Unset]

Packages ==
    [deps : {{}, {"next"}, {"nuxt"}, {"astro"}, {"astro", "astro-node"},
             {"sveltekit", "adapter-static"}, {"sveltekit"}, {"remix", "vite"},
             {"cra"}, {"vite"}},
     scripts : {{}, {"build"}, {"build", "start"}}]

NodeProjects ==
    {[Bare EXCEPT !.pkg = pkg, !.locks = locks, !.output = output, !.manifest = manifest] :
        pkg \in Packages, output \in {Unset, "export", "standalone"},
        locks \in {{}, {"npm"}, {"yarn", "npm"}, {"pnpm", "yarn"}, {"bun"}},
        manifest \in {Unset, [NoOverrides EXCEPT !["start"] = "boot", !["port"] = 7000]}}

PythonProjects ==
    {[Bare EXCEPT !.python = python] :
        python \in [django : BOOLEAN, wsgi : BOOLEAN, app : {Unset, "asgi", "wsgi"}]}

OtherProjects ==
    {[Bare EXCEPT !.configs = files, !.dockerfile = file, !.manifest = manifest,
                  !.named = named] :
        files \in {{}, {"go.mod"}, {"index.html"}}, file \in {Unset, <<>>, <<3000, 70000>>},
        manifest \in {Unset, Broken}, named \in {Unset, <<80>>}}

Projects == NodeProjects \cup PythonProjects \cup OtherProjects

Symmetric ==
    Permutations(Visitor) \cup Permutations(Addresses) \cup Permutations(Release)
    \cup Permutations(Caller)
=============================================================================
