------------------------------- MODULE Offsite -------------------------------
(***************************************************************************)
(* Copies of finished backups on another machine (engine/offsite.py): the  *)
(* target kept in system_state, the requests of the System page that       *)
(* change it, and the copy a worker makes after each backup.               *)
(*                                                                         *)
(* The target is one value, read and written whole.  Every operation reads *)
(* it, talks to the server for a while, and writes the value it read back  *)
(* with its own change; nothing is compared when it does.                  *)
(*                                                                         *)
(* A key is a number: the server lets the key in that was put there last.  *)
(* Names of backups are numbers that order as their time stamps do.        *)
(***************************************************************************)
EXTENDS Integers, FiniteSets

CONSTANTS
    Server,    \* the servers an owner may name
    Request,   \* requests of the System page in flight at once
    Copier,    \* the worker's tasks that copy
    MaxName,   \* bound: backups
    MaxAsks,   \* bound: requests that change the target
    Keep,      \* backup_keep: at least 1
    None

ASSUME KeepAssumption == Keep \in Nat \ {0}
ASSUME OffsiteAssumption ==
    MaxName \in Nat /\ MaxAsks \in Nat /\ None \notin Server

VARIABLES
    target,     \* the target in system_state, or None
    authorized, \* each server: DeployPro's key in its authorized_keys
    remote,     \* each server: what each name holds
    request,    \* what each request of the owner is at
    asks,       \* requests so far
    copy        \* each copier's copy in progress

offsiteVars == <<target, authorized, remote, request, asks, copy>>

Name == 1..MaxName
Key == 1..MaxAsks + 1

\* Neither generated nor authorized yet.
NoKey == 0

\* partial: under the .partial name.  torn: the finished name, some files gone.
Content == {"none", "partial", "whole", "torn"}

Verdict == [name : Name, ok : BOOLEAN]

Target == [server : Server, key : Key, known : BOOLEAN, connected : BOOLEAN,
           last : Verdict \cup {None}]

RequestState ==
    [at : {"idle", "configure", "fetch", "put", "read", "login", "passed", "refused"},
     snap : Target \cup {None}, to : Server \cup {None}, key : Key \cup {NoKey}]

IdleRequest == [at |-> "idle", snap |-> None, to |-> None, key |-> NoKey]

CopyState ==
    [at : {"idle", "upload", "rename", "list", "prune", "record", "save"},
     name : Name \cup {None}, snap : Target \cup {None},
     ok : BOOLEAN, old : SUBSET Name]

IdleCopy == [at |-> "idle", name |-> None, snap |-> None, ok |-> FALSE, old |-> {}]

\* The names that look finished, and those beyond the newest Keep.
Finished(files) == {n \in Name : files[n] \in {"whole", "torn"}}

Newer(files, n) == {m \in Finished(files) : m > n}

\* Variant: the oldest Keep are kept.
OlderThanFirst(files) ==
    {n \in Finished(files) : Cardinality({m \in Finished(files) : m < n}) >= Keep}

\* Variant: off by one.
OldButOneLess(files) ==
    {n \in Finished(files) : Cardinality(Newer(files, n)) >= Keep - 1}

\* finished[:-keep] of _prune, complete[keep:] of backup.prune.
Old(files) == {n \in Finished(files) : Cardinality(Newer(files, n)) >= Keep}

\* One directory less: its files go before the directory does.
Torn(files, n) == [files EXCEPT ![n] = IF @ = "whole" THEN "torn" ELSE "none"]

Orelse(t, snap) == IF t = None THEN snap ELSE t

\* _run: the host key learned on first contact is saved with the target as
\* it was before the connection.
Learned(snap) == IF snap.known THEN target ELSE [snap EXCEPT !.known = TRUE]

Ask(r, state) == request' = [request EXCEPT ![r] = state]

Asked == asks < MaxAsks /\ asks' = asks + 1

-----------------------------------------------------------------------------
(* The System page *)

ConfigureReads(r, s) ==
    /\ request[r].at = "idle"
    /\ Asked
    /\ Ask(r, [at |-> "configure", snap |-> target, to |-> s, key |-> asks + 1])
    /\ UNCHANGED <<target, authorized, remote, copy>>

\* The key stays; a new server's host key is learned again, and it is
\* connected only if it is the server that was.
ConfigureSaves(r) ==
    LET snap == request[r].snap
        to == request[r].to
    IN  /\ request[r].at = "configure"
        /\ target' =
             IF snap = None
             THEN [server |-> to, key |-> request[r].key, known |-> FALSE,
                   connected |-> FALSE, last |-> None]
             ELSE [snap EXCEPT !.server = to,
                               !.known = @ /\ snap.server = to,
                               !.connected = @ /\ snap.server = to]
        /\ Ask(r, IdleRequest)
        /\ UNCHANGED <<authorized, remote, asks, copy>>

Remove(r) ==
    /\ request[r].at = "idle"
    /\ Asked
    /\ target' = None
    /\ UNCHANGED <<authorized, remote, request, copy>>

\* install_key and test both begin with the target, a conflict without one.
OffsiteReads(r, at) ==
    /\ request[r].at = "idle"
    /\ target # None
    /\ Asked
    /\ Ask(r, [IdleRequest EXCEPT !.at = at, !.snap = target])
    /\ UNCHANGED <<target, authorized, remote, copy>>

\* authorized_keys is fetched with the password.
InstallFetches(r) ==
    /\ request[r].at = "fetch"
    /\ target' = Learned(request[r].snap)
    /\ Ask(r, [request[r] EXCEPT !.at = "put"])
    /\ UNCHANGED <<authorized, remote, asks, copy>>

\* The target is read again; DeployPro's earlier keys are replaced by its own.
InstallPuts(r) ==
    LET t == Orelse(target, request[r].snap)
    IN  /\ request[r].at = "put"
        /\ authorized' = [authorized EXCEPT ![t.server] = t.key]
        /\ Ask(r, [request[r] EXCEPT !.at = "read"])
        /\ UNCHANGED <<target, remote, asks, copy>>

InstallTests(r) ==
    /\ request[r].at = "read"
    /\ Ask(r, IF target = None THEN IdleRequest
              ELSE [IdleRequest EXCEPT !.at = "login", !.snap = target])
    /\ UNCHANGED <<target, authorized, remote, asks, copy>>

\* A login with the key.
TestLogsIn(r) ==
    LET snap == request[r].snap
        passed == authorized[snap.server] = snap.key
    IN  /\ request[r].at = "login"
        /\ target' = IF passed THEN Learned(snap) ELSE target
        /\ Ask(r, [request[r] EXCEPT !.at = IF passed THEN "passed" ELSE "refused"])
        /\ UNCHANGED <<authorized, remote, asks, copy>>

TestSaves(r) ==
    LET t == Orelse(target, request[r].snap)
    IN  /\ \/ /\ request[r].at = "passed"
              /\ target' = [t EXCEPT !.connected = TRUE]
           \/ /\ request[r].at = "refused"
              /\ target' = IF t.connected THEN [t EXCEPT !.connected = FALSE]
                           ELSE target
        /\ Ask(r, IdleRequest)
        /\ UNCHANGED <<authorized, remote, asks, copy>>

\* No answer from the server: install_key raises, test records it.
RequestTimesOut(r) ==
    /\ request[r].at \in {"fetch", "put", "login"}
    /\ Ask(r, IF request[r].at = "login" THEN [request[r] EXCEPT !.at = "refused"]
              ELSE IdleRequest)
    /\ UNCHANGED <<target, authorized, remote, asks, copy>>

-----------------------------------------------------------------------------
(* The copy *)

CopyAt(c, state) == copy' = [copy EXCEPT ![c] = state]

\* copy: the target is read once, for the whole copy.
CopyBegins(c, n) ==
    /\ copy[c].at = "idle"
    /\ target # None
    /\ CopyAt(c, [IdleCopy EXCEPT !.at = IF target.connected THEN "upload" ELSE "record",
                                  !.name = n, !.snap = target])
    /\ UNCHANGED <<target, authorized, remote, request, asks>>

LogsIn(c) == authorized[copy[c].snap.server] = copy[c].snap.key

\* Variant: an error of sftp goes unnoticed.
RefusedUnnoticed(c, state) == [state EXCEPT !.at = "record", !.ok = TRUE]

Refused(c, state) == [state EXCEPT !.at = "record", !.ok = FALSE]

Put(c, n, content) ==
    remote' = [remote EXCEPT ![copy[c].snap.server][n] = content]

CopyUploads(c) ==
    /\ copy[c].at = "upload"
    /\ IF LogsIn(c)
       THEN /\ Put(c, copy[c].name, "partial")
            /\ CopyAt(c, [copy[c] EXCEPT !.at = "rename"])
       ELSE CopyAt(c, Refused(c, copy[c])) /\ UNCHANGED remote
    /\ UNCHANGED <<target, authorized, request, asks>>

CopyRenames(c) ==
    /\ copy[c].at = "rename"
    /\ Put(c, copy[c].name, "whole")
    /\ target' = Learned(copy[c].snap)
    /\ CopyAt(c, [copy[c] EXCEPT !.at = "list"])
    /\ UNCHANGED <<authorized, request, asks>>

\* _prune lists the folder ...
CopyLists(c) ==
    LET old == Old(remote[copy[c].snap.server])
    IN  /\ copy[c].at = "list"
        /\ target' = IF LogsIn(c) THEN Learned(copy[c].snap) ELSE target
        /\ CopyAt(c, IF LogsIn(c)
                     THEN [copy[c] EXCEPT !.at = IF old = {} THEN "record" ELSE "prune",
                                          !.old = old, !.ok = TRUE]
                     ELSE Refused(c, copy[c]))
        /\ UNCHANGED <<authorized, remote, request, asks>>

\* ... and removes one directory after the other, oldest first.
CopyPrunes(c) ==
    LET files == remote[copy[c].snap.server]
        left == {n \in copy[c].old : files[n] # "none"}
    IN  /\ copy[c].at = "prune"
        /\ IF left = {}
           THEN CopyAt(c, [copy[c] EXCEPT !.at = "record", !.old = {}]) /\ UNCHANGED remote
           ELSE /\ \E n \in left :
                      /\ \A m \in left : n <= m
                      /\ remote' = [remote EXCEPT ![copy[c].snap.server] = Torn(files, n)]
                /\ UNCHANGED copy
        /\ UNCHANGED <<target, authorized, request, asks>>

\* The connection drops, or its time is up: what was sent so far stays.
CopyDrops(c) ==
    /\ copy[c].at \in {"upload", "rename", "list", "prune"}
    /\ CopyAt(c, Refused(c, [copy[c] EXCEPT !.old = {}]))
    /\ UNCHANGED <<target, authorized, remote, request, asks>>

\* _record reads the target of now, which may be another or none ...
CopyRecords(c) ==
    /\ copy[c].at = "record"
    /\ CopyAt(c, IF target = None THEN IdleCopy
                 ELSE [copy[c] EXCEPT !.at = "save", !.snap = target])
    /\ UNCHANGED <<target, authorized, remote, request, asks>>

\* ... and saves it with the verdict.
CopySaves(c) ==
    /\ copy[c].at = "save"
    /\ target' = [copy[c].snap EXCEPT !.last = [name |-> copy[c].name, ok |-> copy[c].ok]]
    /\ CopyAt(c, IdleCopy)
    /\ UNCHANGED <<authorized, remote, request, asks>>

-----------------------------------------------------------------------------
RequestStep(r) ==
    \/ \E s \in Server : ConfigureReads(r, s)
    \/ ConfigureSaves(r)
    \/ Remove(r)
    \/ \E at \in {"fetch", "login"} : OffsiteReads(r, at)
    \/ InstallFetches(r)
    \/ InstallPuts(r)
    \/ InstallTests(r)
    \/ TestLogsIn(r)
    \/ TestSaves(r)
    \/ RequestTimesOut(r)

CopyStep(c) ==
    \/ CopyUploads(c)
    \/ CopyRenames(c)
    \/ CopyLists(c)
    \/ CopyPrunes(c)
    \/ CopyRecords(c)
    \/ CopySaves(c)

\* Either no target yet, or one that is connected and holds one copy.
OffsiteInit(name) ==
    /\ \E s \in Server :
          \/ /\ target = None
             /\ authorized = [x \in Server |-> NoKey]
          \/ /\ target = [server |-> s, key |-> MaxAsks + 1, known |-> TRUE,
                          connected |-> TRUE, last |-> None]
             /\ authorized = [x \in Server |-> IF x = s THEN MaxAsks + 1 ELSE NoKey]
    /\ remote = [s \in Server |->
                   [n \in Name |-> IF target # None /\ target.server = s /\ n = name
                                   THEN "whole" ELSE "none"]]
    /\ request = [r \in Request |-> IdleRequest]
    /\ asks = 0
    /\ copy = [c \in Copier |-> IdleCopy]

OffsiteTypeOK ==
    /\ target \in Target \cup {None}
    /\ authorized \in [Server -> Key \cup {NoKey}]
    /\ remote \in [Server -> [Name -> Content]]
    /\ request \in [Request -> RequestState]
    /\ asks \in 0..MaxAsks
    /\ copy \in [Copier -> CopyState]

-----------------------------------------------------------------------------
\* A copy on a server is only touched when Keep newer ones are whole there,
\* whatever two copies prune at once, wherever a connection drops and
\* whatever the owner does to the target meanwhile (offsite._prune).
CopiesKept ==
    [][\A s \in Server, n \in Name :
          remote[s][n] = "whole" /\ remote'[s][n] # "whole" =>
             Cardinality({m \in Name : m > n /\ remote[s][m] = "whole"}) >= Keep]_offsiteVars

\* What the page says of the last copy is so: a copy recorded as made is
\* whole on a server, or Keep newer ones are.
LastCopyIsThere ==
    target # None /\ target.last # None /\ target.last.ok =>
        \E s \in Server :
            \/ remote[s][target.last.name] = "whole"
            \/ Cardinality({m \in Name : /\ m > target.last.name
                                         /\ remote[s][m] = "whole"}) >= Keep
=============================================================================
