--------------------------- MODULE BackupsProofs ---------------------------
(***************************************************************************)
(* Proofs about module Backups, for every number of workers, servers,      *)
(* requests, runs, crashes and changes of the target, and every number of  *)
(* backups to keep: the types; that one backup is written at a time; that  *)
(* neither pruning leaves fewer whole backups than Keep; and that what the *)
(* target says of the last copy is so.                                     *)
(***************************************************************************)
EXTENDS Backups, FiniteSetTheorems, SequenceTheorems, TLAPS

-----------------------------------------------------------------------------
(* The off-site side: types *)

\* A request has in hand what its next step needs.
RequestShape ==
    \A r \in Request :
        /\ request[r].at = "configure" => request[r].to \in Server /\ request[r].key \in Key
        /\ request[r].at \in {"fetch", "put", "read", "login", "passed", "refused"} =>
              request[r].snap \in Target

\* A copy has a name and the target it goes to.
CopyShape ==
    \A c \in Copier :
        copy[c].at # "idle" => copy[c].name \in Name /\ copy[c].snap \in Target

LEMMA IdleTypes ==
    /\ IdleRequest \in RequestState
    /\ IdleCopy \in CopyState
    /\ IdleTask \in TaskState
BY MaxRunsAssumption DEF IdleRequest, RequestState, IdleCopy, CopyState, IdleTask, TaskState

LEMMA LearnedType ==
    ASSUME OffsiteTypeOK, NEW snap \in Target
    PROVE  Learned(snap) \in Target \cup {None}
BY DEF OffsiteTypeOK, Learned, Target

LEMMA RequestTypes ==
    ASSUME OffsiteTypeOK, RequestShape, NEW r \in Request, RequestStep(r)
    PROVE  OffsiteTypeOK' /\ RequestShape'
<1> USE OffsiteAssumption
<1>r. request[r] \in RequestState
  BY DEF OffsiteTypeOK
<1>a. ASSUME NEW state \in RequestState, Ask(r, state),
             state.at = "configure" => state.to \in Server /\ state.key \in Key,
             state.at \in {"fetch", "put", "read", "login", "passed", "refused"} =>
                 state.snap \in Target
      PROVE  request' \in [Request -> RequestState] /\ RequestShape'
  <2>1. request' = [request EXCEPT ![r] = state] /\ request \in [Request -> RequestState]
    BY <1>a DEF Ask, OffsiteTypeOK
  <2>2. request' \in [Request -> RequestState]
    BY <2>1
  <2>3. \A x \in Request : request'[x] = IF x = r THEN state ELSE request[x]
    BY <2>1
  <2> QED BY <2>2, <2>3, <1>a DEF RequestShape
<1>i. ASSUME Ask(r, IdleRequest)
      PROVE  request' \in [Request -> RequestState] /\ RequestShape'
  BY <1>i, <1>a, IdleTypes DEF IdleRequest
<1>1. ASSUME NEW s \in Server, ConfigureReads(r, s)
      PROVE  OffsiteTypeOK' /\ RequestShape'
  <2> DEFINE state == [at |-> "configure", snap |-> target, to |-> s, key |-> asks + 1]
  <2>1. asks + 1 \in Key /\ asks' \in 0..MaxAsks
    BY <1>1 DEF ConfigureReads, Asked, Key, OffsiteTypeOK
  <2>2. state \in RequestState
    BY <2>1 DEF RequestState, OffsiteTypeOK
  <2>3. Ask(r, state)
    BY <1>1 DEF ConfigureReads
  <2>4. request' \in [Request -> RequestState] /\ RequestShape'
    BY <2>1, <2>2, <2>3, <1>a
  <2> QED BY <1>1, <2>1, <2>4 DEF ConfigureReads, OffsiteTypeOK
<1>2. CASE ConfigureSaves(r)
  <2>1. target' \in Target
    BY <1>2, <1>r DEF ConfigureSaves, RequestShape, RequestState, Target
  <2>2. Ask(r, IdleRequest)
    BY <1>2 DEF ConfigureSaves
  <2> QED BY <1>2, <1>i, <2>1, <2>2 DEF ConfigureSaves, OffsiteTypeOK
<1>3. CASE Remove(r)
  BY <1>3 DEF Remove, Asked, OffsiteTypeOK, RequestShape
<1>4. ASSUME NEW at \in {"fetch", "login"}, OffsiteReads(r, at)
      PROVE  OffsiteTypeOK' /\ RequestShape'
  <2> DEFINE state == [IdleRequest EXCEPT !.at = at, !.snap = target]
  <2>1. target \in Target
    BY <1>4 DEF OffsiteReads, OffsiteTypeOK
  <2>2. state \in RequestState /\ state.snap = target /\ state.at # "configure"
    BY <2>1, <1>4 DEF IdleRequest, RequestState
  <2>3. Ask(r, state) /\ asks' \in 0..MaxAsks
    BY <1>4 DEF OffsiteReads, Asked, OffsiteTypeOK
  <2> HIDE DEF state
  <2>4. request' \in [Request -> RequestState] /\ RequestShape'
    BY <2>1, <2>2, <2>3, <1>a
  <2> QED BY <1>4, <2>3, <2>4 DEF OffsiteReads, OffsiteTypeOK
<1>5. CASE InstallFetches(r)
  <2>1. request[r].snap \in Target
    BY <1>5 DEF InstallFetches, RequestShape
  <2>2. target' \in Target \cup {None}
    BY <1>5, <2>1, LearnedType DEF InstallFetches
  <2> DEFINE state == [request[r] EXCEPT !.at = "put"]
  <2>3. state \in RequestState /\ state.snap \in Target /\ state.at = "put"
    BY <1>r, <2>1 DEF RequestState
  <2>4. Ask(r, state)
    BY <1>5 DEF InstallFetches
  <2> HIDE DEF state
  <2>5. request' \in [Request -> RequestState] /\ RequestShape'
    BY <2>3, <2>4, <1>a
  <2> QED BY <1>5, <2>2, <2>5 DEF InstallFetches, OffsiteTypeOK
<1>6. CASE InstallPuts(r)
  <2> DEFINE t == Orelse(target, request[r].snap)
             state == [request[r] EXCEPT !.at = "read"]
  <2>1. request[r].snap \in Target
    BY <1>6 DEF InstallPuts, RequestShape
  <2>2. t \in Target
    BY <2>1 DEF Orelse, OffsiteTypeOK
  <2>3. t.server \in Server /\ t.key \in Key
    BY <2>2 DEF Target
  <2>4. authorized' = [authorized EXCEPT ![t.server] = t.key] /\ Ask(r, state)
    BY <1>6 DEF InstallPuts
  <2>5. state \in RequestState /\ state.snap \in Target /\ state.at = "read"
    BY <1>r, <2>1 DEF RequestState
  <2> HIDE DEF t, state
  <2>6. authorized' \in [Server -> Key \cup {NoKey}]
    BY <2>3, <2>4 DEF OffsiteTypeOK
  <2>7. request' \in [Request -> RequestState] /\ RequestShape'
    BY <2>4, <2>5, <1>a
  <2> QED BY <1>6, <2>6, <2>7 DEF InstallPuts, OffsiteTypeOK
<1>7. CASE InstallTests(r)
  <2>1. CASE target = None
    <3>1. Ask(r, IdleRequest)
      BY <1>7, <2>1 DEF InstallTests
    <3> QED BY <1>7, <1>i, <3>1 DEF InstallTests, OffsiteTypeOK
  <2>2. CASE target # None
    <3> DEFINE state == [IdleRequest EXCEPT !.at = "login", !.snap = target]
    <3>1. target \in Target
      BY <2>2 DEF OffsiteTypeOK
    <3>2. state \in RequestState /\ state.snap = target /\ state.at = "login"
      BY <3>1 DEF IdleRequest, RequestState
    <3>3. Ask(r, state)
      BY <1>7, <2>2 DEF InstallTests
    <3> HIDE DEF state
    <3>4. request' \in [Request -> RequestState] /\ RequestShape'
      BY <3>1, <3>2, <3>3, <1>a
    <3> QED BY <1>7, <3>4 DEF InstallTests, OffsiteTypeOK
  <2> QED BY <2>1, <2>2
<1>8. CASE TestLogsIn(r)
  <2>1. request[r].snap \in Target
    BY <1>8 DEF TestLogsIn, RequestShape
  <2>2. target' \in Target \cup {None}
    BY <1>8, <2>1, LearnedType DEF TestLogsIn, OffsiteTypeOK
  <2>3. PICK at \in {"passed", "refused"} : Ask(r, [request[r] EXCEPT !.at = at])
    BY <1>8 DEF TestLogsIn
  <2> DEFINE state == [request[r] EXCEPT !.at = at]
  <2>4. state \in RequestState /\ state.snap \in Target /\ state.at = at
    BY <1>r, <2>1 DEF RequestState
  <2>5. Ask(r, state)
    BY <2>3
  <2> HIDE DEF state
  <2>6. request' \in [Request -> RequestState] /\ RequestShape'
    BY <2>4, <2>5, <1>a
  <2> QED BY <1>8, <2>2, <2>6 DEF TestLogsIn, OffsiteTypeOK
<1>9. CASE TestSaves(r)
  <2> DEFINE t == Orelse(target, request[r].snap)
  <2>1. request[r].snap \in Target
    BY <1>9 DEF TestSaves, RequestShape
  <2>2. t \in Target
    BY <2>1 DEF Orelse, OffsiteTypeOK
  <2>3. \A b \in BOOLEAN : [t EXCEPT !.connected = b] \in Target
    BY <2>2 DEF Target
  <2>4. target' = [t EXCEPT !.connected = TRUE] \/ target' = [t EXCEPT !.connected = FALSE]
        \/ target' = target
    BY <1>9 DEF TestSaves
  <2>5. target' \in Target \cup {None}
    BY <2>3, <2>4 DEF OffsiteTypeOK
  <2>6. Ask(r, IdleRequest)
    BY <1>9 DEF TestSaves
  <2> QED BY <1>9, <1>i, <2>5, <2>6 DEF TestSaves, OffsiteTypeOK
<1>10. CASE RequestTimesOut(r)
  <2>1. CASE request[r].at = "login"
    <3> DEFINE state == [request[r] EXCEPT !.at = "refused"]
    <3>1. state \in RequestState /\ state.snap \in Target /\ state.at = "refused"
      BY <1>r, <2>1 DEF RequestState, RequestShape
    <3>2. Ask(r, state)
      BY <1>10, <2>1 DEF RequestTimesOut
    <3> HIDE DEF state
    <3>3. request' \in [Request -> RequestState] /\ RequestShape'
      BY <3>1, <3>2, <1>a
    <3> QED BY <1>10, <3>3 DEF RequestTimesOut, OffsiteTypeOK
  <2>2. CASE request[r].at # "login"
    BY <1>10, <1>i, <2>2 DEF RequestTimesOut, OffsiteTypeOK
  <2> QED BY <2>1, <2>2
<1> QED BY <1>1, <1>2, <1>3, <1>4, <1>5, <1>6, <1>7, <1>8, <1>9, <1>10 DEF RequestStep

\* One step of a copy, from the state it leaves behind.
LEMMA CopyAtTypes ==
    ASSUME OffsiteTypeOK, CopyShape, NEW c \in Copier, NEW state \in CopyState,
           state.at # "idle" => state.name \in Name /\ state.snap \in Target,
           CopyAt(c, state)
    PROVE  copy' \in [Copier -> CopyState] /\ CopyShape'
<1>1. copy' = [copy EXCEPT ![c] = state] /\ copy \in [Copier -> CopyState]
  BY DEF CopyAt, OffsiteTypeOK
<1>2. \A x \in Copier : copy'[x] = IF x = c THEN state ELSE copy[x]
  BY <1>1
<1> QED BY <1>1, <1>2 DEF CopyShape

LEMMA TornType ==
    ASSUME NEW files \in [Name -> Content], NEW n \in Name
    PROVE  /\ Torn(files, n) \in [Name -> Content]
           /\ \A m \in Name \ {n} : Torn(files, n)[m] = files[m]
           /\ Torn(files, n)[n] = IF files[n] = "whole" THEN "torn" ELSE "none"
BY DEF Torn, Content

LEMMA CopyBeginsTypes ==
    ASSUME OffsiteTypeOK, CopyShape, NEW c \in Copier, NEW n \in Name, CopyBegins(c, n)
    PROVE  OffsiteTypeOK' /\ CopyShape'
<1> DEFINE state == [IdleCopy EXCEPT !.at = IF target.connected THEN "upload" ELSE "record",
                                     !.name = n, !.snap = target]
<1>1. target \in Target
  BY DEF CopyBegins, OffsiteTypeOK
<1>2. state \in CopyState /\ state.name = n /\ state.snap = target
  BY <1>1 DEF IdleCopy, CopyState
<1>3. CopyAt(c, state)
  BY DEF CopyBegins
<1> HIDE DEF state
<1>4. copy' \in [Copier -> CopyState] /\ CopyShape'
  BY <1>1, <1>2, <1>3, CopyAtTypes
<1> QED BY <1>4 DEF CopyBegins, OffsiteTypeOK

LEMMA CopyStepTypes ==
    ASSUME OffsiteTypeOK, CopyShape, NEW c \in Copier, CopyStep(c) \/ CopyDrops(c)
    PROVE  OffsiteTypeOK' /\ CopyShape'
<1>c. copy[c] \in CopyState
  BY DEF OffsiteTypeOK
<1>s. copy[c].at # "idle" =>
          /\ copy[c].name \in Name
          /\ copy[c].snap \in Target /\ copy[c].snap.server \in Server
  BY DEF CopyShape, Target
<1>p. ASSUME copy[c].at # "idle", NEW content \in Content, Put(c, copy[c].name, content)
      PROVE  remote' \in [Server -> [Name -> Content]]
  BY <1>p, <1>s DEF Put, OffsiteTypeOK
<1>i. ASSUME CopyAt(c, IdleCopy)
      PROVE  copy' \in [Copier -> CopyState] /\ CopyShape'
  BY <1>i, IdleTypes, CopyAtTypes DEF IdleCopy
<1>a. ASSUME copy[c].at # "idle", NEW state \in CopyState, CopyAt(c, state),
             state.name = copy[c].name, state.snap \in Target
      PROVE  copy' \in [Copier -> CopyState] /\ CopyShape'
  BY <1>a, <1>s, CopyAtTypes
<1>r. ASSUME copy[c].at # "idle", CopyAt(c, Refused(c, copy[c]))
      PROVE  copy' \in [Copier -> CopyState] /\ CopyShape'
  <2> DEFINE state == Refused(c, copy[c])
  <2>1. state \in CopyState /\ state.name = copy[c].name /\ state.snap = copy[c].snap
    BY <1>c DEF Refused, CopyState
  <2> HIDE DEF state
  <2> QED BY <2>1, <1>r, <1>a, <1>s DEF state
<1>1. CASE CopyUploads(c)
  <2>1. CASE LogsIn(c)
    <3> DEFINE state == [copy[c] EXCEPT !.at = "rename"]
    <3>1. state \in CopyState /\ state.name = copy[c].name /\ state.snap = copy[c].snap
      BY <1>c DEF CopyState
    <3>2. CopyAt(c, state) /\ Put(c, copy[c].name, "partial") /\ copy[c].at = "upload"
      BY <1>1, <2>1 DEF CopyUploads
    <3> HIDE DEF state
    <3>3. copy' \in [Copier -> CopyState] /\ CopyShape'
      BY <3>1, <3>2, <1>a, <1>s
    <3>4. remote' \in [Server -> [Name -> Content]]
      BY <3>2, <1>p DEF Content
    <3> QED BY <1>1, <3>3, <3>4 DEF CopyUploads, OffsiteTypeOK
  <2>2. CASE ~LogsIn(c)
    BY <1>1, <2>2, <1>r DEF CopyUploads, OffsiteTypeOK
  <2> QED BY <2>1, <2>2
<1>2. CASE CopyRenames(c)
  <2> DEFINE state == [copy[c] EXCEPT !.at = "list"]
  <2>1. state \in CopyState /\ state.name = copy[c].name /\ state.snap = copy[c].snap
    BY <1>c DEF CopyState
  <2>2. CopyAt(c, state) /\ Put(c, copy[c].name, "whole") /\ copy[c].at = "rename"
    BY <1>2 DEF CopyRenames
  <2> HIDE DEF state
  <2>3. copy' \in [Copier -> CopyState] /\ CopyShape'
    BY <2>1, <2>2, <1>a, <1>s
  <2>4. remote' \in [Server -> [Name -> Content]]
    BY <2>2, <1>p DEF Content
  <2>5. target' \in Target \cup {None}
    BY <1>2, <2>2, <1>s, LearnedType DEF CopyRenames
  <2> QED BY <1>2, <2>3, <2>4, <2>5 DEF CopyRenames, OffsiteTypeOK
<1>3. CASE CopyLists(c)
  <2>1. copy[c].at = "list"
    BY <1>3 DEF CopyLists
  <2>2. target' \in Target \cup {None}
    BY <1>3, <2>1, <1>s, LearnedType DEF CopyLists, OffsiteTypeOK
  <2>3. copy' \in [Copier -> CopyState] /\ CopyShape'
    <3>1. CASE LogsIn(c)
      <4> DEFINE old == Old(remote[copy[c].snap.server])
                 state == [copy[c] EXCEPT !.at = IF old = {} THEN "record" ELSE "prune",
                                          !.old = old, !.ok = TRUE]
      <4>1. old \in SUBSET Name
        BY DEF Old, Finished
      <4>2. CopyAt(c, state)
        BY <1>3, <3>1 DEF CopyLists
      <4> HIDE DEF old
      <4>3. state \in CopyState /\ state.name = copy[c].name /\ state.snap = copy[c].snap
        BY <1>c, <4>1 DEF CopyState
      <4> HIDE DEF state
      <4> QED BY <4>2, <4>3, <2>1, <1>a, <1>s
    <3>2. CASE ~LogsIn(c)
      BY <1>3, <3>2, <2>1, <1>r DEF CopyLists
    <3> QED BY <3>1, <3>2
  <2> QED BY <1>3, <2>2, <2>3 DEF CopyLists, OffsiteTypeOK
<1>4. CASE CopyPrunes(c)
  <2> DEFINE server == copy[c].snap.server
             files == remote[server]
             left == {n \in copy[c].old : files[n] # "none"}
  <2>1. copy[c].at = "prune" /\ server \in Server
    BY <1>4, <1>s DEF CopyPrunes
  <2>2. CASE left = {}
    <3> DEFINE state == [copy[c] EXCEPT !.at = "record", !.old = {}]
    <3>1. state \in CopyState /\ state.name = copy[c].name /\ state.snap = copy[c].snap
      BY <1>c DEF CopyState
    <3>2. CopyAt(c, state) /\ UNCHANGED remote
      BY <1>4, <2>2 DEF CopyPrunes
    <3> HIDE DEF state
    <3>3. copy' \in [Copier -> CopyState] /\ CopyShape'
      BY <3>1, <3>2, <2>1, <1>a, <1>s
    <3> QED BY <1>4, <3>2, <3>3 DEF CopyPrunes, OffsiteTypeOK
  <2>3. CASE left # {}
    <3>1. PICK n \in left : remote' = [remote EXCEPT ![server] = Torn(files, n)]
      BY <1>4, <2>3 DEF CopyPrunes
    <3>2. n \in Name /\ files \in [Name -> Content]
      BY <1>c, <2>1 DEF CopyState, OffsiteTypeOK
    <3>3. Torn(files, n) \in [Name -> Content]
      BY <3>2, TornType
    <3>4. remote' \in [Server -> [Name -> Content]]
      BY <3>1, <3>3, <2>1 DEF OffsiteTypeOK
    <3>5. UNCHANGED copy
      BY <1>4, <2>3 DEF CopyPrunes
    <3> QED BY <1>4, <3>4, <3>5 DEF CopyPrunes, OffsiteTypeOK, CopyShape
  <2> QED BY <2>2, <2>3
<1>5. CASE CopyRecords(c)
  <2>1. CASE target = None
    BY <1>5, <1>i, <2>1 DEF CopyRecords, OffsiteTypeOK
  <2>2. CASE target # None
    <3> DEFINE state == [copy[c] EXCEPT !.at = "save", !.snap = target]
    <3>1. target \in Target
      BY <2>2 DEF OffsiteTypeOK
    <3>2. state \in CopyState /\ state.name = copy[c].name /\ state.snap = target
      BY <1>c, <3>1 DEF CopyState
    <3>3. CopyAt(c, state) /\ copy[c].at = "record"
      BY <1>5, <2>2 DEF CopyRecords
    <3> HIDE DEF state
    <3> QED BY <1>5, <3>1, <3>2, <3>3, <1>a DEF CopyRecords, OffsiteTypeOK
  <2> QED BY <2>1, <2>2
<1>6. CASE CopySaves(c)
  <2>1. copy[c].at = "save" /\ CopyAt(c, IdleCopy)
    BY <1>6 DEF CopySaves
  <2>2. [name |-> copy[c].name, ok |-> copy[c].ok] \in Verdict
    BY <2>1, <1>s, <1>c DEF Verdict, CopyState
  <2>3. target' \in Target
    BY <1>6, <2>1, <2>2, <1>s DEF CopySaves, Target
  <2> QED BY <1>6, <1>i, <2>1, <2>3 DEF CopySaves, OffsiteTypeOK
<1>7. CASE CopyDrops(c)
  <2> DEFINE old == [copy[c] EXCEPT !.old = {}]
             state == Refused(c, old)
  <2>1. old \in CopyState /\ old.name = copy[c].name /\ old.snap = copy[c].snap
    BY <1>c DEF CopyState
  <2>2. CopyAt(c, state) /\ copy[c].at # "idle"
    BY <1>7 DEF CopyDrops
  <2> HIDE DEF old
  <2>3. state \in CopyState /\ state.name = copy[c].name /\ state.snap = copy[c].snap
    BY <2>1 DEF Refused, CopyState
  <2> HIDE DEF state
  <2>4. copy' \in [Copier -> CopyState] /\ CopyShape'
    BY <2>2, <2>3, <1>a, <1>s
  <2> QED BY <1>7, <2>4 DEF CopyDrops, OffsiteTypeOK
<1> QED BY <1>1, <1>2, <1>3, <1>4, <1>5, <1>6, <1>7 DEF CopyStep

LEMMA OffsiteInitTypes ==
    ASSUME MaxName \in Nat \ {0}, OffsiteInit(1)
    PROVE  OffsiteTypeOK /\ RequestShape /\ CopyShape
<1> USE OffsiteAssumption
<1>1. target \in Target \cup {None} /\ authorized \in [Server -> Key \cup {NoKey}]
  <2>1. MaxAsks + 1 \in Key
    BY DEF Key
  <2>2. PICK s \in Server :
           \/ /\ target = None
              /\ authorized = [x \in Server |-> NoKey]
           \/ /\ target = [server |-> s, key |-> MaxAsks + 1, known |-> TRUE,
                           connected |-> TRUE, last |-> None]
              /\ authorized = [x \in Server |-> IF x = s THEN MaxAsks + 1 ELSE NoKey]
    BY DEF OffsiteInit
  <2>3. target \in Target \cup {None}
    <3> DEFINE connected == [server |-> s, key |-> MaxAsks + 1, known |-> TRUE,
                             connected |-> TRUE, last |-> None]
    <3>1. connected \in Target
      BY <2>1 DEF Target
    <3>2. target = None \/ target = connected
      BY <2>2
    <3> QED BY <3>1, <3>2
  <2>4. authorized \in [Server -> Key \cup {NoKey}]
    BY <2>1, <2>2
  <2> QED BY <2>3, <2>4
<1>2. remote \in [Server -> [Name -> Content]]
  BY DEF OffsiteInit, Content
<1>3. request \in [Request -> RequestState] /\ RequestShape
  BY IdleTypes DEF OffsiteInit, RequestShape, IdleRequest
<1>4. copy \in [Copier -> CopyState] /\ CopyShape
  BY IdleTypes DEF OffsiteInit, CopyShape, IdleCopy
<1> QED BY <1>1, <1>2, <1>3, <1>4 DEF OffsiteTypeOK, OffsiteInit

-----------------------------------------------------------------------------
(* The backups: types *)

\* A task that has begun to write has a backup.
TaskShape ==
    \A t \in Task :
        task[t].at \in {"write", "list", "prune", "finish", "copy"} =>
            task[t].name \in DOMAIN disk

Beginning == {t \in Task : task[t].at = "begun"}

Requested == {r \in RunId : runs[r].status = "requested"}

\* A run leads to one backup at most: those that have not led to one yet are
\* requested, or with a task that is about to take the lock.
Counted ==
    Len(disk) + Cardinality(Beginning) + Cardinality(Requested) <= Len(runs) + 1

Entry == [state : Content, day : Nat]

\* The types without the bound on the number of backups, which Counted gives.
BackupTypes ==
    /\ RunsTypeOK
    /\ disk \in Seq(Entry)
    /\ lock \in Task \cup {None}
    /\ task \in [Task -> TaskState]
    /\ up \subseteq Worker
    /\ moment \in Moment
    /\ faults \in 0..MaxFaults

Types ==
    /\ BackupTypes /\ TaskShape /\ Counted
    /\ OffsiteTypeOK /\ RequestShape /\ CopyShape

LEMMA TaskIsFinite == IsFiniteSet(Task)
<1>1. IsFiniteSet(Worker) /\ IsFiniteSet({"daily", "requested"})
  <2>1. IsFiniteSet({} \cup {"daily"})
    BY FS_EmptySet, FS_AddElement
  <2>2. IsFiniteSet(({} \cup {"daily"}) \cup {"requested"})
    BY <2>1, FS_AddElement
  <2>3. ({} \cup {"daily"}) \cup {"requested"} = {"daily", "requested"}
    OBVIOUS
  <2> QED BY <2>2, <2>3, BackupsAssumption
<1>2. IsFiniteSet(Worker \X {"daily", "requested"})
  BY <1>1, FS_Product
<1>3. IsFiniteSet(Copier \cup {Command})
  BY <1>2, FS_AddElement, BackupsAssumption
<1> QED BY <1>3 DEF Task

LEMMA CountsAreNumbers ==
    ASSUME RunsTypeOK
    PROVE  /\ IsFiniteSet(Beginning) /\ Cardinality(Beginning) \in Nat
           /\ IsFiniteSet(Requested) /\ Cardinality(Requested) \in Nat
<1>1. Beginning \in SUBSET Task
  BY DEF Beginning
<1>2. IsFiniteSet(Beginning)
  BY <1>1, TaskIsFinite, FS_Subset
<1>3. RunId = 1..Len(runs) /\ Len(runs) \in Nat
  BY DEF RunId, RunsTypeOK
<1>4. IsFiniteSet(RunId)
  BY <1>3, FS_Interval
<1>5. Requested \in SUBSET RunId
  BY DEF Requested
<1>6. IsFiniteSet(Requested)
  BY <1>4, <1>5, FS_Subset
<1> QED BY <1>2, <1>6, FS_CardinalityType

\* The bound on the number of backups.
LEMMA DiskIsBounded ==
    ASSUME Types
    PROVE  /\ Len(disk) \in Nat /\ Len(disk) <= MaxName
           /\ DOMAIN disk = 1..Len(disk) /\ DOMAIN disk \subseteq Name
           /\ MaxName \in Nat \ {0}
<1>1. Len(disk) \in Nat /\ DOMAIN disk = 1..Len(disk)
  BY DEF Types, BackupTypes
<1>2. Len(runs) \in Nat /\ Len(runs) <= MaxRuns /\ RunsTypeOK
  BY DEF Types, BackupTypes, RunsTypeOK
<1>3. Len(disk) <= MaxName
  BY <1>1, <1>2, CountsAreNumbers, BackupsAssumption, MaxRunsAssumption DEF Types, Counted
<1> QED BY <1>1, <1>3, BackupsAssumption, MaxRunsAssumption DEF Name

LEMMA TypesGiveTypeOK ==
    ASSUME Types
    PROVE  TypeOK
BY DiskIsBounded DEF Types, BackupTypes, TypeOK, Entry

\* The statements of maintenance_runs, and what they make of the requests.
LEMMA InsertedTypes ==
    ASSUME RunsTypeOK, CanInsert("backup"), NEW status \in {"requested", "running"},
           runs' = Inserted("backup", status)
    PROVE  /\ RunsTypeOK' /\ Len(runs') = Len(runs) + 1
           /\ Requested' = IF status = "requested" THEN Requested \cup {Len(runs) + 1}
                           ELSE Requested
           /\ Len(runs) + 1 \notin Requested
           /\ Len(runs) + 1 \in 1..MaxRuns
<1> DEFINE row == [kind |-> "backup", status |-> status, stale |-> FALSE]
<1>1. row \in Run
  BY DEF Run, Kind, Status
<1>2. runs \in Seq(Run) /\ Len(runs) \in Nat /\ Len(runs) < MaxRuns
  BY DEF RunsTypeOK, CanInsert
<1>3. runs' = Append(runs, row)
  BY DEF Inserted
<1>4. row.status = status
  OBVIOUS
<1> HIDE DEF row
<1>5. /\ runs' \in Seq(Run) /\ Len(runs') = Len(runs) + 1
      /\ \A i \in 1..Len(runs) : runs'[i] = runs[i]
      /\ runs'[Len(runs) + 1] = row
  BY <1>1, <1>2, <1>3, AppendProperties
<1>6. RunId = 1..Len(runs) /\ RunId' = 1..Len(runs) + 1
  BY <1>2, <1>5, LenProperties DEF RunId
<1>7. Requested' = IF status = "requested" THEN Requested \cup {Len(runs) + 1}
                   ELSE Requested
  BY <1>2, <1>4, <1>5, <1>6 DEF Requested
<1>8. Len(runs) + 1 \notin Requested
  BY <1>2, <1>6 DEF Requested
<1> QED BY <1>2, <1>5, <1>7, <1>8, MaxRunsAssumption DEF RunsTypeOK

LEMMA RowTypes ==
    ASSUME RunsTypeOK, NEW r \in RunId, NEW row \in Run,
           runs' = [runs EXCEPT ![r] = row],
           row.status = "requested" => runs[r].status = "requested"
    PROVE  /\ RunsTypeOK' /\ Len(runs') = Len(runs)
           /\ Requested' = IF row.status = "requested" THEN Requested ELSE Requested \ {r}
<1>1. /\ runs \in Seq(Run) /\ Len(runs) \in Nat /\ RunId = 1..Len(runs)
      /\ r \in 1..Len(runs)
  BY LenProperties DEF RunsTypeOK, RunId
<1>2. /\ runs' \in Seq(Run) /\ Len(runs') = Len(runs)
      /\ \A j \in 1..Len(runs) : runs'[j] = IF j = r THEN row ELSE runs[j]
  BY <1>1, ExceptSeq
<1>3. RunId' = RunId
  BY <1>1, <1>2, LenProperties DEF RunId
<1> QED BY <1>1, <1>2, <1>3 DEF RunsTypeOK, Requested

LEMMA ChangedTypes ==
    ASSUME RunsTypeOK, NEW r, NEW status \in Status \ {"requested"},
           runs' = WithStatus(r, status)
    PROVE  RunsTypeOK' /\ Len(runs') = Len(runs) /\ Requested' = Requested \ {r}
<1>1. runs \in [RunId -> Run]
  BY LenProperties DEF RunsTypeOK, RunId
<1>2. CASE r \in RunId
  <2> DEFINE row == [runs[r] EXCEPT !.status = status, !.stale = FALSE]
  <2>1. row \in Run /\ row.status = status
    BY <1>1, <1>2 DEF Run
  <2>2. runs' = [runs EXCEPT ![r] = row]
    BY DEF WithStatus
  <2> HIDE DEF row
  <2> QED BY <1>2, <2>1, <2>2, RowTypes
<1>3. CASE r \notin RunId
  <2>1. runs' = runs
    BY <1>1, <1>3 DEF WithStatus
  <2> QED BY <1>1, <1>3, <2>1 DEF RunsTypeOK, Requested, RunId
<1> QED BY <1>2, <1>3

LEMMA AbandonedTypes ==
    ASSUME RunsTypeOK, runs' = AllAbandoned
    PROVE  RunsTypeOK' /\ Len(runs') = Len(runs) /\ Requested' = Requested
<1>1. /\ runs \in Seq(Run) /\ Len(runs) \in Nat /\ RunId = 1..Len(runs)
      /\ runs \in [1..Len(runs) -> Run]
  BY LenProperties DEF RunsTypeOK, RunId
<1>2. runs' \in [1..Len(runs) -> Run]
  BY <1>1 DEF AllAbandoned, Run, Status
<1>3. runs' \in Seq(Run)
  BY <1>1, <1>2, SeqDef
<1>4. Len(runs') = Len(runs) /\ RunId' = RunId
  BY <1>1, <1>2, <1>3, LenProperties DEF RunId
<1>5. \A r \in RunId : runs'[r].status = "requested" <=> runs[r].status = "requested"
  BY <1>1 DEF AllAbandoned, Stale, Run
<1> QED BY <1>3, <1>4, <1>5 DEF RunsTypeOK, Requested

LEMMA StaleTypes ==
    ASSUME RunsTypeOK, NEW r \in RunId, runs[r].status = "running",
           runs' = [runs EXCEPT ![r].stale = TRUE]
    PROVE  RunsTypeOK' /\ Len(runs') = Len(runs) /\ Requested' \subseteq Requested
<1>1. runs \in [RunId -> Run]
  BY LenProperties DEF RunsTypeOK, RunId
<1> DEFINE row == [runs[r] EXCEPT !.stale = TRUE]
<1>2. row \in Run /\ row.status = "running"
  BY <1>1 DEF Run
<1>3. runs' = [runs EXCEPT ![r] = row]
  OBVIOUS
<1> HIDE DEF row
<1> QED BY <1>2, <1>3, RowTypes

LEMMA OneMoreBegins ==
    ASSUME RunsTypeOK, NEW t, Beginning' = Beginning \cup {t}
    PROVE  /\ Cardinality(Beginning') \in Nat
           /\ Cardinality(Beginning') <= Cardinality(Beginning) + 1
<1>1. IsFiniteSet(Beginning) /\ Cardinality(Beginning) \in Nat
  BY CountsAreNumbers
<1>2. Cardinality(Beginning \cup {t}) \in {Cardinality(Beginning), Cardinality(Beginning) + 1}
  BY <1>1, FS_AddElement
<1> QED BY <1>1, <1>2

\* Nothing new is requested or begun.
LEMMA CountStays ==
    ASSUME RunsTypeOK, RunsTypeOK', Counted, Len(disk) \in Nat,
           Len(disk') = Len(disk), Len(runs') = Len(runs),
           Beginning' \subseteq Beginning, Requested' \subseteq Requested
    PROVE  Counted'
<1>1. /\ IsFiniteSet(Beginning) /\ Cardinality(Beginning) \in Nat
      /\ IsFiniteSet(Requested) /\ Cardinality(Requested) \in Nat
  BY CountsAreNumbers
<1>2. Cardinality(Beginning') <= Cardinality(Beginning)
  BY <1>1, FS_Subset
<1>3. Cardinality(Requested') <= Cardinality(Requested)
  BY <1>1, FS_Subset
<1>4. Cardinality(Beginning') \in Nat /\ Cardinality(Requested') \in Nat
  BY <1>1, FS_Subset, FS_CardinalityType
<1>5. Len(runs) \in Nat
  BY DEF RunsTypeOK
<1> QED BY <1>1, <1>2, <1>3, <1>4, <1>5 DEF Counted

\* One task moves.
LEMMA MovedTypes ==
    ASSUME task \in [Task -> TaskState], NEW t \in Task, NEW state \in TaskState,
           task' = [task EXCEPT ![t] = state]
    PROVE  /\ task' \in [Task -> TaskState]
           /\ \A x \in Task : task'[x] = IF x = t THEN state ELSE task[x]
           /\ Beginning' = IF state.at = "begun" THEN Beginning \cup {t}
                           ELSE Beginning \ {t}
<1>1. \A x \in Task : task'[x] = IF x = t THEN state ELSE task[x]
  OBVIOUS
<1> QED BY <1>1 DEF Beginning

LEMMA InitTypes ==
    ASSUME Init
    PROVE  Types
<1>1. OffsiteTypeOK /\ RequestShape /\ CopyShape
  BY OffsiteInitTypes, MaxRunsAssumption, BackupsAssumption DEF Init
<1>2. runs \in Seq(Run) /\ Len(runs) = 0 /\ RunsTypeOK
  BY EmptySeq, MaxRunsAssumption DEF Init, RunsTypeOK
<1>3. task \in [Task -> TaskState] /\ Beginning = {} /\ TaskShape
  BY IdleTypes DEF Init, Beginning, TaskShape, IdleTask
<1>4. disk \in Seq(Entry) /\ Len(disk) \in 0..1
  <2>1. CASE disk = <<>>
    BY <2>1, EmptySeq
  <2>2. CASE disk = <<[state |-> "whole", day |-> 0]>>
    <3>1. [state |-> "whole", day |-> 0] \in Entry
      BY DEF Entry, Content
    <3> HIDE DEF Entry
    <3> QED BY <2>2, <3>1
  <2> QED BY <2>1, <2>2 DEF Init
<1>5. Requested = {}
  BY <1>2, LenProperties DEF Requested, RunId
<1>6. Counted
  <2>1. Cardinality(Beginning) = 0 /\ Cardinality(Requested) = 0
    BY <1>3, <1>5, FS_EmptySet
  <2>2. Len(runs) = 0 /\ (Len(disk) = 0 \/ Len(disk) = 1)
    BY <1>2, <1>4
  <2> SUFFICES Len(disk) + Cardinality(Beginning) + Cardinality(Requested) <= Len(runs) + 1
    BY DEF Counted
  <2> DEFINE d == Len(disk)  b == Cardinality(Beginning)  q == Cardinality(Requested)
             r == Len(runs)
  <2>3. b = 0 /\ q = 0 /\ r = 0 /\ (d = 0 \/ d = 1)
    BY <2>1, <2>2
  <2> HIDE DEF d, b, q, r
  <2>4. d + b + q <= r + 1
    BY <2>3
  <2> QED BY <2>4 DEF d, b, q, r
<1>7. lock \in Task \cup {None} /\ up \subseteq Worker
  <2>1. lock = None /\ up = Worker
    BY DEF Init
  <2> QED BY <2>1
<1>8. moment \in Moment /\ faults \in 0..MaxFaults
  BY BackupsAssumption DEF Init, Moment
<1> QED BY <1>1, <1>2, <1>3, <1>4, <1>6, <1>7, <1>8 DEF Types, BackupTypes

\* What the types say of one task.
LEMMA TaskTypes ==
    ASSUME Types, NEW t \in Task
    PROVE  /\ task \in [Task -> TaskState] /\ task[t] \in TaskState
           /\ RunsTypeOK /\ Len(runs) \in Nat /\ Len(disk) \in Nat
           /\ \A at \in {"idle", "begun", "write", "list", "prune", "finish", "copy", "fail"} :
                 [task[t] EXCEPT !.at = at] \in TaskState
<1>1. task \in [Task -> TaskState] /\ RunsTypeOK /\ disk \in Seq(Entry)
  BY DEF Types, BackupTypes
<1>2. Len(runs) \in Nat /\ Len(disk) \in Nat
  BY <1>1 DEF RunsTypeOK
<1>3. task[t] \in TaskState
  BY <1>1
<1>4. ASSUME NEW at \in {"idle", "begun", "write", "list", "prune", "finish", "copy", "fail"}
      PROVE  [task[t] EXCEPT !.at = at] \in TaskState
  BY <1>3 DEF TaskState
<1> QED BY <1>1, <1>2, <1>3, <1>4

LEMMA BeginTypes ==
    ASSUME Types, RequestBackup \/ CommandBegins \/ \E t \in Copier : DailyBegins(t)
    PROVE  Types'
<1>1. CASE RequestBackup
  <2>1. /\ RunsTypeOK' /\ Len(runs') = Len(runs) + 1
        /\ Requested' = Requested \cup {Len(runs) + 1} /\ Len(runs) + 1 \notin Requested
    BY <1>1, InsertedTypes DEF RequestBackup, Types, BackupTypes
  <2>2. UNCHANGED <<disk, lock, task, up, moment, faults, offsiteVars>>
    BY <1>1 DEF RequestBackup
  <2>3. Beginning' = Beginning
    BY <2>2 DEF Beginning
  <2>4. Cardinality(Requested') = Cardinality(Requested) + 1
    BY <2>1, CountsAreNumbers, FS_AddElement DEF Types, BackupTypes
  <2>5. Counted'
    BY <2>1, <2>2, <2>3, <2>4, CountsAreNumbers
       DEF Types, BackupTypes, Counted, RunsTypeOK
  <2> QED BY <2>1, <2>2, <2>5
          DEF Types, BackupTypes, TaskShape, OffsiteTypeOK, RequestShape, CopyShape,
              offsiteVars
<1>2. ASSUME NEW t \in Task, CanInsert("backup"), task[t].at = "idle",
             runs' = Inserted("backup", "running"),
             task' = [task EXCEPT ![t].at = "begun", ![t].run = Len(runs) + 1],
             UNCHANGED <<disk, lock, up, moment, faults, offsiteVars>>
      PROVE  Types'
  <2> DEFINE id == Len(runs) + 1
             state == [task[t] EXCEPT !.at = "begun", !.run = id]
  <2>1. /\ RunsTypeOK' /\ Len(runs') = Len(runs) + 1 /\ Requested' = Requested
        /\ Len(runs) + 1 \in 1..MaxRuns
    BY <1>2, InsertedTypes DEF Types, BackupTypes
  <2>2. state \in TaskState /\ state.at = "begun"
    <3>0. id \in 0..MaxRuns
      BY <2>1, MaxRunsAssumption
    <3>1. task[t] \in TaskState /\ id \in 0..MaxRuns
      BY <3>0, TaskTypes
    <3> HIDE DEF id
    <3>2. /\ state.at = "begun" /\ state.run = id /\ state.name = task[t].name
          /\ state.old = task[t].old
      BY <3>1 DEF TaskState
    <3> QED BY <3>1, <3>2 DEF TaskState
  <2>3. task' = [task EXCEPT ![t] = state]
    BY <1>2
  <2> HIDE DEF state
  <2>4. /\ task' \in [Task -> TaskState] /\ Beginning' = Beginning \cup {t}
        /\ \A x \in Task : task'[x] = IF x = t THEN state ELSE task[x]
    BY <2>2, <2>3, MovedTypes, TaskTypes
  <2>5. Cardinality(Beginning') <= Cardinality(Beginning) + 1
        /\ Cardinality(Beginning') \in Nat
    BY <2>4, OneMoreBegins DEF Types, BackupTypes
  <2>6. Counted'
    BY <1>2, <2>1, <2>5, CountsAreNumbers DEF Types, BackupTypes, Counted, RunsTypeOK
  <2>7. TaskShape'
    BY <1>2, <2>2, <2>4 DEF Types, TaskShape
  <2> QED BY <1>2, <2>1, <2>4, <2>6, <2>7
          DEF Types, BackupTypes, OffsiteTypeOK, RequestShape, CopyShape, offsiteVars
<1>3. CASE CommandBegins
  BY <1>2, <1>3 DEF CommandBegins, Free, Task
<1>4. ASSUME NEW t \in Copier, DailyBegins(t)
      PROVE  Types'
  BY <1>2, <1>4 DEF DailyBegins, Free, Task
<1> QED BY <1>1, <1>3, <1>4

LEMMA ClaimTypes ==
    ASSUME Types, NEW t \in Copier, AbandonStale(t) \/ ClaimRequest(t)
    PROVE  Types'
<1>t. t \in Task
  BY DEF Task
<1>1. CASE AbandonStale(t)
  <2>1. RunsTypeOK' /\ Len(runs') = Len(runs) /\ Requested' = Requested
    BY <1>1, AbandonedTypes DEF AbandonStale, Types, BackupTypes
  <2>2. UNCHANGED <<disk, lock, task, up, moment, faults, offsiteVars>>
    BY <1>1 DEF AbandonStale
  <2>3. Beginning' = Beginning
    BY <2>2 DEF Beginning
  <2>4. Counted'
    BY <2>1, <2>2, <2>3, CountStays, TaskTypes, <1>t DEF Types, BackupTypes
  <2> QED BY <2>1, <2>2, <2>4
          DEF Types, BackupTypes, TaskShape, OffsiteTypeOK, RequestShape, CopyShape,
              offsiteVars
<1>2. CASE ClaimRequest(t)
  <2>0. RunsTypeOK
    BY DEF Types, BackupTypes
  <2>1. PICK r \in RunId :
           /\ Claimable(r, "backup")
           /\ runs' = WithStatus(r, "running")
           /\ task' = [task EXCEPT ![t].at = "begun", ![t].run = r]
    BY <1>2 DEF ClaimRequest
  <2>2. r \in Requested /\ r \in 1..Len(runs)
    BY <2>1, LenProperties DEF Claimable, Requested, Types, BackupTypes, RunsTypeOK, RunId
  <2>3. RunsTypeOK' /\ Len(runs') = Len(runs) /\ Requested' = Requested \ {r}
    BY <2>1, ChangedTypes DEF Types, BackupTypes, Status
  <2> DEFINE state == [task[t] EXCEPT !.at = "begun", !.run = r]
  <2>4. state \in TaskState /\ state.at = "begun"
    <3>1. task[t] \in TaskState /\ Len(runs) \in Nat /\ Len(runs) <= MaxRuns
      BY <1>t, TaskTypes DEF Types, BackupTypes, RunsTypeOK
    <3>2. r \in 0..MaxRuns
      BY <2>2, <3>1, MaxRunsAssumption
    <3> QED BY <3>1, <3>2 DEF TaskState
  <2>5. task' = [task EXCEPT ![t] = state]
    BY <2>1
  <2> HIDE DEF state
  <2>6. /\ task' \in [Task -> TaskState] /\ Beginning' = Beginning \cup {t}
        /\ \A x \in Task : task'[x] = IF x = t THEN state ELSE task[x]
    BY <2>4, <2>5, <1>t, MovedTypes, TaskTypes
  <2>7. Cardinality(Beginning') <= Cardinality(Beginning) + 1
        /\ Cardinality(Beginning') \in Nat
    BY <2>0, <2>6, OneMoreBegins
  <2>8. Cardinality(Requested') = Cardinality(Requested) - 1
    BY <2>0, <2>2, <2>3, CountsAreNumbers, FS_RemoveElement
  <2>9. Counted'
    <3>1. Counted /\ Len(disk) \in Nat /\ Len(runs) \in Nat /\ UNCHANGED disk
      BY <1>2, <1>t, TaskTypes DEF Types, ClaimRequest
    <3> QED BY <2>0, <2>3, <2>7, <2>8, <3>1, CountsAreNumbers DEF Counted
  <2>10. TaskShape'
    BY <1>2, <2>4, <2>6 DEF Types, TaskShape, ClaimRequest
  <2> QED BY <1>2, <2>3, <2>6, <2>9, <2>10
          DEF Types, BackupTypes, OffsiteTypeOK, RequestShape, CopyShape, offsiteVars,
              ClaimRequest
<1> QED BY <1>1, <1>2

\* The state of one entry changes.
LEMMA EntryTypes ==
    ASSUME disk \in Seq(Entry), NEW n \in DOMAIN disk, NEW content \in Content,
           disk' = [disk EXCEPT ![n].state = content]
    PROVE  /\ disk' \in Seq(Entry) /\ Len(disk') = Len(disk) /\ DOMAIN disk' = DOMAIN disk
           /\ \A m \in DOMAIN disk :
                 disk'[m].state = IF m = n THEN content ELSE disk[m].state
<1>1. /\ Len(disk) \in Nat /\ DOMAIN disk = 1..Len(disk) /\ n \in 1..Len(disk)
      /\ disk \in [1..Len(disk) -> Entry]
  BY LenProperties
<1>2. PICK entry \in Entry : entry.state = content /\ disk' = [disk EXCEPT ![n] = entry]
  <2> DEFINE entry == [disk[n] EXCEPT !.state = content]
  <2>1. entry \in Entry /\ entry.state = content
    BY <1>1 DEF Entry
  <2>2. disk' = [disk EXCEPT ![n] = entry]
    OBVIOUS
  <2> QED BY <2>1, <2>2
<1>3. \A m \in DOMAIN disk : disk'[m] = IF m = n THEN entry ELSE disk[m]
  BY <1>1, <1>2
<1>4. disk' \in [1..Len(disk) -> Entry]
  BY <1>1, <1>2
<1>5. disk' \in Seq(Entry)
  BY <1>1, <1>4, SeqDef
<1>6. Len(disk') = Len(disk) /\ DOMAIN disk' = DOMAIN disk
  BY <1>1, <1>4, <1>5, LenProperties
<1> QED BY <1>2, <1>3, <1>5, <1>6

\* A task goes on to its next step, and no run is asked for.
LEMMA GoTypes ==
    ASSUME Types, NEW t \in Task, NEW state \in TaskState, state.at # "begun",
           task' = [task EXCEPT ![t] = state],
           state.at \in {"write", "list", "prune", "finish", "copy"} =>
               state.name \in DOMAIN disk,
           disk' \in Seq(Entry), Len(disk') = Len(disk), DOMAIN disk' = DOMAIN disk,
           RunsTypeOK', Len(runs') = Len(runs), Requested' \subseteq Requested
    PROVE  task' \in [Task -> TaskState] /\ TaskShape' /\ Counted'
<1>1. /\ task' \in [Task -> TaskState] /\ Beginning' = Beginning \ {t}
      /\ \A x \in Task : task'[x] = IF x = t THEN state ELSE task[x]
  BY TaskTypes, MovedTypes
<1>2. Counted'
  BY <1>1, CountStays, TaskTypes DEF Types
<1>3. TaskShape'
  BY <1>1 DEF Types, TaskShape
<1> QED BY <1>1, <1>2, <1>3

LEMMA TakeBeginsTypes ==
    ASSUME Types, NEW t \in Task, TakeBegins(t)
    PROVE  Types'
<1>0. task[t].at = "begun" /\ UNCHANGED <<runs, up, moment, faults, offsiteVars>>
  BY DEF TakeBegins
<1>t. task[t] \in TaskState
  BY TaskTypes
<1>u. /\ RunsTypeOK' /\ Len(runs') = Len(runs) /\ Requested' = Requested
      /\ OffsiteTypeOK' /\ RequestShape' /\ CopyShape'
  BY <1>0 DEF Types, BackupTypes, RunsTypeOK, Requested, RunId, OffsiteTypeOK,
              RequestShape, CopyShape, offsiteVars
<1>1. CASE LockFree(t)
  <2> DEFINE entry == [state |-> "partial", day |-> Day(moment)]
             id == Len(disk) + 1
             state == [task[t] EXCEPT !.at = "write", !.name = id]
  <2>1. entry \in Entry
    <3>1. moment \in Nat
      BY BackupsAssumption DEF Types, BackupTypes, Moment
    <3>2. Day(moment) \in Nat
      BY <3>1 DEF Day
    <3> QED BY <3>2 DEF Entry, Content
  <2>2. lock' = t /\ disk' = Append(disk, entry) /\ task' = [task EXCEPT ![t] = state]
    BY <1>1 DEF TakeBegins
  <2> HIDE DEF entry
  <2>3. /\ disk' \in Seq(Entry) /\ Len(disk') = id /\ Len(disk) \in Nat
        /\ DOMAIN disk = 1..Len(disk) /\ DOMAIN disk' = 1..id
    BY <2>1, <2>2, AppendProperties, LenProperties DEF Types, BackupTypes
  <2>4. IsFiniteSet(Beginning) /\ t \in Beginning
    BY <1>0, CountsAreNumbers DEF Types, BackupTypes, Beginning
  <2>5. Cardinality(Beginning \ {t}) = Cardinality(Beginning) - 1
    BY <2>4, FS_RemoveElement
  <2>6. id \in Name
    <3>1. Cardinality(Beginning) # 0
      BY <2>4, FS_EmptySet
    <3> QED BY <2>3, <3>1, CountsAreNumbers, BackupsAssumption, MaxRunsAssumption
            DEF Types, BackupTypes, Counted, RunsTypeOK, Name
  <2>7. state \in TaskState /\ state.at = "write" /\ state.name = id
    <3>1. task[t] \in TaskState
      BY TaskTypes
    <3> HIDE DEF id
    <3> QED BY <2>6, <3>1 DEF TaskState
  <2> HIDE DEF state
  <2>8. /\ task' \in [Task -> TaskState] /\ Beginning' = Beginning \ {t}
        /\ \A x \in Task : task'[x] = IF x = t THEN state ELSE task[x]
    BY <2>2, <2>7, TaskTypes, MovedTypes
  <2>9. Counted'
    BY <1>u, <2>3, <2>5, <2>8, CountsAreNumbers DEF Types, BackupTypes, Counted, RunsTypeOK
  <2>10. TaskShape'
    BY <2>3, <2>7, <2>8 DEF Types, TaskShape
  <2> QED BY <1>0, <1>u, <2>2, <2>3, <2>8, <2>9, <2>10 DEF Types, BackupTypes
<1>2. CASE ~LockFree(t)
  <2> DEFINE state == [task[t] EXCEPT !.at = "fail"]
  <2>1. state \in TaskState /\ state.at = "fail"
    BY <1>t DEF TaskState
  <2>2. task' = [task EXCEPT ![t] = state] /\ UNCHANGED <<lock, disk>>
    BY <1>2 DEF TakeBegins, Go
  <2> HIDE DEF state
  <2>3. task' \in [Task -> TaskState] /\ TaskShape' /\ Counted'
    BY <1>u, <2>1, <2>2, GoTypes DEF Types, BackupTypes
  <2> QED BY <1>0, <1>u, <2>2, <2>3 DEF Types, BackupTypes
<1> QED BY <1>1, <1>2

LEMMA TaskStepTypes ==
    ASSUME Types, NEW t \in Task, TaskStep(t) \/ TakeRaises(t)
    PROVE  Types'
<1>d. disk \in Seq(Entry) /\ RunsTypeOK /\ faults \in 0..MaxFaults
  BY DEF Types, BackupTypes
<1>t. task[t] \in TaskState
  BY TaskTypes
<1>n. task[t].at \in {"write", "list", "prune", "finish", "copy"} =>
          task[t].name \in DOMAIN disk
  BY DEF Types, TaskShape
<1>a. ASSUME UNCHANGED runs
      PROVE  RunsTypeOK' /\ Len(runs') = Len(runs) /\ Requested' = Requested
  BY <1>a, <1>d DEF RunsTypeOK, Requested, RunId
<1>o. ASSUME UNCHANGED offsiteVars
      PROVE  OffsiteTypeOK' /\ RequestShape' /\ CopyShape'
  BY <1>o DEF Types, OffsiteTypeOK, RequestShape, CopyShape, offsiteVars
<1>w. ASSUME task[t].at = "write", NEW at \in {"list", "fail"}, NEW content \in Content,
             disk' = [disk EXCEPT ![task[t].name].state = content],
             Go(t, at), lock' = None, faults' \in 0..MaxFaults,
             UNCHANGED <<runs, up, moment, offsiteVars>>
      PROVE  Types'
  <2> DEFINE n == task[t].name
             state == [task[t] EXCEPT !.at = at]
  <2>1. disk' \in Seq(Entry) /\ Len(disk') = Len(disk) /\ DOMAIN disk' = DOMAIN disk
    BY <1>w, <1>d, <1>n, EntryTypes
  <2>2. state \in TaskState /\ state.at = at /\ state.name = n
    BY <1>t DEF TaskState
  <2>3. task' = [task EXCEPT ![t] = state]
    BY <1>w DEF Go
  <2> HIDE DEF state
  <2>4. task' \in [Task -> TaskState] /\ TaskShape' /\ Counted'
    BY <1>w, <1>a, <1>n, <2>1, <2>2, <2>3, GoTypes
  <2> QED BY <1>w, <1>a, <1>o, <2>1, <2>4 DEF Types, BackupTypes
<1>1. CASE TakeBegins(t)
  BY <1>1, TakeBeginsTypes
<1>2. CASE TakeCompletes(t)
  BY <1>2, <1>w, <1>d DEF TakeCompletes, Content
<1>3. CASE TakeRaises(t)
  <2>1. faults' \in 0..MaxFaults
    BY <1>3, <1>d, BackupsAssumption DEF TakeRaises, Fault
  <2> QED BY <1>3, <1>w, <2>1 DEF TakeRaises, Content
<1>4. CASE PruneLists(t)
  <2> DEFINE old == Old(Files)
             state == [task[t] EXCEPT !.at = "prune", !.old = old]
  <2>1. old \in SUBSET Name
    BY DEF Old, Finished
  <2>2. task' = [task EXCEPT ![t] = state]
    BY <1>4 DEF PruneLists
  <2> HIDE DEF old
  <2>3. state \in TaskState /\ state.at = "prune" /\ state.name = task[t].name
    BY <1>t, <2>1 DEF TaskState
  <2> HIDE DEF state
  <2>4. task' \in [Task -> TaskState] /\ TaskShape' /\ Counted'
    BY <1>4, <1>a, <1>d, <1>n, <2>2, <2>3, GoTypes DEF PruneLists
  <2> QED BY <1>4, <1>a, <1>o, <2>4 DEF PruneLists, Types, BackupTypes
<1>5. CASE Prunes(t)
  <2> DEFINE left == {n \in task[t].old : Files[n] # "none"}
  <2>u. UNCHANGED <<runs, lock, up, moment, faults, offsiteVars>> /\ task[t].at = "prune"
    BY <1>5 DEF Prunes
  <2>1. CASE left = {}
    <3> DEFINE state == [task[t] EXCEPT !.at = "finish", !.old = {}]
    <3>1. state \in TaskState /\ state.at = "finish" /\ state.name = task[t].name
      BY <1>t DEF TaskState
    <3>2. task' = [task EXCEPT ![t] = state] /\ UNCHANGED disk
      BY <1>5, <2>1 DEF Prunes
    <3> HIDE DEF state
    <3>3. task' \in [Task -> TaskState] /\ TaskShape' /\ Counted'
      BY <1>a, <1>d, <1>n, <2>u, <3>1, <3>2, GoTypes
    <3> QED BY <1>a, <1>o, <2>u, <3>2, <3>3 DEF Types, BackupTypes
  <2>2. CASE left # {}
    <3>1. PICK n \in left : disk' = [disk EXCEPT ![n].state = Torn(Files, n)[n]]
      BY <1>5, <2>2 DEF Prunes
    <3>2. n \in DOMAIN disk /\ n \in Name
      BY <1>t, <3>1 DEF Files, TaskState
    <3>3. Torn(Files, n)[n] \in Content
      BY <3>2 DEF Files, Torn, Content
    <3>4. disk' \in Seq(Entry) /\ Len(disk') = Len(disk) /\ DOMAIN disk' = DOMAIN disk
      BY <1>d, <3>1, <3>2, <3>3, EntryTypes
    <3>5. UNCHANGED task
      BY <1>5, <2>2 DEF Prunes
    <3>6. TaskShape' /\ Beginning' = Beginning
      BY <3>4, <3>5 DEF Types, TaskShape, Beginning
    <3>7. Counted'
      BY <1>a, <1>d, <2>u, <3>4, <3>6, CountStays, TaskTypes DEF Types
    <3> QED BY <1>a, <1>o, <2>u, <3>4, <3>5, <3>6, <3>7 DEF Types, BackupTypes
  <2> QED BY <2>1, <2>2
<1>6. CASE RunFinishes(t)
  <2>1. RunsTypeOK' /\ Len(runs') = Len(runs) /\ Requested' \subseteq Requested
    BY <1>6, <1>d, ChangedTypes DEF RunFinishes, Closed, Status
  <2> DEFINE state == IF t = Command THEN IdleTask ELSE [task[t] EXCEPT !.at = "copy", !.run = 0]
  <2>2. task' = [task EXCEPT ![t] = state]
    BY <1>6 DEF RunFinishes
  <2>3. state \in TaskState /\ state.at # "begun"
        /\ (state.at # "idle" => state.name = task[t].name)
    <3>1. [task[t] EXCEPT !.at = "copy", !.run = 0] \in TaskState
      <4> DEFINE ended == [task[t] EXCEPT !.at = "copy", !.run = 0]
      <4>1. /\ ended.at = "copy" /\ ended.run = 0 /\ ended.name = task[t].name
            /\ ended.old = task[t].old /\ 0 \in 0..MaxRuns
        BY <1>t, MaxRunsAssumption DEF TaskState
      <4> QED BY <1>t, <4>1 DEF TaskState
    <3>2. IdleTask \in TaskState /\ IdleTask.at = "idle"
      BY IdleTypes DEF IdleTask
    <3> QED BY <1>t, <3>1, <3>2 DEF TaskState
  <2> HIDE DEF state
  <2>4. task' \in [Task -> TaskState] /\ TaskShape' /\ Counted'
    BY <1>6, <1>d, <1>n, <2>1, <2>2, <2>3, GoTypes DEF RunFinishes
  <2> QED BY <1>6, <1>o, <2>1, <2>4 DEF RunFinishes, Types, BackupTypes
<1>7. CASE RunFails(t)
  <2>1. RunsTypeOK' /\ Len(runs') = Len(runs) /\ Requested' \subseteq Requested
    BY <1>7, <1>d, ChangedTypes DEF RunFails, Closed, Status
  <2>2. task' = [task EXCEPT ![t] = IdleTask]
    BY <1>7 DEF RunFails
  <2>3. IdleTask \in TaskState /\ IdleTask.at = "idle"
    BY IdleTypes DEF IdleTask
  <2>4. task' \in [Task -> TaskState] /\ TaskShape' /\ Counted'
    BY <1>7, <1>d, <2>1, <2>2, <2>3, GoTypes DEF RunFails
  <2> QED BY <1>7, <1>o, <2>1, <2>4 DEF RunFails, Types, BackupTypes
<1> QED BY <1>1, <1>2, <1>3, <1>4, <1>5, <1>6, <1>7 DEF TaskStep

\* What does not touch the tables, the disk or the tasks.
LEMMA BackupTypesStay ==
    ASSUME Types, UNCHANGED <<runs, disk, lock, task, up>>,
           moment' \in Moment, faults' \in 0..MaxFaults,
           OffsiteTypeOK' /\ RequestShape' /\ CopyShape'
    PROVE  Types'
<1>1. RunsTypeOK' /\ Requested' = Requested /\ Beginning' = Beginning
  BY DEF Types, BackupTypes, RunsTypeOK, Requested, RunId, Beginning
<1> QED BY <1>1 DEF Types, BackupTypes, TaskShape, Counted

LEMMA CopyTaskTypes ==
    ASSUME Types, NEW t \in Copier, CopyTaskStep(t) \/ CopyFails(t)
    PROVE  Types'
<1>0. t \in Task /\ OffsiteTypeOK /\ CopyShape /\ RequestShape
  BY DEF Task, Types
<1>f. moment \in Moment /\ faults \in 0..MaxFaults /\ disk \in Seq(Entry)
  BY DEF Types, BackupTypes
<1>1. CASE CopyStarts(t)
  <2>1. /\ task[t].at = "copy" /\ task' = [task EXCEPT ![t] = IdleTask]
        /\ UNCHANGED <<runs, disk, lock, up, moment, faults>>
    BY <1>1 DEF CopyStarts
  <2>2. RunsTypeOK' /\ Len(runs') = Len(runs) /\ Requested' = Requested
    BY <2>1 DEF Types, BackupTypes, RunsTypeOK, Requested, RunId
  <2>3. IdleTask \in TaskState /\ IdleTask.at = "idle"
    BY IdleTypes DEF IdleTask
  <2>4. task' \in [Task -> TaskState] /\ TaskShape' /\ Counted'
    BY <1>0, <1>f, <2>1, <2>2, <2>3, GoTypes
  <2>5. OffsiteTypeOK' /\ RequestShape' /\ CopyShape'
    <3>1. CASE target = None
      BY <1>0, <1>1, <3>1
         DEF CopyStarts, offsiteVars, OffsiteTypeOK, RequestShape, CopyShape
    <3>2. CASE target # None
      <4>1. CopyBegins(t, task[t].name)
        BY <1>1, <3>2 DEF CopyStarts
      <4>2. task[t].name \in Name
        BY <1>0, <2>1, DiskIsBounded DEF Types, TaskShape
      <4>3. OffsiteTypeOK' /\ CopyShape'
        BY <1>0, <4>1, <4>2, CopyBeginsTypes
      <4> QED BY <1>0, <4>1, <4>3 DEF CopyBegins, RequestShape
    <3> QED BY <3>1, <3>2
  <2> QED BY <2>1, <2>2, <2>4, <2>5 DEF Types, BackupTypes
<1>2. ASSUME CopyStep(t) \/ CopyDrops(t), UNCHANGED <<runs, disk, lock, task, up, moment>>,
             faults' \in 0..MaxFaults
      PROVE  Types'
  <2>1. OffsiteTypeOK' /\ CopyShape'
    BY <1>0, <1>2, CopyStepTypes
  <2>2. UNCHANGED request
    BY <1>2 DEF CopyStep, CopyUploads, CopyRenames, CopyLists, CopyPrunes, CopyRecords,
                CopySaves, CopyDrops
  <2>3. RequestShape'
    BY <1>0, <2>2 DEF RequestShape
  <2> QED BY <1>2, <1>f, <2>1, <2>3, BackupTypesStay
<1>3. CASE CopyMoves(t)
  BY <1>2, <1>3, <1>f DEF CopyMoves, backupVars
<1>4. CASE CopyFails(t)
  <2>1. faults' \in 0..MaxFaults
    BY <1>4, <1>f, BackupsAssumption DEF CopyFails, Fault
  <2> QED BY <1>2, <1>4, <2>1 DEF CopyFails
<1> QED BY <1>1, <1>3, <1>4 DEF CopyTaskStep

LEMMA EndsTypes ==
    ASSUME Types, NEW T \in SUBSET Task, Ends(T), UNCHANGED <<runs, moment>>,
           up' \subseteq Worker, faults' \in 0..MaxFaults
    PROVE  Types'
<1>0. PICK cancelled \in BOOLEAN :
          disk' = [n \in DOMAIN disk |->
                      IF cancelled /\ \E t \in T : task[t].at = "write" /\ task[t].name = n
                      THEN [disk[n] EXCEPT !.state = "none"] ELSE disk[n]]
  BY DEF Ends
<1>1. /\ lock' = IF lock \in T THEN None ELSE lock
      /\ task' = [t \in Task |-> IF t \in T THEN IdleTask ELSE task[t]]
      /\ copy' = [c \in Copier |-> IF c \in T THEN IdleCopy ELSE copy[c]]
      /\ UNCHANGED <<target, authorized, remote, request, asks>>
  BY DEF Ends
<1>2. /\ disk \in [1..Len(disk) -> Entry] /\ DOMAIN disk = 1..Len(disk)
      /\ Len(disk) \in Nat
  BY LenProperties DEF Types, BackupTypes
<1>3. disk' \in [1..Len(disk) -> Entry]
  BY <1>0, <1>2 DEF Entry, Content
<1>4. disk' \in Seq(Entry)
  BY <1>2, <1>3, SeqDef
<1>5. Len(disk') = Len(disk) /\ DOMAIN disk' = DOMAIN disk
  BY <1>2, <1>3, <1>4, LenProperties
<1>6. task' \in [Task -> TaskState] /\ lock' \in Task \cup {None}
  BY <1>1, IdleTypes DEF Types, BackupTypes
<1>7. TaskShape' /\ Beginning' \subseteq Beginning
  BY <1>1, <1>5 DEF Types, TaskShape, IdleTask, Beginning
<1>8. RunsTypeOK /\ RunsTypeOK' /\ Len(runs') = Len(runs) /\ Requested' = Requested
  BY DEF Types, BackupTypes, RunsTypeOK, Requested, RunId
<1>9. Counted'
  BY <1>2, <1>5, <1>7, <1>8, CountStays DEF Types
<1>10. OffsiteTypeOK' /\ RequestShape' /\ CopyShape'
  BY <1>1, IdleTypes DEF Types, OffsiteTypeOK, RequestShape, CopyShape, IdleCopy
<1> QED BY <1>4, <1>6, <1>7, <1>8, <1>9, <1>10 DEF Types, BackupTypes

LEMMA StepTypes ==
    ASSUME Types, [Next]_vars
    PROVE  Types'
<1>f. moment \in Moment /\ faults \in 0..MaxFaults /\ up \subseteq Worker
  BY DEF Types, BackupTypes
<1>o. ASSUME UNCHANGED offsiteVars
      PROVE  OffsiteTypeOK' /\ RequestShape' /\ CopyShape'
  BY <1>o DEF Types, OffsiteTypeOK, RequestShape, CopyShape, offsiteVars
<1>1. CASE RequestBackup
  BY <1>1, BeginTypes
<1>2. CASE CommandBegins
  BY <1>2, BeginTypes
<1>3. ASSUME NEW t \in Task, TaskStep(t) \/ TakeRaises(t)
      PROVE  Types'
  BY <1>3, TaskStepTypes
<1>4. ASSUME NEW t \in Copier,
             \/ DailyBegins(t) \/ AbandonStale(t) \/ ClaimRequest(t)
             \/ CopyTaskStep(t) \/ CopyFails(t)
      PROVE  Types'
  BY <1>4, BeginTypes, ClaimTypes, CopyTaskTypes
<1>5. ASSUME NEW w \in Worker, WorkerEnds(w)
      PROVE  Types'
  <2>1. faults' \in 0..MaxFaults
    BY <1>5, <1>f, BackupsAssumption DEF WorkerEnds, Fault
  <2>2. {t \in Copier : t[1] = w} \in SUBSET Task
    BY DEF Task
  <2> QED BY <1>5, <1>f, <2>1, <2>2, EndsTypes DEF WorkerEnds
<1>6. ASSUME NEW w \in Worker, WorkerStarts(w)
      PROVE  Types'
  <2>1. up' \subseteq Worker
    BY <1>6, <1>f DEF WorkerStarts
  <2> QED BY <1>6, <1>o, <2>1
          DEF WorkerStarts, Types, BackupTypes, RunsTypeOK, TaskShape, Counted, Requested,
              RunId, Beginning
<1>7. CASE CommandKilled
  <2>1. faults' \in 0..MaxFaults
    BY <1>7, <1>f, BackupsAssumption DEF CommandKilled, Fault
  <2>2. {Command} \in SUBSET Task
    BY DEF Task
  <2> QED BY <1>7, <1>f, <2>1, <2>2, EndsTypes DEF CommandKilled
<1>8. ASSUME NEW r \in RunId, GoesStale(r)
      PROVE  Types'
  <2>1. RunsTypeOK' /\ Len(runs') = Len(runs) /\ Requested' \subseteq Requested
    BY <1>8, StaleTypes DEF GoesStale, Types, BackupTypes
  <2>2. UNCHANGED <<disk, lock, task, up, moment, faults, offsiteVars>>
    BY <1>8 DEF GoesStale
  <2>3. Len(disk) \in Nat /\ Beginning' = Beginning
    BY <2>2 DEF Types, BackupTypes, Beginning
  <2>4. Counted'
    BY <2>1, <2>2, <2>3, CountStays DEF Types, BackupTypes
  <2> QED BY <1>o, <2>1, <2>2, <2>4 DEF Types, BackupTypes, TaskShape
<1>9. CASE Tick
  <2>1. moment' \in Moment
    BY <1>9, <1>f, BackupsAssumption DEF Tick, Moment
  <2> QED BY <1>9, <1>f, <1>o, <2>1, BackupTypesStay DEF Tick
<1>10. ASSUME NEW r \in Request, OwnerActs(r)
       PROVE  Types'
  <2>1. OffsiteTypeOK' /\ RequestShape'
    BY <1>10, RequestTypes DEF OwnerActs, Types
  <2>2. UNCHANGED copy
    BY <1>10 DEF OwnerActs, RequestStep, ConfigureReads, ConfigureSaves, Remove, OffsiteReads,
                 InstallFetches, InstallPuts, InstallTests, TestLogsIn, TestSaves,
                 RequestTimesOut
  <2>3. CopyShape'
    BY <2>2 DEF Types, CopyShape
  <2> QED BY <1>10, <1>f, <2>1, <2>3, BackupTypesStay DEF OwnerActs, backupVars
<1>11. CASE UNCHANGED vars
  BY <1>11, <1>f, <1>o, BackupTypesStay DEF vars, backupVars
<1> QED BY <1>1, <1>2, <1>3, <1>4, <1>5, <1>6, <1>7, <1>8, <1>9, <1>10, <1>11 DEF Next

\* Every variable keeps its type, however many backups are asked for, begun,
\* claimed, abandoned and taken: in particular there are never more of them
\* than runs (worker.py, engine/maintenance.py, engine/offsite.py).
THEOREM BackupsTypes == Spec => []TypeOK
<1>1. Init => Types
  BY InitTypes
<1>2. Types /\ [Next]_vars => Types'
  BY StepTypes
<1>3. Types => TypeOK
  BY TypesGiveTypeOK
<1> QED BY <1>1, <1>2, <1>3, PTL DEF Spec

-----------------------------------------------------------------------------
(* One writer *)

\* Who writes has the lock.
Locked == \A t \in Task : task[t].at = "write" => lock = t

LEMMA LockedStays ==
    ASSUME Types, Locked, [Next]_vars
    PROVE  Locked'
<1>0. /\ task \in [Task -> TaskState]
      /\ \A t \in Task : t # None
  BY NoneAssumption DEF Types, BackupTypes, Task, Command
<1>a. ASSUME NEW t \in Task, NEW state, state.at # "write",
             task' = [task EXCEPT ![t] = state],
             lock' = lock \/ (task[t].at = "write" /\ lock' = None)
      PROVE  Locked'
  <2>1. \A x \in Task : task'[x] = IF x = t THEN state ELSE task[x]
    BY <1>0, <1>a
  <2> QED BY <1>a, <2>1 DEF Locked
<1>b. ASSUME NEW t \in Task, UNCHANGED lock,
             \A x \in Task : task'[x].at = "write" => task[x].at = "write"
      PROVE  Locked'
  BY <1>b DEF Locked
<1>1. ASSUME NEW t \in Task, NEW id, task[t].at = "idle", UNCHANGED lock,
             task' = [task EXCEPT ![t].at = "begun", ![t].run = id]
      PROVE  Locked'
  <2>1. \A x \in Task : task'[x].at = IF x = t THEN "begun" ELSE task[x].at
    BY <1>0, <1>1 DEF TaskState
  <2> QED BY <1>1, <2>1 DEF Locked
<1>2. ASSUME NEW t \in Task, NEW at, at # "write", Go(t, at),
             lock' = lock \/ (task[t].at = "write" /\ lock' = None)
      PROVE  Locked'
  <2>1. \A x \in Task : task'[x].at = IF x = t THEN at ELSE task[x].at
    BY <1>0, <1>2 DEF TaskState, Go
  <2> QED BY <1>2, <2>1 DEF Locked
<1>3. CASE UNCHANGED <<task, lock>>
  BY <1>3 DEF Locked
<1>4. CASE CommandBegins
  BY <1>1, <1>4 DEF CommandBegins, Free, Task
<1>5. ASSUME NEW t \in Copier, DailyBegins(t) \/ ClaimRequest(t)
      PROVE  Locked'
  BY <1>1, <1>5 DEF DailyBegins, ClaimRequest, Free, Task
<1>6. ASSUME NEW t \in Task, TakeBegins(t)
      PROVE  Locked'
  <2>1. CASE LockFree(t)
    <3>1. lock' = t /\ \A x \in Task : task[x].at # "write"
      BY <1>0, <1>6, <2>1 DEF TakeBegins, LockFree, Locked
    <3>2. \A x \in Task \ {t} : task'[x] = task[x]
      BY <1>0, <1>6, <2>1 DEF TakeBegins
    <3> QED BY <3>1, <3>2 DEF Locked
  <2>2. CASE ~LockFree(t)
    BY <1>2, <1>6, <2>2 DEF TakeBegins
  <2> QED BY <2>1, <2>2
<1>7. ASSUME NEW t \in Task, TakeCompletes(t) \/ TakeRaises(t)
      PROVE  Locked'
  BY <1>2, <1>7 DEF TakeCompletes, TakeRaises
<1>8. ASSUME NEW t \in Task, PruneLists(t) \/ Prunes(t)
      PROVE  Locked'
  <2>1. \A x \in Task : task'[x].at = "write" => task[x].at = "write"
    BY <1>0, <1>8 DEF PruneLists, Prunes, TaskState
  <2> QED BY <1>b, <1>8, <2>1 DEF PruneLists, Prunes
<1>9. ASSUME NEW t \in Task, RunFinishes(t) \/ RunFails(t)
      PROVE  Locked'
  <2>1. \A x \in Task : task'[x].at = "write" => task[x].at = "write"
    <3> DEFINE state == IF RunFinishes(t) /\ t # Command
                        THEN [task[t] EXCEPT !.at = "copy", !.run = 0] ELSE IdleTask
    <3>1. task' = [task EXCEPT ![t] = state]
      BY <1>9 DEF RunFinishes, RunFails
    <3>2. state.at \in {"copy", "idle"}
      BY <1>0 DEF TaskState, IdleTask
    <3> HIDE DEF state
    <3>3. \A x \in Task : task'[x] = IF x = t THEN state ELSE task[x]
      BY <1>0, <3>1
    <3> QED BY <3>2, <3>3
  <2> QED BY <1>b, <1>9, <2>1 DEF RunFinishes, RunFails
<1>10. ASSUME NEW t \in Copier, CopyStarts(t)
       PROVE  Locked'
  <2>1. \A x \in Task : task'[x].at = "write" => task[x].at = "write"
    BY <1>0, <1>10 DEF CopyStarts, TaskState, IdleTask
  <2> QED BY <1>b, <1>10, <2>1 DEF CopyStarts, Task
<1>11. ASSUME NEW T \in SUBSET Task, Ends(T)
       PROVE  Locked'
  <2>1. /\ lock' = IF lock \in T THEN None ELSE lock
        /\ task' = [x \in Task |-> IF x \in T THEN IdleTask ELSE task[x]]
    BY <1>11 DEF Ends
  <2>2. IdleTask.at = "idle"
    BY DEF IdleTask
  <2> QED BY <2>1, <2>2 DEF Locked
<1>12. ASSUME NEW w \in Worker, WorkerEnds(w)
       PROVE  Locked'
  <2>1. {t \in Copier : t[1] = w} \in SUBSET Task
    BY DEF Task
  <2> QED BY <1>11, <1>12, <2>1 DEF WorkerEnds
<1>13. CASE CommandKilled
  BY <1>11, <1>13 DEF CommandKilled, Task
<1> QED
  BY <1>3, <1>4, <1>5, <1>6, <1>7, <1>8, <1>9, <1>10, <1>12, <1>13
     DEF Next, TaskStep, CopyTaskStep, RequestBackup, AbandonStale, CopyMoves, CopyFails,
         WorkerStarts, GoesStale, Tick, OwnerActs, vars, backupVars

\* One backup is written at a time, by whichever of the tasks and the command,
\* although a run that takes long is failed as abandoned and another begins
\* (engine/backup.py, pg_try_advisory_lock).
THEOREM BackupsOneWriter == Spec => []OneWriter
<1>1. Init => Types /\ Locked
  BY InitTypes DEF Init, Locked, IdleTask
<1>2. Types /\ Locked /\ [Next]_vars => Types' /\ Locked'
  BY StepTypes, LockedStays
<1>3. Types /\ Locked => OneWriter
  <2> SUFFICES ASSUME Locked PROVE OneWriter
    OBVIOUS
  <2> DEFINE W == {t \in Task : task[t].at = "write"}
  <2>1. W \in SUBSET {lock}
    BY DEF Locked
  <2>2. IsFiniteSet({lock}) /\ Cardinality({lock}) = 1
    BY FS_Singleton
  <2>3. Cardinality(W) <= 1
    BY <2>1, <2>2, FS_Subset
  <2> QED BY <2>3 DEF OneWriter
<1> QED BY <1>1, <1>2, <1>3, PTL DEF Spec

-----------------------------------------------------------------------------
(* What is pruned: one directory or folder of backups *)

Whole(files, n) == {m \in Name : m > n /\ files[m] = "whole"}

\* Enough newer ones are whole for n to go.
Backed(files, n) == Cardinality(Whole(files, n)) >= Keep

TornBacked(files) == \A n \in Name : files[n] = "torn" => Backed(files, n)

\* What a step may do to the names: at most one that was whole is touched,
\* and that one was backed.
Keeps(from, to) ==
    /\ \A n \in Name : to[n] = "torn" => from[n] \in {"whole", "torn"}
    /\ \E k \in Name : \A n \in Name :
          from[n] = "whole" /\ to[n] # "whole" => n = k /\ Backed(from, k)

LEMMA WholeIsFinite ==
    ASSUME NEW files, NEW n
    PROVE  IsFiniteSet(Whole(files, n)) /\ Cardinality(Whole(files, n)) \in Nat
<1>1. IsFiniteSet(Name)
  BY FS_Interval, OffsiteAssumption DEF Name
<1>2. Whole(files, n) \in SUBSET Name
  BY DEF Whole
<1> QED BY <1>1, <1>2, FS_Subset, FS_CardinalityType

\* More whole ones back as well.
LEMMA MoreBack ==
    ASSUME NEW from, NEW to, NEW m, NEW n, Backed(from, m), Whole(from, m) \subseteq Whole(to, n)
    PROVE  Backed(to, n)
<1>1. Cardinality(Whole(from, m)) <= Cardinality(Whole(to, n))
  BY WholeIsFinite, FS_Subset
<1> QED BY <1>1, WholeIsFinite, KeepAssumption DEF Backed

LEMMA OlderIsBacked ==
    ASSUME NEW files, NEW m \in Name, NEW n \in Name, n <= m, Backed(files, m)
    PROVE  Backed(files, n)
<1>1. Whole(files, m) \subseteq Whole(files, n)
  BY DEF Whole, Name
<1> QED BY <1>1, MoreBack

\* What was backed before such a step is backed after it.
LEMMA KeepsBacked ==
    ASSUME NEW from, NEW to, Keeps(from, to), NEW n \in Name, Backed(from, n)
    PROVE  Backed(to, n)
<1>1. PICK k \in Name : \A m \in Name :
          from[m] = "whole" /\ to[m] # "whole" => m = k /\ Backed(from, k)
  BY DEF Keeps
<1>2. CASE from[k] = "whole" /\ to[k] # "whole" /\ k > n
  <2>1. Whole(from, k) \subseteq Whole(to, n)
    BY <1>1, <1>2 DEF Whole, Name
  <2> QED BY <1>1, <1>2, <2>1, MoreBack
<1>3. CASE ~(from[k] = "whole" /\ to[k] # "whole" /\ k > n)
  <2>1. Whole(from, n) \subseteq Whole(to, n)
    BY <1>1, <1>3 DEF Whole
  <2> QED BY <2>1, MoreBack
<1> QED BY <1>2, <1>3

LEMMA KeepsTornBacked ==
    ASSUME NEW from, NEW to, Keeps(from, to), TornBacked(from)
    PROVE  TornBacked(to)
<1> SUFFICES ASSUME NEW n \in Name, to[n] = "torn" PROVE Backed(to, n)
  BY DEF TornBacked
<1>1. Backed(from, n)
  BY DEF Keeps, TornBacked
<1> QED BY <1>1, KeepsBacked

\* What prune lists as old is backed, though it counts the torn ones too.
LEMMA OldIsBacked ==
    ASSUME NEW files, TornBacked(files), NEW n \in Old(files)
    PROVE  n \in Name /\ files[n] \in {"whole", "torn"} /\ Backed(files, n)
<1>1. n \in Name /\ files[n] \in {"whole", "torn"} /\ Cardinality(Newer(files, n)) >= Keep
  BY DEF Old, Finished
<1>2. CASE \E m \in Newer(files, n) : files[m] = "torn"
  <2>1. PICK m \in Newer(files, n) : files[m] = "torn"
    BY <1>2
  <2>2. m \in Name /\ n <= m
    BY <1>1, <2>1 DEF Newer, Finished, Name
  <2> QED BY <1>1, <2>1, <2>2, OlderIsBacked DEF TornBacked
<1>3. CASE \A m \in Newer(files, n) : files[m] # "torn"
  <2>1. Newer(files, n) = Whole(files, n)
    BY <1>3 DEF Newer, Finished, Whole
  <2> QED BY <1>1, <2>1 DEF Backed
<1> QED BY <1>2, <1>3

\* One tree less, of those that are backed.
LEMMA TornKeeps ==
    ASSUME NEW files \in [Name -> Content], NEW n \in Name, Backed(files, n)
    PROVE  Keeps(files, Torn(files, n))
BY TornType DEF Keeps

\* A name that was not whole becomes anything but torn.
LEMMA PutKeeps ==
    ASSUME NEW from, NEW to, NEW n \in Name, to[n] \in {"none", "partial", "whole"},
           from[n] # "whole" \/ to[n] = "whole",
           \A m \in Name \ {n} : to[m] = from[m]
    PROVE  Keeps(from, to)
BY DEF Keeps

LEMMA SameKeeps ==
    ASSUME MaxName \in Nat \ {0}, NEW files
    PROVE  Keeps(files, files)
<1>1. 1 \in Name
  BY DEF Name
<1> QED BY <1>1 DEF Keeps

-----------------------------------------------------------------------------
(* The backup directory *)

\* Who writes writes a partial one; what is torn, or is in the list of a prune,
\* has Keep newer ones that are whole.
DiskSafe ==
    /\ \A t \in Task : task[t].at = "write" => Files[task[t].name] = "partial"
    /\ TornBacked(Files)
    /\ \A t \in Task : \A n \in task[t].old :
          n \in DOMAIN disk /\ Files[n] # "partial" /\ Backed(Files, n)

LEMMA FilesTypes ==
    ASSUME Types
    PROVE  /\ Files \in [Name -> Content]
           /\ \A n \in DOMAIN disk : n \in Name /\ Files[n] = disk[n].state
           /\ \A n \in Name \ DOMAIN disk : Files[n] = "none"
           /\ \A n \in DOMAIN disk : disk[n] \in Entry
           /\ MaxName \in Nat \ {0}
<1>1. DOMAIN disk = 1..Len(disk) /\ DOMAIN disk \subseteq Name /\ MaxName \in Nat \ {0}
  BY DiskIsBounded
<1>2. \A n \in DOMAIN disk : disk[n] \in Entry
  BY <1>1 DEF Types, BackupTypes
<1> QED BY <1>1, <1>2 DEF Files, Entry, Content

\* A step that leaves the directory alone, adds no writer and no list.
LEMMA SameDisk ==
    ASSUME Types, DiskSafe, UNCHANGED disk,
           \A t \in Task :
              /\ task'[t].at = "write" => task[t].at = "write" /\ task'[t].name = task[t].name
              /\ task'[t].old \subseteq task[t].old
    PROVE  DiskSafe' /\ Keeps(Files, Files')
<1>1. Files' = Files
  BY DEF Files
<1>2. Keeps(Files, Files')
  BY <1>1, FilesTypes, SameKeeps
<1> QED BY <1>1, <1>2 DEF DiskSafe

\* A step that changes the directory.
LEMMA OtherDisk ==
    ASSUME Types, DiskSafe, Keeps(Files, Files'), DOMAIN disk \subseteq DOMAIN disk',
           \A n \in DOMAIN disk : Files'[n] = "partial" => Files[n] = "partial",
           \A t \in Task :
              /\ task'[t].at = "write" => Files'[task'[t].name] = "partial"
              /\ task'[t].old \subseteq task[t].old
    PROVE  DiskSafe'
<1>1. TornBacked(Files')
  BY KeepsTornBacked DEF DiskSafe
<1>2. ASSUME NEW t \in Task, NEW n \in task'[t].old
      PROVE  n \in DOMAIN disk' /\ Files'[n] # "partial" /\ Backed(Files', n)
  <2>1. n \in DOMAIN disk /\ Files[n] # "partial" /\ Backed(Files, n)
    BY <1>2 DEF DiskSafe
  <2>2. n \in Name
    BY <2>1, FilesTypes
  <2> QED BY <2>1, <2>2, KeepsBacked
<1> QED BY <1>1, <1>2 DEF DiskSafe

\* One entry of the directory changes.
LEMMA EntryChanges ==
    ASSUME Types, Types', NEW n \in DOMAIN disk, NEW content \in Content,
           disk' = [disk EXCEPT ![n].state = content]
    PROVE  /\ DOMAIN disk' = DOMAIN disk
           /\ \A m \in Name : Files'[m] = IF m = n THEN content ELSE Files[m]
<1>1. DOMAIN disk' = DOMAIN disk
  OBVIOUS
<1>2. disk[n] \in Entry /\ n \in Name /\ DOMAIN disk \subseteq Name
  BY FilesTypes
<1>3. disk'[n].state = content
  BY <1>2 DEF Entry
<1>4. \A m \in DOMAIN disk \ {n} : disk'[m] = disk[m]
  OBVIOUS
<1> QED BY <1>1, <1>2, <1>3, <1>4 DEF Files

\* What a task does to its own state.
LEMMA GoDoes ==
    ASSUME Types, NEW t \in Task, NEW at, Go(t, at)
    PROVE  \A x \in Task : /\ task'[x].at = IF x = t THEN at ELSE task[x].at
                           /\ task'[x].name = task[x].name
                           /\ task'[x].old = task[x].old
<1>1. task \in [Task -> TaskState]
  BY DEF Types, BackupTypes
<1> QED BY <1>1 DEF Go, TaskState

LEMMA WritingEnds ==
    ASSUME Types, Types', Locked, DiskSafe, NEW t \in Task,
           TakeCompletes(t) \/ TakeRaises(t)
    PROVE  DiskSafe' /\ Keeps(Files, Files')
<1>1. PICK content \in {"whole", "none"}, at \in {"list", "fail"} :
         /\ task[t].at = "write"
         /\ disk' = [disk EXCEPT ![task[t].name].state = content]
         /\ Go(t, at)
  BY DEF TakeCompletes, TakeRaises
<1> DEFINE n == task[t].name
<1>2. n \in DOMAIN disk /\ n \in Name /\ Files[n] = "partial" /\ content \in Content
  BY <1>1, FilesTypes DEF Types, TaskShape, DiskSafe, Content
<1> HIDE DEF n
<1>3. DOMAIN disk' = DOMAIN disk /\ \A m \in Name : Files'[m] = IF m = n THEN content ELSE Files[m]
  BY <1>1, <1>2, EntryChanges DEF n
<1>4. Keeps(Files, Files')
  BY <1>2, <1>3, PutKeeps
<1>5. \A x \in Task : /\ task'[x].at = IF x = t THEN at ELSE task[x].at
                      /\ task'[x].name = task[x].name
                      /\ task'[x].old = task[x].old
  BY <1>1, GoDoes
<1>6. ASSUME NEW x \in Task, task'[x].at = "write"
      PROVE  Files'[task'[x].name] = "partial"
  <2>1. x # t /\ task[x].at = "write"
    BY <1>5, <1>6
  <2>2. FALSE
    BY <1>1, <2>1 DEF Locked
  <2> QED BY <2>2
<1>7. DiskSafe'
  BY <1>2, <1>3, <1>4, <1>5, <1>6, FilesTypes, OtherDisk
<1> QED BY <1>4, <1>7

Fits == DOMAIN disk = 1..Len(disk) /\ Len(disk) \in Nat /\ DOMAIN disk \subseteq Name

LEMMA DiskFits == Types => Fits
BY DiskIsBounded DEF Fits

LEMMA DiskFitsAfter == Types' => Fits'
BY DiskFits, PTL

\* The backup that begins gets a name of its own.
LEMMA WritingBegins ==
    ASSUME Types, Types', NEW t \in Task, TakeBegins(t), LockFree(t)
    PROVE  /\ DOMAIN disk \subseteq DOMAIN disk'
           /\ Len(disk) + 1 \in Name \ DOMAIN disk
           /\ Files'[Len(disk) + 1] = "partial" /\ Files[Len(disk) + 1] = "none"
           /\ \A n \in Name \ {Len(disk) + 1} : Files'[n] = Files[n]
           /\ \A x \in Task :
                 /\ task'[x].at = IF x = t THEN "write" ELSE task[x].at
                 /\ task'[x].name = IF x = t THEN Len(disk) + 1 ELSE task[x].name
                 /\ task'[x].old = task[x].old
<1> DEFINE entry == [state |-> "partial", day |-> Day(moment)]
           id == Len(disk) + 1
<1>1. disk' = Append(disk, entry) /\ task' = [task EXCEPT ![t].at = "write", ![t].name = id]
  BY DEF TakeBegins
<1>2. DOMAIN disk = 1..Len(disk) /\ Len(disk) \in Nat /\ DOMAIN disk \subseteq Name
  BY DiskFits DEF Fits
<1>3. /\ DOMAIN disk' = 1..id /\ disk'[id] = entry
      /\ \A n \in 1..Len(disk) : disk'[n] = disk[n]
  BY <1>1, <1>2
<1>4. DOMAIN disk' \subseteq Name
  BY DiskFitsAfter DEF Fits
<1>5. id \in Name \ DOMAIN disk /\ id \in DOMAIN disk'
  BY <1>2, <1>3, <1>4
<1>6. \A x \in Task :
         /\ task'[x].at = IF x = t THEN "write" ELSE task[x].at
         /\ task'[x].name = IF x = t THEN id ELSE task[x].name
         /\ task'[x].old = task[x].old
  <2>1. task \in [Task -> TaskState]
    BY DEF Types, BackupTypes
  <2> HIDE DEF id
  <2> QED BY <1>1, <2>1 DEF TaskState
<1>7. Files'[id] = "partial" /\ Files[id] = "none"
  BY <1>3, <1>5 DEF Files
<1>8. \A n \in Name \ {id} : Files'[n] = Files[n]
  <2>1. \A n \in Name \ {id} : n \in DOMAIN disk' <=> n \in DOMAIN disk
    BY <1>2, <1>3 DEF Name
  <2> QED BY <1>2, <1>3, <2>1 DEF Files
<1> QED BY <1>2, <1>3, <1>5, <1>6, <1>7, <1>8

LEMMA TakeBeginsSafe ==
    ASSUME Types, Types', Locked, DiskSafe, NEW t \in Task, TakeBegins(t)
    PROVE  DiskSafe' /\ Keeps(Files, Files')
<1>1. CASE LockFree(t)
  <2> DEFINE id == Len(disk) + 1
  <2>1. /\ DOMAIN disk \subseteq DOMAIN disk' /\ id \in Name \ DOMAIN disk
        /\ Files'[id] = "partial" /\ Files[id] = "none"
        /\ \A n \in Name \ {id} : Files'[n] = Files[n]
        /\ \A x \in Task :
              /\ task'[x].at = IF x = t THEN "write" ELSE task[x].at
              /\ task'[x].name = IF x = t THEN id ELSE task[x].name
              /\ task'[x].old = task[x].old
    BY <1>1, WritingBegins
  <2> HIDE DEF id
  <2>2. Keeps(Files, Files')
    <3>1. /\ id \in Name /\ Files'[id] \in {"none", "partial", "whole"} /\ Files[id] # "whole"
          /\ \A n \in Name \ {id} : Files'[n] = Files[n]
      BY <2>1
    <3> QED BY <3>1, PutKeeps
  <2>3. \A x \in Task : task[x].at # "write"
    <3>1. \A x \in Task : x # None
      BY NoneAssumption DEF Task, Command
    <3> QED BY <1>1, <3>1 DEF LockFree, Locked
  <2>4. \A x \in Task : task'[x].at = "write" => Files'[task'[x].name] = "partial"
    BY <2>1, <2>3
  <2>5. \A n \in DOMAIN disk : Files'[n] = "partial" => Files[n] = "partial"
    BY <2>1, FilesTypes
  <2>6. DiskSafe'
    BY <2>1, <2>2, <2>4, <2>5, OtherDisk
  <2> QED BY <2>2, <2>6
<1>2. CASE ~LockFree(t)
  <2>1. Go(t, "fail") /\ UNCHANGED disk
    BY <1>2 DEF TakeBegins
  <2> QED BY <2>1, GoDoes, SameDisk
<1> QED BY <1>1, <1>2

LEMMA PruneSafe ==
    ASSUME Types, Types', DiskSafe, NEW t \in Task, PruneLists(t) \/ Prunes(t)
    PROVE  DiskSafe' /\ Keeps(Files, Files')
<1>0. task \in [Task -> TaskState] /\ MaxName \in Nat \ {0}
  BY FilesTypes DEF Types, BackupTypes
<1>1. CASE PruneLists(t)
  <2>1. UNCHANGED disk /\ task' = [task EXCEPT ![t].at = "prune", ![t].old = Old(Files)]
    BY <1>1 DEF PruneLists
  <2>2. \A x \in Task : /\ task'[x].at = IF x = t THEN "prune" ELSE task[x].at
                        /\ task'[x].name = task[x].name
                        /\ task'[x].old = IF x = t THEN Old(Files) ELSE task[x].old
    BY <1>0, <2>1 DEF TaskState
  <2>3. Files' = Files /\ Keeps(Files, Files')
    BY <1>0, <2>1, SameKeeps DEF Files
  <2>4. ASSUME NEW n \in Old(Files)
        PROVE  n \in DOMAIN disk /\ Files[n] # "partial" /\ Backed(Files, n)
    BY <2>4, OldIsBacked, FilesTypes DEF DiskSafe
  <2>5. \A x \in Task : task'[x].at = "write" => Files'[task'[x].name] = "partial"
    BY <2>2, <2>3 DEF DiskSafe
  <2>6. \A x \in Task : \A n \in task'[x].old :
           n \in DOMAIN disk /\ Files[n] # "partial" /\ Backed(Files, n)
    BY <2>2, <2>4 DEF DiskSafe
  <2> QED BY <2>1, <2>3, <2>5, <2>6 DEF DiskSafe
<1>2. CASE Prunes(t)
  <2> DEFINE left == {n \in task[t].old : Files[n] # "none"}
  <2>1. CASE left = {}
    <3>1. UNCHANGED disk /\ task' = [task EXCEPT ![t].at = "finish", ![t].old = {}]
      BY <1>2, <2>1 DEF Prunes
    <3>2. \A x \in Task : /\ task'[x].at = IF x = t THEN "finish" ELSE task[x].at
                          /\ task'[x].name = task[x].name
                          /\ task'[x].old = IF x = t THEN {} ELSE task[x].old
      BY <1>0, <3>1 DEF TaskState
    <3>3. \A x \in Task :
             /\ task'[x].at = "write" => task[x].at = "write" /\ task'[x].name = task[x].name
             /\ task'[x].old \subseteq task[x].old
      BY <3>2
    <3> QED BY <3>1, <3>3, SameDisk
  <2>2. CASE left # {}
    <3>1. PICK n \in left : disk' = [disk EXCEPT ![n].state = Torn(Files, n)[n]]
      BY <1>2, <2>2 DEF Prunes
    <3>2. UNCHANGED task
      BY <1>2, <2>2 DEF Prunes
    <3>3. /\ n \in DOMAIN disk /\ n \in Name /\ Files \in [Name -> Content]
          /\ Files[n] \in {"whole", "torn"} /\ Backed(Files, n)
      BY FilesTypes DEF DiskSafe, Content
    <3> DEFINE content == Torn(Files, n)[n]
    <3>4. content = IF Files[n] = "whole" THEN "torn" ELSE "none"
      BY <3>3, TornType
    <3>5. content \in Content
      BY <3>4 DEF Content
    <3>6. /\ DOMAIN disk' = DOMAIN disk
          /\ \A m \in Name : Files'[m] = IF m = n THEN content ELSE Files[m]
      BY <3>1, <3>3, <3>5, EntryChanges
    <3> HIDE DEF content
    <3>7. Keeps(Files, Files')
      BY <3>3, <3>4, <3>6 DEF Keeps
    <3>8. \A x \in Task : task'[x].at = "write" => Files'[task'[x].name] = "partial"
      <4> SUFFICES ASSUME NEW x \in Task, task[x].at = "write"
                   PROVE  Files'[task[x].name] = "partial"
        BY <3>2
      <4>1. task[x].name \in Name /\ Files[task[x].name] = "partial"
        BY FilesTypes DEF DiskSafe, Types, TaskShape
      <4> QED BY <3>3, <3>6, <4>1
    <3>9. \A m \in DOMAIN disk : Files'[m] = "partial" => Files[m] = "partial"
      BY <3>4, <3>6, FilesTypes
    <3> QED BY <3>2, <3>6, <3>7, <3>8, <3>9, OtherDisk
  <2> QED BY <2>1, <2>2
<1> QED BY <1>1, <1>2

LEMMA EndsSafe ==
    ASSUME Types, Types', Locked, DiskSafe, NEW T \in SUBSET Task, Ends(T)
    PROVE  DiskSafe' /\ Keeps(Files, Files')
<1>0. PICK cancelled \in BOOLEAN :
          disk' = [n \in DOMAIN disk |->
                      IF cancelled /\ \E t \in T : task[t].at = "write" /\ task[t].name = n
                      THEN [disk[n] EXCEPT !.state = "none"] ELSE disk[n]]
  BY DEF Ends
<1>1. task' = [t \in Task |-> IF t \in T THEN IdleTask ELSE task[t]]
  BY DEF Ends
<1>2. /\ IdleTask.at = "idle" /\ IdleTask.old = {}
      /\ \A t \in Task : /\ task'[t].at = "write" =>
                               t \notin T /\ task[t].at = "write" /\ task'[t].name = task[t].name
                         /\ task'[t].old \subseteq task[t].old
  BY <1>1 DEF IdleTask
<1>3. CASE ~(cancelled /\ \E t \in T : task[t].at = "write")
  <2>1. disk' = [n \in DOMAIN disk |-> disk[n]]
    BY <1>0, <1>3
  <2>2. disk \in Seq(Entry)
    BY DEF Types, BackupTypes
  <2>3. disk' = disk
    BY <2>1, <2>2
  <2> QED BY <1>2, <2>3, SameDisk
<1>4. CASE cancelled /\ \E t \in T : task[t].at = "write"
  <2>1. PICK t \in T : task[t].at = "write"
    BY <1>4
  <2>2. \A x \in Task : task[x].at = "write" => x = t
    BY <2>1 DEF Locked
  <2> DEFINE n == task[t].name
  <2>3. n \in DOMAIN disk /\ n \in Name /\ Files[n] = "partial" /\ t \in Task
    BY <2>1, FilesTypes DEF Types, TaskShape, DiskSafe
  <2>4. DOMAIN disk' = DOMAIN disk
    BY <1>0
  <2>5. \A m \in DOMAIN disk : disk'[m] = IF m = n THEN [disk[m] EXCEPT !.state = "none"]
                                          ELSE disk[m]
    BY <1>0, <1>4, <2>1, <2>2
  <2> HIDE DEF n
  <2>6. \A m \in DOMAIN disk : disk'[m].state = IF m = n THEN "none" ELSE disk[m].state
    BY <2>5, FilesTypes DEF Entry
  <2>7. \A m \in Name : Files'[m] = IF m = n THEN "none" ELSE Files[m]
    BY <2>3, <2>4, <2>6, FilesTypes DEF Files
  <2>8. Keeps(Files, Files')
    <3>1. Files'[n] = "none" /\ \A m \in Name \ {n} : Files'[m] = Files[m]
      BY <2>3, <2>7
    <3> QED BY <2>3, <3>1, PutKeeps
  <2>9. \A x \in Task : task'[x].at = "write" => Files'[task'[x].name] = "partial"
    BY <1>2, <2>1, <2>2
  <2>10. \A m \in DOMAIN disk : Files'[m] = "partial" => Files[m] = "partial"
    BY <2>7, FilesTypes
  <2> QED BY <1>2, <2>4, <2>8, <2>9, <2>10, OtherDisk
<1> QED BY <1>3, <1>4

\* Every step keeps the directory safe and touches one whole backup at most,
\* with Keep newer ones whole.
LEMMA DiskStep ==
    ASSUME Types, Types', Locked, DiskSafe, [Next]_vars
    PROVE  DiskSafe' /\ Keeps(Files, Files')
<1>0. task \in [Task -> TaskState]
  BY DEF Types, BackupTypes
<1>t. ASSUME UNCHANGED <<disk, task>>
      PROVE  DiskSafe' /\ Keeps(Files, Files')
  BY <1>t, SameDisk
<1>b. ASSUME NEW t \in Task, NEW id, UNCHANGED disk,
             task' = [task EXCEPT ![t].at = "begun", ![t].run = id]
      PROVE  DiskSafe' /\ Keeps(Files, Files')
  <2>1. \A x \in Task : /\ task'[x].at = IF x = t THEN "begun" ELSE task[x].at
                        /\ task'[x].name = task[x].name
                        /\ task'[x].old = task[x].old
    BY <1>0, <1>b DEF TaskState
  <2>2. \A x \in Task :
           /\ task'[x].at = "write" => task[x].at = "write" /\ task'[x].name = task[x].name
           /\ task'[x].old \subseteq task[x].old
    BY <2>1
  <2> QED BY <1>b, <2>2, SameDisk
<1>1. CASE CommandBegins
  BY <1>b, <1>1 DEF CommandBegins, Task
<1>2. ASSUME NEW t \in Copier, DailyBegins(t) \/ ClaimRequest(t)
      PROVE  DiskSafe' /\ Keeps(Files, Files')
  BY <1>b, <1>2 DEF DailyBegins, ClaimRequest, Task
<1>3. ASSUME NEW t \in Task, TakeBegins(t)
      PROVE  DiskSafe' /\ Keeps(Files, Files')
  BY <1>3, TakeBeginsSafe
<1>4. ASSUME NEW t \in Task, TakeCompletes(t) \/ TakeRaises(t)
      PROVE  DiskSafe' /\ Keeps(Files, Files')
  BY <1>4, WritingEnds
<1>5. ASSUME NEW t \in Task, PruneLists(t) \/ Prunes(t)
      PROVE  DiskSafe' /\ Keeps(Files, Files')
  BY <1>5, PruneSafe
<1>6. ASSUME NEW t \in Task, RunFinishes(t) \/ RunFails(t) \/ (t \in Copier /\ CopyStarts(t))
      PROVE  DiskSafe' /\ Keeps(Files, Files')
  <2> DEFINE state == IF RunFinishes(t) /\ t # Command
                      THEN [task[t] EXCEPT !.at = "copy", !.run = 0] ELSE IdleTask
  <2>1. UNCHANGED disk /\ (task' = [task EXCEPT ![t] = state] \/ task' = [task EXCEPT ![t] = IdleTask])
    BY <1>6 DEF RunFinishes, RunFails, CopyStarts
  <2>2. state.at \in {"copy", "idle"} /\ state.old \subseteq task[t].old
    <3>1. task[t] \in TaskState
      BY <1>0
    <3> QED BY <3>1 DEF TaskState, IdleTask
  <2>3. IdleTask.at = "idle" /\ IdleTask.old = {}
    BY DEF IdleTask
  <2> HIDE DEF state
  <2>4. PICK s : /\ s.at \in {"copy", "idle"} /\ s.old \subseteq task[t].old
                 /\ task' = [task EXCEPT ![t] = s]
    BY <2>1, <2>2, <2>3
  <2>5. \A x \in Task : task'[x] = IF x = t THEN s ELSE task[x]
    BY <1>0, <2>4
  <2> QED BY <2>1, <2>4, <2>5, SameDisk
<1>7. ASSUME NEW w \in Worker, WorkerEnds(w)
      PROVE  DiskSafe' /\ Keeps(Files, Files')
  <2>1. {t \in Copier : t[1] = w} \in SUBSET Task
    BY DEF Task
  <2> QED BY <1>7, <2>1, EndsSafe DEF WorkerEnds
<1>8. CASE CommandKilled
  <2>1. {Command} \in SUBSET Task
    BY DEF Task
  <2> QED BY <1>8, <2>1, EndsSafe DEF CommandKilled
<1>9. CASE \/ RequestBackup \/ Tick \/ UNCHANGED vars
           \/ \E r \in RunId : GoesStale(r)
           \/ \E w \in Worker : WorkerStarts(w)
           \/ \E r \in Request : OwnerActs(r)
           \/ \E t \in Copier : AbandonStale(t) \/ CopyMoves(t) \/ CopyFails(t)
  BY <1>t, <1>9 DEF RequestBackup, Tick, vars, GoesStale, WorkerStarts, OwnerActs,
                    AbandonStale, CopyMoves, CopyFails, backupVars
<1> QED
  BY <1>1, <1>2, <1>3, <1>4, <1>5, <1>6, <1>7, <1>8, <1>9
     DEF Next, TaskStep, CopyTaskStep, Task

-----------------------------------------------------------------------------
(* The copies *)

HandedOver == {"write", "list", "prune", "finish", "copy"}

Sending == {"upload", "rename"}

\* A backup has one task that brings it to its end, or one copy that sends it;
\* until it is sent no server has anything under its name.
NamesDiffer ==
    /\ \A t, u \in Task :
          task[t].at \in HandedOver /\ task[u].at \in HandedOver
             /\ task[t].name = task[u].name => t = u
    /\ \A c, d \in Copier :
          copy[c].at \in Sending /\ copy[d].at \in Sending
             /\ copy[c].name = copy[d].name => c = d
    /\ \A t \in Task, c \in Copier :
          task[t].at \in HandedOver /\ copy[c].at \in Sending => task[t].name # copy[c].name
    /\ \A c \in Copier : copy[c].at \in Sending => copy[c].name \in DOMAIN disk

Unsent ==
    \A s \in Server :
        /\ \A n \in Name \ DOMAIN disk : remote[s][n] = "none"
        /\ \A t \in Task : task[t].at \in HandedOver => remote[s][task[t].name] = "none"
        /\ \A c \in Copier : copy[c].at = "upload" => remote[s][copy[c].name] = "none"

\* What is torn on a server, or is in the list of a copy's prune, has Keep
\* newer ones that are whole there.
CopiesSafe ==
    /\ \A s \in Server : TornBacked(remote[s])
    /\ \A c \in Copier : copy[c].at = "prune" =>
          \A n \in copy[c].old : Backed(remote[copy[c].snap.server], n)

\* Nothing new is in hand or being sent.
LEMMA NamesStay ==
    ASSUME Types, NamesDiffer, Unsent, DOMAIN disk \subseteq DOMAIN disk',
           \A s \in Server, n \in Name : remote[s][n] = "none" => remote'[s][n] = "none",
           \A t \in Task : task'[t].at \in HandedOver =>
              task[t].at \in HandedOver /\ task'[t].name = task[t].name,
           \A c \in Copier : copy'[c].at \in Sending =>
              /\ copy[c].at \in Sending /\ copy'[c].name = copy[c].name
              /\ copy'[c].at = "upload" => copy[c].at = "upload"
    PROVE  NamesDiffer' /\ Unsent'
<1>1. NamesDiffer'
  BY DEF NamesDiffer
<1>2. /\ \A t \in Task : task[t].at \in HandedOver => task[t].name \in Name
      /\ \A c \in Copier : copy[c].at \in Sending => copy[c].name \in Name
  BY FilesTypes DEF Types, TaskShape, CopyShape, HandedOver, Sending
<1>3. ASSUME NEW s \in Server
      PROVE  /\ \A n \in Name \ DOMAIN disk' : remote'[s][n] = "none"
             /\ \A t \in Task : task'[t].at \in HandedOver => remote'[s][task'[t].name] = "none"
             /\ \A c \in Copier : copy'[c].at = "upload" => remote'[s][copy'[c].name] = "none"
  <2>1. \A n \in Name \ DOMAIN disk' : remote'[s][n] = "none"
    BY DEF Unsent
  <2>2. \A t \in Task : task'[t].at \in HandedOver => remote'[s][task'[t].name] = "none"
    BY <1>2 DEF Unsent
  <2>3. \A c \in Copier : copy'[c].at = "upload" => remote'[s][copy'[c].name] = "none"
    BY <1>2 DEF Unsent, Sending
  <2> QED BY <2>1, <2>2, <2>3
<1> QED BY <1>1, <1>3 DEF Unsent

LEMMA CopiesStay ==
    ASSUME Types, CopiesSafe, \A s \in Server : Keeps(remote[s], remote'[s]),
           \A c \in Copier : copy'[c].at = "prune" =>
              /\ copy[c].at = "prune" /\ copy'[c].old \subseteq copy[c].old
              /\ copy'[c].snap = copy[c].snap
    PROVE  CopiesSafe'
<1>1. \A s \in Server : TornBacked(remote'[s])
  BY KeepsTornBacked DEF CopiesSafe
<1>2. ASSUME NEW c \in Copier, copy'[c].at = "prune", NEW n \in copy'[c].old
      PROVE  Backed(remote'[copy'[c].snap.server], n)
  <2>1. copy[c].at = "prune" /\ n \in copy[c].old /\ copy'[c].snap = copy[c].snap
    BY <1>2
  <2>2. copy[c].snap.server \in Server
    BY <2>1 DEF Types, CopyShape, Target
  <2>3. n \in Name
    <3>1. copy[c] \in CopyState
      BY DEF Types, OffsiteTypeOK
    <3> QED BY <2>1, <3>1 DEF CopyState
  <2>4. Backed(remote[copy[c].snap.server], n)
    BY <2>1 DEF CopiesSafe
  <2> QED BY <2>1, <2>2, <2>3, <2>4, KeepsBacked
<1> QED BY <1>1, <1>2 DEF CopiesSafe

LEMMA SameRemote ==
    ASSUME Types, UNCHANGED remote
    PROVE  /\ \A s \in Server : Keeps(remote[s], remote'[s])
           /\ \A s \in Server, n \in Name : remote[s][n] = "none" => remote'[s][n] = "none"
BY FilesTypes, SameKeeps

\* What a copy does to its own state.
LEMMA CopyAtDoes ==
    ASSUME Types, NEW c \in Copier, NEW state, CopyAt(c, state)
    PROVE  \A d \in Copier : copy'[d] = IF d = c THEN state ELSE copy[d]
BY DEF Types, OffsiteTypeOK, CopyAt

\* What a copy puts on the server it goes to.
LEMMA PutDoes ==
    ASSUME Types, NEW c \in Copier, copy[c].at # "idle", NEW content,
           Put(c, copy[c].name, content)
    PROVE  /\ copy[c].name \in Name /\ copy[c].snap.server \in Server
           /\ \A s \in Server, n \in Name :
                 remote'[s][n] = IF s = copy[c].snap.server /\ n = copy[c].name THEN content
                                 ELSE remote[s][n]
<1>1. copy[c].name \in Name /\ copy[c].snap.server \in Server
  BY DEF Types, CopyShape, Target
<1>2. remote \in [Server -> [Name -> Content]]
  BY DEF Types, OffsiteTypeOK
<1> QED BY <1>1, <1>2 DEF Put

\* A copy's own steps but its listing and its puts.
LEMMA CopyGoesOn ==
    ASSUME Types, NamesDiffer, Unsent, CopiesSafe, NEW c \in Copier, NEW state,
           CopyAt(c, state), state.at \in {"record", "save", "idle"},
           UNCHANGED <<disk, task, remote>>
    PROVE  NamesDiffer' /\ Unsent' /\ CopiesSafe' /\ \A s \in Server : Keeps(remote[s], remote'[s])
<1>1. \A d \in Copier : copy'[d] = IF d = c THEN state ELSE copy[d]
  BY CopyAtDoes
<1>2. /\ \A s \in Server : Keeps(remote[s], remote'[s])
      /\ \A s \in Server, n \in Name : remote[s][n] = "none" => remote'[s][n] = "none"
  BY SameRemote
<1>3. NamesDiffer' /\ Unsent'
  <2>1. \A d \in Copier : copy'[d].at \in Sending =>
           /\ copy[d].at \in Sending /\ copy'[d].name = copy[d].name
           /\ copy'[d].at = "upload" => copy[d].at = "upload"
    BY <1>1 DEF Sending
  <2> QED BY <1>2, <2>1, NamesStay
<1>4. CopiesSafe'
  <2>1. \A d \in Copier : copy'[d].at = "prune" =>
           /\ copy[d].at = "prune" /\ copy'[d].old \subseteq copy[d].old
           /\ copy'[d].snap = copy[d].snap
    BY <1>1
  <2> QED BY <1>2, <2>1, CopiesStay
<1> QED BY <1>2, <1>3, <1>4

\* The upload and the rename: nobody else has to do with that name.
LEMMA CopyPuts ==
    ASSUME Types, NamesDiffer, Unsent, CopiesSafe, NEW c \in Copier,
           NEW state, CopyAt(c, state), NEW content, Put(c, copy[c].name, content),
           \/ copy[c].at = "upload" /\ content = "partial" /\ state.at = "rename"
           \/ copy[c].at = "rename" /\ content = "whole" /\ state.at = "list",
           state.name = copy[c].name, UNCHANGED <<disk, task>>
    PROVE  NamesDiffer' /\ Unsent' /\ CopiesSafe' /\ \A s \in Server : Keeps(remote[s], remote'[s])
<1>1. \A d \in Copier : copy'[d] = IF d = c THEN state ELSE copy[d]
  BY CopyAtDoes
<1>2. /\ copy[c].name \in Name /\ copy[c].snap.server \in Server
      /\ \A s \in Server, n \in Name :
            remote'[s][n] = IF s = copy[c].snap.server /\ n = copy[c].name THEN content
                            ELSE remote[s][n]
  BY PutDoes
<1>3. ASSUME NEW s \in Server
      PROVE  Keeps(remote[s], remote'[s])
  <2>1. remote[s][copy[c].name] # "whole" \/ remote'[s][copy[c].name] = "whole"
    <3>1. CASE copy[c].at = "upload"
      BY <3>1 DEF Unsent
    <3>2. CASE copy[c].at = "rename"
      BY <1>2, <3>2
    <3> QED BY <3>1, <3>2
  <2>2. CASE s = copy[c].snap.server
    <3>1. /\ remote'[s][copy[c].name] \in {"none", "partial", "whole"}
          /\ \A m \in Name \ {copy[c].name} : remote'[s][m] = remote[s][m]
      BY <1>2, <2>2
    <3> QED BY <1>2, <2>1, <3>1, PutKeeps
  <2>3. CASE s # copy[c].snap.server
    <3>1. \A m \in Name : remote'[s][m] = remote[s][m]
      BY <1>2, <2>3
    <3> QED BY <1>2, <3>1 DEF Keeps
  <2> QED BY <2>2, <2>3
<1>4. CopiesSafe'
  <2>1. \A d \in Copier : copy'[d].at = "prune" =>
           /\ copy[d].at = "prune" /\ copy'[d].old \subseteq copy[d].old
           /\ copy'[d].snap = copy[d].snap
    BY <1>1
  <2> QED BY <1>3, <2>1, CopiesStay
<1>5. /\ copy[c].at \in Sending
      /\ \A d \in Copier : copy'[d].at \in Sending =>
            copy[d].at \in Sending /\ copy'[d].name = copy[d].name
      /\ \A d \in Copier : copy'[d].at = "upload" => d # c /\ copy[d].at = "upload"
  BY <1>1 DEF Sending
<1>6. NamesDiffer'
  BY <1>5 DEF NamesDiffer
<1>7. ASSUME NEW s \in Server, NEW n \in Name, n # copy[c].name, remote[s][n] = "none"
      PROVE  remote'[s][n] = "none"
  BY <1>2, <1>7
<1>8. ASSUME NEW s \in Server
      PROVE  /\ \A n \in Name \ DOMAIN disk' : remote'[s][n] = "none"
             /\ \A t \in Task : task'[t].at \in HandedOver => remote'[s][task'[t].name] = "none"
             /\ \A d \in Copier : copy'[d].at = "upload" => remote'[s][copy'[d].name] = "none"
  <2>1. \A n \in Name \ DOMAIN disk' : remote'[s][n] = "none"
    BY <1>5, <1>7 DEF Unsent, NamesDiffer
  <2>2. ASSUME NEW t \in Task, task'[t].at \in HandedOver
        PROVE  remote'[s][task'[t].name] = "none"
    <3>1. task[t].name \in Name
      BY <2>2, FilesTypes DEF Types, TaskShape, HandedOver
    <3>2. task[t].name # copy[c].name /\ remote[s][task[t].name] = "none"
      BY <1>5, <2>2 DEF NamesDiffer, Unsent
    <3> QED BY <1>7, <3>1, <3>2
  <2>3. ASSUME NEW d \in Copier, copy'[d].at = "upload"
        PROVE  remote'[s][copy'[d].name] = "none"
    <3>1. d # c /\ copy[d].at = "upload" /\ copy'[d].name = copy[d].name
      BY <1>1, <1>5, <2>3
    <3>2. copy[d].name \in Name
      BY <3>1 DEF Types, CopyShape
    <3>3. copy[d].name # copy[c].name /\ remote[s][copy[d].name] = "none"
      BY <1>5, <3>1 DEF NamesDiffer, Unsent, Sending
    <3> QED BY <1>7, <3>1, <3>2, <3>3
  <2> QED BY <2>1, <2>2, <2>3
<1> QED BY <1>3, <1>4, <1>6, <1>8 DEF Unsent

LEMMA CopyListsSafe ==
    ASSUME Types, NamesDiffer, Unsent, CopiesSafe, NEW c \in Copier, CopyLists(c), LogsIn(c),
           UNCHANGED <<disk, task>>
    PROVE  NamesDiffer' /\ Unsent' /\ CopiesSafe' /\ \A s \in Server : Keeps(remote[s], remote'[s])
<1> DEFINE old == Old(remote[copy[c].snap.server])
           state == [copy[c] EXCEPT !.at = IF old = {} THEN "record" ELSE "prune",
                                    !.old = old, !.ok = TRUE]
<1>1. CopyAt(c, state) /\ UNCHANGED remote /\ copy[c].at = "list"
  BY DEF CopyLists
<1>2. copy[c] \in CopyState /\ copy[c].snap.server \in Server
  BY <1>1 DEF Types, OffsiteTypeOK, CopyShape, Target
<1>3. state.at \in {"record", "prune"} /\ state.old = old /\ state.snap = copy[c].snap
  <2> HIDE DEF old
  <2> QED BY <1>2 DEF CopyState
<1> HIDE DEF state
<1>4. \A d \in Copier : copy'[d] = IF d = c THEN state ELSE copy[d]
  BY <1>1, CopyAtDoes
<1>5. /\ \A s \in Server : Keeps(remote[s], remote'[s])
      /\ \A s \in Server, n \in Name : remote[s][n] = "none" => remote'[s][n] = "none"
  BY <1>1, SameRemote
<1>6. NamesDiffer' /\ Unsent'
  <2>1. \A d \in Copier : copy'[d].at \in Sending =>
           /\ copy[d].at \in Sending /\ copy'[d].name = copy[d].name
           /\ copy'[d].at = "upload" => copy[d].at = "upload"
    BY <1>3, <1>4 DEF Sending
  <2> QED BY <1>5, <2>1, NamesStay
<1>7. \A n \in old : Backed(remote[copy[c].snap.server], n)
  BY <1>2, OldIsBacked DEF CopiesSafe
<1>8. CopiesSafe'
  <2>1. \A d \in Copier : copy'[d].at = "prune" =>
           \A n \in copy'[d].old : Backed(remote[copy'[d].snap.server], n)
    BY <1>3, <1>4, <1>7 DEF CopiesSafe
  <2> QED BY <1>1, <2>1 DEF CopiesSafe
<1> QED BY <1>5, <1>6, <1>8

LEMMA CopyPrunesSafe ==
    ASSUME Types, NamesDiffer, Unsent, CopiesSafe, NEW c \in Copier, CopyPrunes(c),
           UNCHANGED <<disk, task>>
    PROVE  NamesDiffer' /\ Unsent' /\ CopiesSafe' /\ \A s \in Server : Keeps(remote[s], remote'[s])
<1> DEFINE server == copy[c].snap.server
           files == remote[server]
           left == {n \in copy[c].old : files[n] # "none"}
<1>1. copy[c].at = "prune"
  BY DEF CopyPrunes
<1>2. copy[c] \in CopyState /\ server \in Server /\ files \in [Name -> Content]
  BY <1>1 DEF Types, OffsiteTypeOK, CopyShape, Target
<1>3. CASE left = {}
  <2> DEFINE state == [copy[c] EXCEPT !.at = "record", !.old = {}]
  <2>1. CopyAt(c, state) /\ UNCHANGED remote
    BY <1>3 DEF CopyPrunes
  <2>2. state.at = "record"
    BY <1>2 DEF CopyState
  <2> HIDE DEF state
  <2> QED BY <2>1, <2>2, CopyGoesOn
<1>4. CASE left # {}
  <2>1. PICK n \in left : remote' = [remote EXCEPT ![server] = Torn(files, n)]
    BY <1>4 DEF CopyPrunes
  <2>2. UNCHANGED copy
    BY <1>4 DEF CopyPrunes
  <2>3. n \in Name /\ files[n] # "none" /\ Backed(files, n)
    BY <1>1, <1>2 DEF CopyState, CopiesSafe
  <2>4. \A s \in Server : remote'[s] = IF s = server THEN Torn(files, n) ELSE remote[s]
    BY <2>1 DEF Types, OffsiteTypeOK
  <2>5. ASSUME NEW s \in Server
        PROVE  Keeps(remote[s], remote'[s])
    <3>1. CASE s = server
      BY <1>2, <2>3, <2>4, <3>1, TornKeeps
    <3>2. CASE s # server
      BY <2>4, <3>2, FilesTypes, SameKeeps
    <3> QED BY <3>1, <3>2
  <2>6. ASSUME NEW s \in Server, NEW m \in Name, remote[s][m] = "none"
        PROVE  remote'[s][m] = "none"
    <3>1. CASE s = server
      <4>1. m # n
        BY <2>3, <2>6, <3>1
      <4> QED BY <1>2, <2>3, <2>4, <2>6, <3>1, <4>1, TornType
    <3>2. CASE s # server
      BY <2>4, <2>6, <3>2
    <3> QED BY <3>1, <3>2
  <2> HIDE DEF left, files, server
  <2>7. NamesDiffer' /\ Unsent'
    <3>1. \A d \in Copier : copy'[d].at \in Sending =>
             /\ copy[d].at \in Sending /\ copy'[d].name = copy[d].name
             /\ copy'[d].at = "upload" => copy[d].at = "upload"
      BY <2>2
    <3> QED BY <2>6, <3>1, NamesStay
  <2>8. CopiesSafe'
    BY <2>2, <2>5, CopiesStay
  <2> QED BY <2>5, <2>7, <2>8
<1> QED BY <1>3, <1>4

LEMMA CopyStepSafe ==
    ASSUME Types, NamesDiffer, Unsent, CopiesSafe, NEW c \in Copier,
           CopyStep(c) \/ CopyDrops(c), UNCHANGED <<disk, task>>
    PROVE  NamesDiffer' /\ Unsent' /\ CopiesSafe' /\ \A s \in Server : Keeps(remote[s], remote'[s])
<1>c. copy[c] \in CopyState
  BY DEF Types, OffsiteTypeOK
<1>r. ASSUME CopyAt(c, Refused(c, copy[c])) \/ CopyAt(c, Refused(c, [copy[c] EXCEPT !.old = {}])),
             UNCHANGED remote
      PROVE  NamesDiffer' /\ Unsent' /\ CopiesSafe' /\ \A s \in Server : Keeps(remote[s], remote'[s])
  <2>1. Refused(c, copy[c]).at = "record" /\ Refused(c, [copy[c] EXCEPT !.old = {}]).at = "record"
    BY <1>c DEF Refused, CopyState
  <2> QED BY <1>r, <2>1, CopyGoesOn
<1>1. CASE CopyUploads(c)
  <2>1. CASE LogsIn(c)
    <3> DEFINE state == [copy[c] EXCEPT !.at = "rename"]
    <3>1. state.at = "rename" /\ state.name = copy[c].name
      BY <1>c DEF CopyState
    <3>2. CopyAt(c, state) /\ Put(c, copy[c].name, "partial") /\ copy[c].at = "upload"
      BY <1>1, <2>1 DEF CopyUploads
    <3> HIDE DEF state
    <3> QED BY <3>1, <3>2, CopyPuts
  <2>2. CASE ~LogsIn(c)
    BY <1>1, <1>r, <2>2 DEF CopyUploads
  <2> QED BY <2>1, <2>2
<1>2. CASE CopyRenames(c)
  <2> DEFINE state == [copy[c] EXCEPT !.at = "list"]
  <2>1. state.at = "list" /\ state.name = copy[c].name
    BY <1>c DEF CopyState
  <2>2. CopyAt(c, state) /\ Put(c, copy[c].name, "whole") /\ copy[c].at = "rename"
    BY <1>2 DEF CopyRenames
  <2> HIDE DEF state
  <2> QED BY <2>1, <2>2, CopyPuts
<1>3. CASE CopyLists(c)
  <2>1. CASE LogsIn(c)
    BY <1>3, <2>1, CopyListsSafe
  <2>2. CASE ~LogsIn(c)
    BY <1>3, <1>r, <2>2 DEF CopyLists
  <2> QED BY <2>1, <2>2
<1>4. CASE CopyPrunes(c)
  BY <1>4, CopyPrunesSafe
<1>5. CASE CopyRecords(c)
  <2> DEFINE state == [copy[c] EXCEPT !.at = "save", !.snap = target]
  <2>1. state.at = "save" /\ IdleCopy.at = "idle"
    BY <1>c DEF CopyState, IdleCopy
  <2>2. (CopyAt(c, state) \/ CopyAt(c, IdleCopy)) /\ UNCHANGED remote
    BY <1>5 DEF CopyRecords
  <2> HIDE DEF state
  <2> QED BY <2>1, <2>2, CopyGoesOn
<1>6. CASE CopySaves(c)
  <2>1. IdleCopy.at = "idle" /\ CopyAt(c, IdleCopy) /\ UNCHANGED remote
    BY <1>6 DEF CopySaves, IdleCopy
  <2> QED BY <2>1, CopyGoesOn
<1>7. CASE CopyDrops(c)
  BY <1>7, <1>r DEF CopyDrops
<1> QED BY <1>1, <1>2, <1>3, <1>4, <1>5, <1>6, <1>7 DEF CopyStep

\* The finished backup goes from its task to a copy.
LEMMA CopyStartsSafe ==
    ASSUME Types, NamesDiffer, Unsent, CopiesSafe, NEW t \in Copier, CopyStarts(t)
    PROVE  NamesDiffer' /\ Unsent' /\ CopiesSafe' /\ \A s \in Server : Keeps(remote[s], remote'[s])
<1>1. /\ t \in Task /\ task[t].at = "copy" /\ task' = [task EXCEPT ![t] = IdleTask]
      /\ UNCHANGED disk
  BY DEF CopyStarts, Task
<1>2. \A x \in Task : task'[x] = IF x = t THEN IdleTask ELSE task[x]
  BY <1>1 DEF Types, BackupTypes
<1>3. \A x \in Task : task'[x].at \in HandedOver =>
         x # t /\ task[x].at \in HandedOver /\ task'[x].name = task[x].name
  BY <1>2 DEF IdleTask, HandedOver
<1>4. CASE target = None
  <2>1. UNCHANGED <<remote, copy>>
    BY <1>4 DEF CopyStarts, offsiteVars
  <2>2. /\ \A s \in Server : Keeps(remote[s], remote'[s])
        /\ \A s \in Server, n \in Name : remote[s][n] = "none" => remote'[s][n] = "none"
    BY <2>1, SameRemote
  <2>3. NamesDiffer' /\ Unsent'
    BY <1>1, <1>3, <2>1, <2>2, NamesStay
  <2>4. CopiesSafe'
    BY <2>1, <2>2, CopiesStay
  <2> QED BY <2>2, <2>3, <2>4
<1>5. CASE target # None
  <2> DEFINE n == task[t].name
             state == [IdleCopy EXCEPT !.at = IF target.connected THEN "upload" ELSE "record",
                                       !.name = n, !.snap = target]
  <2>1. copy[t].at = "idle" /\ CopyAt(t, state) /\ UNCHANGED remote
    BY <1>5 DEF CopyStarts, CopyBegins
  <2>2. state.at \in {"upload", "record"} /\ state.name = n
    BY DEF IdleCopy
  <2>3. /\ n \in DOMAIN disk
        /\ \A s \in Server : remote[s][n] = "none"
        /\ \A x \in Task \ {t} : task[x].at \in HandedOver => task[x].name # n
        /\ \A d \in Copier : copy[d].at \in Sending => copy[d].name # n
    BY <1>1 DEF Types, TaskShape, HandedOver, Unsent, NamesDiffer
  <2> HIDE DEF state, n
  <2>4. \A d \in Copier : copy'[d] = IF d = t THEN state ELSE copy[d]
    BY <2>1, CopyAtDoes
  <2>5. \A s \in Server : Keeps(remote[s], remote'[s])
    BY <2>1, SameRemote
  <2>6. CopiesSafe'
    <3>1. \A d \in Copier : copy'[d].at = "prune" =>
             /\ copy[d].at = "prune" /\ copy'[d].old \subseteq copy[d].old
             /\ copy'[d].snap = copy[d].snap
      BY <2>2, <2>4
    <3> QED BY <2>5, <3>1, CopiesStay
  <2>7. /\ \A d \in Copier : copy'[d].at \in Sending =>
              IF d = t THEN copy'[d].name = n
              ELSE copy[d].at \in Sending /\ copy'[d].name = copy[d].name
        /\ \A d \in Copier : copy'[d].at = "upload" =>
              IF d = t THEN copy'[d].name = n
              ELSE copy[d].at = "upload" /\ copy'[d].name = copy[d].name
    BY <2>2, <2>4
  <2>8. NamesDiffer'
    <3>1. \A x, y \in Task :
             task'[x].at \in HandedOver /\ task'[y].at \in HandedOver
                /\ task'[x].name = task'[y].name => x = y
      BY <1>3 DEF NamesDiffer
    <3>2. \A c, d \in Copier :
             copy'[c].at \in Sending /\ copy'[d].at \in Sending
                /\ copy'[c].name = copy'[d].name => c = d
      BY <2>3, <2>7 DEF NamesDiffer
    <3>3. \A x \in Task, c \in Copier :
             task'[x].at \in HandedOver /\ copy'[c].at \in Sending =>
                task'[x].name # copy'[c].name
      BY <1>3, <2>3, <2>7 DEF NamesDiffer
    <3>4. \A c \in Copier : copy'[c].at \in Sending => copy'[c].name \in DOMAIN disk'
      BY <1>1, <2>3, <2>7 DEF NamesDiffer
    <3> QED BY <3>1, <3>2, <3>3, <3>4 DEF NamesDiffer
  <2>9. Unsent'
    BY <1>1, <1>3, <2>1, <2>3, <2>7 DEF Unsent
  <2> QED BY <2>5, <2>6, <2>8, <2>9
<1> QED BY <1>4, <1>5

LEMMA NewNameSafe ==
    ASSUME Types, Types', NamesDiffer, Unsent, CopiesSafe, NEW t \in Task, TakeBegins(t)
    PROVE  NamesDiffer' /\ Unsent' /\ CopiesSafe' /\ \A s \in Server : Keeps(remote[s], remote'[s])
<1>1. UNCHANGED <<remote, copy>> /\ task[t].at = "begun"
  BY DEF TakeBegins, offsiteVars
<1>2. /\ \A s \in Server : Keeps(remote[s], remote'[s])
      /\ \A s \in Server, n \in Name : remote[s][n] = "none" => remote'[s][n] = "none"
  BY <1>1, SameRemote
<1>3. CopiesSafe'
  BY <1>1, <1>2, CopiesStay
<1>4. CASE ~LockFree(t)
  <2>1. Go(t, "fail") /\ UNCHANGED disk
    BY <1>4 DEF TakeBegins
  <2>2. \A x \in Task : task'[x].at \in HandedOver =>
           task[x].at \in HandedOver /\ task'[x].name = task[x].name
    BY <2>1, GoDoes DEF HandedOver
  <2> QED BY <1>1, <1>2, <1>3, <2>1, <2>2, NamesStay
<1>5. CASE LockFree(t)
  <2> DEFINE id == Len(disk) + 1
  <2>1. DOMAIN disk \subseteq DOMAIN disk' /\ id \in Name \ DOMAIN disk
    BY <1>5, WritingBegins
  <2>2. \A x \in Task : task'[x].at \in HandedOver =>
           IF x = t THEN task'[x].name = id
           ELSE task[x].at \in HandedOver /\ task'[x].name = task[x].name
    BY <1>5, WritingBegins
  <2> HIDE DEF id
  <2>3. /\ \A x \in Task : task[x].at \in HandedOver => task[x].name # id
        /\ \A c \in Copier : copy[c].at \in Sending => copy[c].name # id
    BY <2>1 DEF Types, TaskShape, HandedOver, NamesDiffer
  <2>4. NamesDiffer'
    <3>1. \A x, y \in Task :
             task'[x].at \in HandedOver /\ task'[y].at \in HandedOver
                /\ task'[x].name = task'[y].name => x = y
      BY <2>2, <2>3 DEF NamesDiffer
    <3>2. \A x \in Task, c \in Copier :
             task'[x].at \in HandedOver /\ copy'[c].at \in Sending =>
                task'[x].name # copy'[c].name
      BY <1>1, <2>2, <2>3 DEF NamesDiffer
    <3>3. \A c \in Copier : copy'[c].at \in Sending => copy'[c].name \in DOMAIN disk'
      BY <1>1, <2>1 DEF NamesDiffer
    <3> QED BY <1>1, <3>1, <3>2, <3>3 DEF NamesDiffer
  <2>5. Unsent'
    BY <1>1, <2>1, <2>2 DEF Unsent
  <2> QED BY <1>2, <1>3, <2>4, <2>5
<1> QED BY <1>4, <1>5

\* Every step keeps the names apart and the copies safe, and touches at most
\* one whole copy on a server, with Keep newer ones whole there.
LEMMA CopiesStep ==
    ASSUME Types, Types', NamesDiffer, Unsent, CopiesSafe, [Next]_vars
    PROVE  NamesDiffer' /\ Unsent' /\ CopiesSafe' /\ \A s \in Server : Keeps(remote[s], remote'[s])
<1> DEFINE Goal == /\ NamesDiffer' /\ Unsent' /\ CopiesSafe'
                   /\ \A s \in Server : Keeps(remote[s], remote'[s])
<1> SUFFICES Goal
  OBVIOUS
<1>0. task \in [Task -> TaskState] /\ copy \in [Copier -> CopyState]
  BY DEF Types, BackupTypes, OffsiteTypeOK
<1>a. ASSUME UNCHANGED remote, DOMAIN disk \subseteq DOMAIN disk',
             \A t \in Task : task'[t].at \in HandedOver =>
                task[t].at \in HandedOver /\ task'[t].name = task[t].name,
             \A c \in Copier : copy'[c] = copy[c] \/ copy'[c] = IdleCopy
      PROVE  Goal
  <2>1. /\ \A s \in Server : Keeps(remote[s], remote'[s])
        /\ \A s \in Server, n \in Name : remote[s][n] = "none" => remote'[s][n] = "none"
    BY <1>a, SameRemote
  <2>2. IdleCopy.at = "idle"
    BY DEF IdleCopy
  <2>3. \A c \in Copier : copy'[c].at \in Sending =>
           /\ copy[c].at \in Sending /\ copy'[c].name = copy[c].name
           /\ copy'[c].at = "upload" => copy[c].at = "upload"
    BY <1>a, <2>2 DEF Sending
  <2>4. NamesDiffer' /\ Unsent'
    BY <1>a, <2>1, <2>3, NamesStay
  <2>5. \A c \in Copier : copy'[c].at = "prune" =>
           /\ copy[c].at = "prune" /\ copy'[c].old \subseteq copy[c].old
           /\ copy'[c].snap = copy[c].snap
    BY <1>a, <2>2
  <2>6. CopiesSafe'
    BY <2>1, <2>5, CopiesStay
  <2> QED BY <2>1, <2>4, <2>6
<1>o. ASSUME UNCHANGED offsiteVars, DOMAIN disk \subseteq DOMAIN disk',
             \A t \in Task : task'[t].at \in HandedOver =>
                task[t].at \in HandedOver /\ task'[t].name = task[t].name
      PROVE  Goal
  BY <1>a, <1>o DEF offsiteVars
<1> HIDE DEF Goal
<1>b. ASSUME NEW t \in Task, NEW id, UNCHANGED <<disk, offsiteVars>>,
             task' = [task EXCEPT ![t].at = "begun", ![t].run = id]
      PROVE  Goal
  <2>1. \A x \in Task : /\ task'[x].at = IF x = t THEN "begun" ELSE task[x].at
                        /\ task'[x].name = task[x].name
    BY <1>0, <1>b DEF TaskState
  <2>2. \A x \in Task : task'[x].at \in HandedOver =>
           task[x].at \in HandedOver /\ task'[x].name = task[x].name
    BY <2>1 DEF HandedOver
  <2> QED BY <1>b, <1>o, <2>2
<1>1. CASE CommandBegins
  BY <1>b, <1>1 DEF CommandBegins, Task
<1>2. ASSUME NEW t \in Copier, DailyBegins(t) \/ ClaimRequest(t)
      PROVE  Goal
  BY <1>b, <1>2 DEF DailyBegins, ClaimRequest, Task
<1>3. ASSUME NEW t \in Task, TakeBegins(t)
      PROVE  Goal
  BY <1>3, NewNameSafe DEF Goal
<1>4. ASSUME NEW t \in Task, TakeCompletes(t) \/ TakeRaises(t)
      PROVE  Goal
  <2>1. PICK content \in {"whole", "none"}, at \in {"list", "fail"} :
           /\ task[t].at = "write"
           /\ disk' = [disk EXCEPT ![task[t].name].state = content]
           /\ Go(t, at)
           /\ UNCHANGED offsiteVars
    BY <1>4 DEF TakeCompletes, TakeRaises
  <2>2. \A x \in Task : task'[x].at \in HandedOver =>
           task[x].at \in HandedOver /\ task'[x].name = task[x].name
    BY <2>1, GoDoes DEF HandedOver
  <2>3. DOMAIN disk' = DOMAIN disk
    BY <2>1
  <2> QED BY <1>o, <2>1, <2>2, <2>3
<1>5. ASSUME NEW t \in Task, PruneLists(t) \/ Prunes(t)
      PROVE  Goal
  <2>1. UNCHANGED offsiteVars /\ DOMAIN disk' = DOMAIN disk
    BY <1>5 DEF PruneLists, Prunes
  <2>2. /\ task[t].at \in HandedOver
        /\ \A x \in Task : /\ x # t => task'[x].at = task[x].at
                           /\ task'[x].name = task[x].name
    BY <1>0, <1>5 DEF PruneLists, Prunes, TaskState, HandedOver
  <2>3. \A x \in Task : task'[x].at \in HandedOver =>
           task[x].at \in HandedOver /\ task'[x].name = task[x].name
    BY <2>2
  <2> QED BY <1>o, <2>1, <2>3
<1>6. ASSUME NEW t \in Task, RunFinishes(t) \/ RunFails(t)
      PROVE  Goal
  <2> DEFINE state == IF RunFinishes(t) /\ t # Command
                      THEN [task[t] EXCEPT !.at = "copy", !.run = 0] ELSE IdleTask
  <2>1. UNCHANGED <<disk, offsiteVars>> /\ task' = [task EXCEPT ![t] = state]
    BY <1>6 DEF RunFinishes, RunFails
  <2>2. state.at \in HandedOver => task[t].at \in HandedOver /\ state.name = task[t].name
    <3>1. task[t] \in TaskState
      BY <1>0
    <3> QED BY <1>6, <3>1 DEF TaskState, IdleTask, RunFinishes, HandedOver
  <2> HIDE DEF state
  <2>3. \A x \in Task : task'[x] = IF x = t THEN state ELSE task[x]
    BY <1>0, <2>1
  <2>4. \A x \in Task : task'[x].at \in HandedOver =>
           task[x].at \in HandedOver /\ task'[x].name = task[x].name
    BY <2>2, <2>3
  <2> QED BY <1>o, <2>1, <2>4
<1>7. ASSUME NEW t \in Copier, CopyStarts(t)
      PROVE  Goal
  BY <1>7, CopyStartsSafe DEF Goal
<1>8. ASSUME NEW c \in Copier, CopyMoves(c) \/ CopyFails(c)
      PROVE  Goal
  BY <1>8, CopyStepSafe DEF Goal, CopyMoves, CopyFails, backupVars
<1>9. ASSUME NEW T \in SUBSET Task, Ends(T)
      PROVE  Goal
  <2>1. DOMAIN disk' = DOMAIN disk /\ UNCHANGED remote
    BY <1>9 DEF Ends
  <2>2. /\ task' = [t \in Task |-> IF t \in T THEN IdleTask ELSE task[t]]
        /\ copy' = [c \in Copier |-> IF c \in T THEN IdleCopy ELSE copy[c]]
    BY <1>9 DEF Ends
  <2>3. \A x \in Task : task'[x].at \in HandedOver =>
           task[x].at \in HandedOver /\ task'[x].name = task[x].name
    BY <2>2 DEF IdleTask, HandedOver
  <2>4. \A c \in Copier : copy'[c] = copy[c] \/ copy'[c] = IdleCopy
    BY <2>2
  <2> QED BY <1>a, <2>1, <2>3, <2>4
<1>10. ASSUME NEW w \in Worker, WorkerEnds(w)
       PROVE  Goal
  <2>1. {t \in Copier : t[1] = w} \in SUBSET Task
    BY DEF Task
  <2> QED BY <1>9, <1>10, <2>1 DEF WorkerEnds
<1>11. CASE CommandKilled
  <2>1. {Command} \in SUBSET Task
    BY DEF Task
  <2> QED BY <1>9, <1>11, <2>1 DEF CommandKilled
<1>12. CASE \/ RequestBackup \/ Tick \/ UNCHANGED vars
            \/ \E r \in RunId : GoesStale(r)
            \/ \E w \in Worker : WorkerStarts(w)
            \/ \E t \in Copier : AbandonStale(t)
  BY <1>o, <1>12 DEF RequestBackup, Tick, vars, GoesStale, WorkerStarts, AbandonStale, backupVars
<1>13. ASSUME NEW r \in Request, OwnerActs(r)
       PROVE  Goal
  <2>1. UNCHANGED <<disk, task, remote, copy>>
    BY <1>13 DEF OwnerActs, RequestStep, ConfigureReads, ConfigureSaves, Remove, OffsiteReads,
                 InstallFetches, InstallPuts, InstallTests, TestLogsIn, TestSaves,
                 RequestTimesOut, backupVars
  <2> QED BY <1>a, <2>1
<1> QED
  BY <1>1, <1>2, <1>3, <1>4, <1>5, <1>6, <1>7, <1>8, <1>10, <1>11, <1>12, <1>13
     DEF Next, TaskStep, CopyTaskStep, Task

LEMMA InitSafe ==
    ASSUME Init
    PROVE  Locked /\ DiskSafe /\ NamesDiffer /\ Unsent /\ CopiesSafe
<1>1. /\ \A t \in Task : task[t] = IdleTask
      /\ \A c \in Copier : copy[c] = IdleCopy
      /\ IdleTask.at = "idle" /\ IdleTask.old = {} /\ IdleCopy.at = "idle"
  BY DEF Init, OffsiteInit, IdleTask, IdleCopy
<1>2. Locked /\ NamesDiffer
  BY <1>1 DEF Locked, NamesDiffer, HandedOver, Sending
<1>3. DiskSafe
  <2>1. \A n \in Name : Files[n] # "torn"
    <3>1. disk = <<>> \/ disk = <<[state |-> "whole", day |-> 0]>>
      BY DEF Init
    <3> QED BY <3>1 DEF Files
  <2> QED BY <1>1, <2>1 DEF DiskSafe, TornBacked
<1>4. /\ \A s \in Server, n \in Name :
            /\ remote[s][n] # "torn"
            /\ remote[s][n] # "none" => target # None /\ n = 1
  BY DEF Init, OffsiteInit
<1>5. target # None => DOMAIN disk = {1}
  BY DEF Init
<1> QED BY <1>1, <1>2, <1>3, <1>4, <1>5 DEF Unsent, CopiesSafe, TornBacked, HandedOver

-----------------------------------------------------------------------------
(* What the target says of the last copy *)

\* The targets somebody holds, and the verdicts in them.
Held == {target} \cup {request[r].snap : r \in Request} \cup {copy[c].snap : c \in Copier}

Verdicts == {t.last : t \in Held \ {None}} \cup {None}

Good(copies, n) == \E s \in Server : copies[s][n] = "whole" \/ Backed(copies[s], n)

VerdictsGood == \A v \in Verdicts : v # None /\ v.ok => Good(remote, v.name)

\* A copy that is renamed, and is not found wanting after, is good.
CopiesGood ==
    \A c \in Copier :
        copy[c].at = "list" \/ (copy[c].at # "idle" /\ copy[c].ok) => Good(remote, copy[c].name)

LEMMA GoodStays ==
    ASSUME \A s \in Server : Keeps(remote[s], remote'[s]), NEW n \in Name, Good(remote, n)
    PROVE  Good(remote', n)
<1>1. PICK s \in Server : remote[s][n] = "whole" \/ Backed(remote[s], n)
  BY DEF Good
<1>2. remote'[s][n] = "whole" \/ Backed(remote'[s], n)
  <2>1. CASE Backed(remote[s], n)
    BY <2>1, KeepsBacked
  <2>2. CASE remote[s][n] = "whole" /\ remote'[s][n] # "whole"
    <3>1. Backed(remote[s], n)
      BY <2>2 DEF Keeps
    <3> QED BY <3>1, KeepsBacked
  <2> QED BY <1>1, <2>1, <2>2
<1> QED BY <1>2 DEF Good

LEMMA VerdictTypes ==
    ASSUME Types
    PROVE  /\ Held \subseteq Target \cup {None}
           /\ Verdicts \subseteq Verdict \cup {None}
           /\ \A v \in Verdict : v.name \in Name
<1>1. target \in Target \cup {None}
  BY DEF Types, OffsiteTypeOK
<1>2. \A r \in Request : request[r].snap \in Target \cup {None}
  BY DEF Types, OffsiteTypeOK, RequestState
<1>3. \A c \in Copier : copy[c].snap \in Target \cup {None}
  BY DEF Types, OffsiteTypeOK, CopyState
<1>4. Held \subseteq Target \cup {None}
  BY <1>1, <1>2, <1>3 DEF Held
<1>5. Verdicts \subseteq Verdict \cup {None}
  BY <1>4 DEF Verdicts, Target
<1> QED BY <1>4, <1>5 DEF Verdict

\* The verdicts after a step are those before it, or good.
LEMMA VerdictsStay ==
    ASSUME Types, VerdictsGood, \A s \in Server : Keeps(remote[s], remote'[s]),
           \A v \in Verdicts' : v \in Verdicts \/ (v.ok => Good(remote', v.name))
    PROVE  VerdictsGood'
<1>1. ASSUME NEW v \in Verdicts, v # None, v.ok
      PROVE  Good(remote', v.name)
  BY <1>1, VerdictTypes, GoodStays DEF VerdictsGood
<1> QED BY <1>1 DEF VerdictsGood

\* What becomes of a target, as far as its verdict goes.
LEMMA LearnedVerdict ==
    ASSUME NEW snap \in Target, snap.last \in Verdicts, Types
    PROVE  Learned(snap) # None => Learned(snap).last \in Verdicts
<1>1. target # None => target.last \in Verdicts
  BY DEF Verdicts, Held
<1>2. [snap EXCEPT !.known = TRUE].last = snap.last
  BY DEF Target
<1> QED BY <1>1, <1>2 DEF Learned

LEMMA HeldVerdicts ==
    /\ target # None => target.last \in Verdicts
    /\ \A r \in Request : request[r].snap # None => request[r].snap.last \in Verdicts
    /\ \A c \in Copier : copy[c].snap # None => copy[c].snap.last \in Verdicts
    /\ None \in Verdicts
BY DEF Verdicts, Held

\* One request moves.
LEMMA RequestVerdicts ==
    ASSUME Types, NEW r \in Request, NEW state, Ask(r, state),
           state.snap # None => state.snap.last \in Verdicts,
           target' # None => target'.last \in Verdicts, UNCHANGED copy
    PROVE  Verdicts' \subseteq Verdicts
<1>1. \A x \in Request : request'[x] = IF x = r THEN state ELSE request[x]
  BY DEF Types, OffsiteTypeOK, Ask
<1>2. \A x \in Request : request'[x].snap # None => request'[x].snap.last \in Verdicts
  BY <1>1, HeldVerdicts
<1>3. \A t \in Held' : t # None => t.last \in Verdicts
  BY <1>2, HeldVerdicts DEF Held
<1> QED BY <1>3, HeldVerdicts DEF Verdicts

\* One copy moves.
LEMMA CopyVerdicts ==
    ASSUME Types, NEW c \in Copier, NEW state, CopyAt(c, state), UNCHANGED request,
           NEW v, state.snap # None => state.snap.last \in Verdicts,
           target' # None => target'.last \in Verdicts \cup {v}
    PROVE  Verdicts' \subseteq Verdicts \cup {v}
<1>1. \A d \in Copier : copy'[d] = IF d = c THEN state ELSE copy[d]
  BY CopyAtDoes
<1>2. \A d \in Copier : copy'[d].snap # None => copy'[d].snap.last \in Verdicts
  BY <1>1, HeldVerdicts
<1>3. \A t \in Held' : t # None => t.last \in Verdicts \cup {v}
  BY <1>2, HeldVerdicts DEF Held
<1> QED BY <1>3, HeldVerdicts DEF Verdicts

LEMMA OwnerVerdicts ==
    ASSUME Types, NEW r \in Request, RequestStep(r), UNCHANGED copy
    PROVE  Verdicts' \subseteq Verdicts
<1> DEFINE snap == request[r].snap
<1>r. request[r] \in RequestState
  BY DEF Types, OffsiteTypeOK
<1>s. snap # None => snap \in Target /\ snap.last \in Verdicts
  BY <1>r, HeldVerdicts DEF RequestState
<1>t. target # None => target \in Target /\ target.last \in Verdicts
  BY HeldVerdicts DEF Types, OffsiteTypeOK
<1>n. None \in Verdicts
  BY HeldVerdicts
<1>i. ASSUME Ask(r, IdleRequest), target' # None => target'.last \in Verdicts
      PROVE  Verdicts' \subseteq Verdicts
  BY <1>i, RequestVerdicts DEF IdleRequest
<1>a. ASSUME NEW at, Ask(r, [request[r] EXCEPT !.at = at]), target' # None => target'.last \in Verdicts
      PROVE  Verdicts' \subseteq Verdicts
  <2> DEFINE state == [request[r] EXCEPT !.at = at]
  <2>1. state.snap = snap
    BY <1>r DEF RequestState
  <2>2. Ask(r, state)
    BY <1>a
  <2> HIDE DEF state
  <2> QED BY <1>a, <1>s, <2>1, <2>2, RequestVerdicts
<1>h. ASSUME request[r].at \in {"fetch", "put", "read", "login", "passed", "refused"}
      PROVE  snap \in Target /\ snap.last \in Verdicts
  <2>1. snap \in Target
    BY <1>h DEF Types, RequestShape
  <2>2. snap # None
    BY <2>1, NoneAssumption
  <2> QED BY <1>s, <2>1, <2>2
<1>1. ASSUME NEW s \in Server, ConfigureReads(r, s)
      PROVE  Verdicts' \subseteq Verdicts
  <2> DEFINE state == [at |-> "configure", snap |-> target, to |-> s, key |-> asks + 1]
  <2>1. Ask(r, state) /\ UNCHANGED target /\ state.snap = target
    BY <1>1 DEF ConfigureReads
  <2> HIDE DEF state
  <2> QED BY <1>t, <2>1, RequestVerdicts
<1>2. CASE ConfigureSaves(r)
  <2>1. target' # None => target'.last \in Verdicts
    <3>1. CASE snap = None
      BY <1>2, <1>n, <3>1 DEF ConfigureSaves
    <3>2. CASE snap # None
      BY <1>2, <1>s, <3>2 DEF ConfigureSaves, Target
    <3> QED BY <3>1, <3>2
  <2> QED BY <1>2, <1>i, <2>1 DEF ConfigureSaves
<1>3. CASE Remove(r)
  <2>1. target' = None /\ UNCHANGED request
    BY <1>3 DEF Remove
  <2> QED BY <2>1 DEF Verdicts, Held
<1>4. ASSUME NEW at \in {"fetch", "login"}, OffsiteReads(r, at)
      PROVE  Verdicts' \subseteq Verdicts
  <2> DEFINE state == [IdleRequest EXCEPT !.at = at, !.snap = target]
  <2>1. Ask(r, state) /\ UNCHANGED target /\ state.snap = target
    BY <1>4 DEF OffsiteReads, IdleRequest
  <2> HIDE DEF state
  <2> QED BY <1>t, <2>1, RequestVerdicts
<1>5. CASE InstallFetches(r)
  <2>1. target' # None => target'.last \in Verdicts
    BY <1>5, <1>h, LearnedVerdict DEF InstallFetches
  <2> QED BY <1>5, <1>a, <2>1 DEF InstallFetches
<1>6. CASE InstallPuts(r)
  BY <1>6, <1>a, <1>t DEF InstallPuts
<1>7. CASE InstallTests(r)
  <2>1. UNCHANGED target
    BY <1>7 DEF InstallTests
  <2>2. CASE target = None
    BY <1>7, <1>i, <1>t, <2>1, <2>2 DEF InstallTests
  <2>3. CASE target # None
    <3> DEFINE state == [IdleRequest EXCEPT !.at = "login", !.snap = target]
    <3>1. Ask(r, state) /\ state.snap = target
      BY <1>7, <2>3 DEF InstallTests, IdleRequest
    <3> HIDE DEF state
    <3> QED BY <1>t, <2>1, <3>1, RequestVerdicts
  <2> QED BY <2>2, <2>3
<1>8. CASE TestLogsIn(r)
  <2>1. target' # None => target'.last \in Verdicts
    BY <1>8, <1>h, <1>t, LearnedVerdict DEF TestLogsIn
  <2>2. PICK at \in {"passed", "refused"} : Ask(r, [request[r] EXCEPT !.at = at])
    BY <1>8 DEF TestLogsIn
  <2> QED BY <1>a, <2>1, <2>2
<1>9. CASE TestSaves(r)
  <2> DEFINE t == Orelse(target, snap)
  <2>1. t \in Target /\ t.last \in Verdicts
    BY <1>9, <1>h, <1>t DEF TestSaves, Orelse
  <2>2. \A b \in BOOLEAN : [t EXCEPT !.connected = b].last = t.last
    BY <2>1 DEF Target
  <2>3. target' = [t EXCEPT !.connected = TRUE] \/ target' = [t EXCEPT !.connected = FALSE]
        \/ target' = target
    BY <1>9 DEF TestSaves
  <2> HIDE DEF t
  <2>4. target' # None => target'.last \in Verdicts
    BY <1>t, <2>1, <2>2, <2>3
  <2> QED BY <1>9, <1>i, <2>4 DEF TestSaves
<1>10. CASE RequestTimesOut(r)
  <2>1. UNCHANGED target
    BY <1>10 DEF RequestTimesOut
  <2>2. CASE request[r].at = "login"
    BY <1>10, <1>a, <1>t, <2>1, <2>2 DEF RequestTimesOut
  <2>3. CASE request[r].at # "login"
    BY <1>10, <1>i, <1>t, <2>1, <2>3 DEF RequestTimesOut
  <2> QED BY <2>2, <2>3
<1> QED BY <1>1, <1>2, <1>3, <1>4, <1>5, <1>6, <1>7, <1>8, <1>9, <1>10 DEF RequestStep

\* One copy moves: what its state and the target say after.
LEMMA CopyAtGood ==
    ASSUME Types, VerdictsGood, CopiesGood, \A s \in Server : Keeps(remote[s], remote'[s]),
           NEW c \in Copier, NEW state, CopyAt(c, state), UNCHANGED request,
           state.snap # None => state.snap.last \in Verdicts,
           target' # None => target'.last \in Verdicts,
           state.at = "list" \/ (state.at # "idle" /\ state.ok) => Good(remote', state.name)
    PROVE  VerdictsGood' /\ CopiesGood'
<1>1. Verdicts' \subseteq Verdicts
  <2>1. target' # None => target'.last \in Verdicts \cup {None}
    OBVIOUS
  <2>2. Verdicts' \subseteq Verdicts \cup {None}
    BY <2>1, CopyVerdicts
  <2> QED BY <2>2, HeldVerdicts
<1>2. VerdictsGood'
  BY <1>1, VerdictsStay
<1>3. \A d \in Copier : copy'[d] = IF d = c THEN state ELSE copy[d]
  BY CopyAtDoes
<1>4. ASSUME NEW d \in Copier, d # c,
             copy[d].at = "list" \/ (copy[d].at # "idle" /\ copy[d].ok)
      PROVE  Good(remote', copy[d].name)
  <2>1. copy[d].name \in Name /\ Good(remote, copy[d].name)
    BY <1>4 DEF CopiesGood, Types, CopyShape
  <2> QED BY <2>1, GoodStays
<1>5. CopiesGood'
  BY <1>3, <1>4 DEF CopiesGood
<1> QED BY <1>2, <1>5

LEMMA CopyStepGood ==
    ASSUME Types, VerdictsGood, CopiesGood, \A s \in Server : Keeps(remote[s], remote'[s]),
           NEW c \in Copier, CopyStep(c) \/ CopyDrops(c), UNCHANGED request
    PROVE  VerdictsGood' /\ CopiesGood'
<1> DEFINE snap == copy[c].snap
           name == copy[c].name
<1>c. copy[c] \in CopyState
  BY DEF Types, OffsiteTypeOK
<1>s. copy[c].at # "idle" =>
         name \in Name /\ snap \in Target /\ snap # None /\ snap.last \in Verdicts
  <2>1. copy[c].at # "idle" => name \in Name /\ snap \in Target
    BY DEF Types, CopyShape
  <2>2. copy[c].at # "idle" => snap # None
    BY <2>1, NoneAssumption
  <2> QED BY <2>1, <2>2, HeldVerdicts
<1>t. target # None => target.last \in Verdicts
  BY HeldVerdicts
<1>l. copy[c].at # "idle" => (Learned(snap) # None => Learned(snap).last \in Verdicts)
  BY <1>s, LearnedVerdict
<1>g. ASSUME copy[c].at = "list" \/ (copy[c].at # "idle" /\ copy[c].ok)
      PROVE  Good(remote', name)
  BY <1>g, <1>s, GoodStays DEF CopiesGood
<1>a. ASSUME copy[c].at # "idle", NEW state, CopyAt(c, state),
             state.name = name, state.snap = snap,
             state.at = "list" \/ state.ok => Good(remote', name),
             target' # None => target'.last \in Verdicts
      PROVE  VerdictsGood' /\ CopiesGood'
  BY <1>a, <1>s, CopyAtGood
<1>r. ASSUME copy[c].at # "idle", UNCHANGED target,
             CopyAt(c, Refused(c, copy[c])) \/ CopyAt(c, Refused(c, [copy[c] EXCEPT !.old = {}]))
      PROVE  VerdictsGood' /\ CopiesGood'
  <2>1. ASSUME NEW state \in {Refused(c, copy[c]), Refused(c, [copy[c] EXCEPT !.old = {}])}
        PROVE  state.name = name /\ state.snap = snap /\ state.at = "record" /\ state.ok = FALSE
    BY <1>c, <2>1 DEF Refused, CopyState
  <2>2. PICK state \in {Refused(c, copy[c]), Refused(c, [copy[c] EXCEPT !.old = {}])} :
           CopyAt(c, state)
    BY <1>r
  <2> QED BY <1>a, <1>r, <1>t, <2>1, <2>2
<1>1. CASE CopyUploads(c)
  <2>1. CASE LogsIn(c)
    <3> DEFINE state == [copy[c] EXCEPT !.at = "rename"]
    <3>1. copy[c].at = "upload" /\ UNCHANGED target /\ CopyAt(c, state)
      BY <1>1, <2>1 DEF CopyUploads
    <3>2. state.name = name /\ state.snap = snap /\ state.at = "rename" /\ state.ok = copy[c].ok
      BY <1>c DEF CopyState
    <3> HIDE DEF state
    <3> QED BY <1>a, <1>g, <1>t, <3>1, <3>2
  <2>2. CASE ~LogsIn(c)
    BY <1>1, <1>r, <2>2 DEF CopyUploads
  <2> QED BY <2>1, <2>2
<1>2. CASE CopyRenames(c)
  <2> DEFINE state == [copy[c] EXCEPT !.at = "list"]
  <2>1. /\ copy[c].at = "rename" /\ target' = Learned(snap)
        /\ CopyAt(c, state) /\ Put(c, name, "whole")
    BY <1>2 DEF CopyRenames
  <2>2. state.name = name /\ state.snap = snap
    BY <1>c DEF CopyState
  <2>3. Good(remote', name)
    <3>1. snap.server \in Server /\ remote'[snap.server][name] = "whole"
      BY <2>1, PutDoes
    <3> QED BY <3>1 DEF Good
  <2> HIDE DEF state
  <2> QED BY <1>a, <1>l, <2>1, <2>2, <2>3
<1>3. CASE CopyLists(c)
  <2>1. CASE LogsIn(c)
    <3> DEFINE old == Old(remote[snap.server])
               state == [copy[c] EXCEPT !.at = IF old = {} THEN "record" ELSE "prune",
                                        !.old = old, !.ok = TRUE]
    <3>1. copy[c].at = "list" /\ target' = Learned(snap) /\ CopyAt(c, state)
      BY <1>3, <2>1 DEF CopyLists
    <3> HIDE DEF old
    <3>2. state.name = name /\ state.snap = snap
      BY <1>c DEF CopyState
    <3> HIDE DEF state
    <3> QED BY <1>a, <1>g, <1>l, <3>1, <3>2
  <2>2. CASE ~LogsIn(c)
    BY <1>3, <1>r, <2>2 DEF CopyLists
  <2> QED BY <2>1, <2>2
<1>4. CASE CopyPrunes(c)
  <2> DEFINE state == [copy[c] EXCEPT !.at = "record", !.old = {}]
  <2>1. /\ copy[c].at = "prune" /\ UNCHANGED target
        /\ CopyAt(c, state) \/ UNCHANGED copy
    BY <1>4 DEF CopyPrunes
  <2>2. state.name = name /\ state.snap = snap /\ state.at = "record" /\ state.ok = copy[c].ok
    BY <1>c DEF CopyState
  <2> HIDE DEF state
  <2>3. CASE UNCHANGED copy
    <3>1. Verdicts' = Verdicts
      BY <2>1, <2>3 DEF Verdicts, Held
    <3>2. \A d \in Copier : copy[d].at = "list" \/ (copy[d].at # "idle" /\ copy[d].ok) =>
             Good(remote', copy[d].name)
      BY GoodStays DEF CopiesGood, Types, CopyShape
    <3> QED BY <2>3, <3>1, <3>2, VerdictsStay DEF CopiesGood
  <2>4. CASE CopyAt(c, state)
    BY <1>a, <1>g, <1>t, <2>1, <2>2, <2>4
  <2> QED BY <2>1, <2>3, <2>4
<1>5. CASE CopyRecords(c)
  <2> DEFINE state == IF target = None THEN IdleCopy
                      ELSE [copy[c] EXCEPT !.at = "save", !.snap = target]
  <2>1. CopyAt(c, state) /\ copy[c].at = "record" /\ UNCHANGED target
    BY <1>5 DEF CopyRecords
  <2>2. /\ state.snap # None => state.snap.last \in Verdicts
        /\ state.at # "list"
        /\ state.at # "idle" /\ state.ok => copy[c].ok /\ state.name = name
    BY <1>c, <1>t DEF CopyState, IdleCopy
  <2> HIDE DEF state
  <2> QED BY <1>g, <1>t, <2>1, <2>2, CopyAtGood
<1>6. CASE CopySaves(c)
  <2> DEFINE v == [name |-> name, ok |-> copy[c].ok]
  <2>1. /\ copy[c].at = "save" /\ CopyAt(c, IdleCopy) /\ target' = [snap EXCEPT !.last = v]
    BY <1>6 DEF CopySaves
  <2>2. target'.last = v
    BY <1>s, <2>1 DEF Target
  <2>3. IdleCopy.snap = None /\ IdleCopy.at = "idle"
    BY DEF IdleCopy
  <2>4. Verdicts' \subseteq Verdicts \cup {v}
    <3> HIDE DEF v
    <3> QED BY <2>1, <2>2, <2>3, CopyVerdicts
  <2>5. v.ok => Good(remote', v.name)
    BY <1>g, <2>1
  <2> HIDE DEF v
  <2>6. VerdictsGood'
    BY <2>4, <2>5, VerdictsStay
  <2>7. \A d \in Copier : copy'[d] = IF d = c THEN IdleCopy ELSE copy[d]
    BY <2>1, CopyAtDoes
  <2>8. \A d \in Copier : copy[d].at = "list" \/ (copy[d].at # "idle" /\ copy[d].ok) =>
           Good(remote', copy[d].name)
    BY GoodStays DEF CopiesGood, Types, CopyShape
  <2>9. CopiesGood'
    BY <2>3, <2>7, <2>8 DEF CopiesGood
  <2> QED BY <2>6, <2>9
<1>7. CASE CopyDrops(c)
  BY <1>7, <1>r DEF CopyDrops
<1> QED BY <1>1, <1>2, <1>3, <1>4, <1>5, <1>6, <1>7 DEF CopyStep

\* Every step leaves only verdicts that are so.
LEMMA GoodStep ==
    ASSUME Types, VerdictsGood, CopiesGood, \A s \in Server : Keeps(remote[s], remote'[s]),
           [Next]_vars
    PROVE  VerdictsGood' /\ CopiesGood'
<1>s. \A c \in Copier : copy[c].at = "list" \/ (copy[c].at # "idle" /\ copy[c].ok) =>
         Good(remote', copy[c].name)
  BY GoodStays DEF CopiesGood, Types, CopyShape
<1>a. ASSUME UNCHANGED <<target, request>>,
             \A c \in Copier : copy'[c] = copy[c] \/ copy'[c] = IdleCopy
      PROVE  VerdictsGood' /\ CopiesGood'
  <2>1. IdleCopy.at = "idle" /\ IdleCopy.snap = None
    BY DEF IdleCopy
  <2>2. \A t \in Held' : t # None => t.last \in Verdicts
    BY <1>a, <2>1, HeldVerdicts DEF Held
  <2>3. Verdicts' \subseteq Verdicts
    BY <2>2, HeldVerdicts DEF Verdicts
  <2> QED BY <1>a, <1>s, <2>1, <2>3, VerdictsStay DEF CopiesGood
<1>o. ASSUME UNCHANGED offsiteVars
      PROVE  VerdictsGood' /\ CopiesGood'
  BY <1>a, <1>o DEF offsiteVars
<1>1. CASE \/ RequestBackup \/ CommandBegins \/ Tick \/ UNCHANGED vars
           \/ \E t \in Task : TaskStep(t) \/ TakeRaises(t)
           \/ \E t \in Copier : DailyBegins(t) \/ AbandonStale(t) \/ ClaimRequest(t)
           \/ \E w \in Worker : WorkerStarts(w)
           \/ \E r \in RunId : GoesStale(r)
  <2>1. UNCHANGED offsiteVars
    BY <1>1 DEF RequestBackup, CommandBegins, Tick, vars, TaskStep, TakeBegins, TakeCompletes,
                TakeRaises, PruneLists, Prunes, RunFinishes, RunFails, DailyBegins,
                AbandonStale, ClaimRequest, WorkerStarts, GoesStale
  <2> QED BY <1>o, <2>1
<1>2. ASSUME NEW t \in Copier, CopyStarts(t)
      PROVE  VerdictsGood' /\ CopiesGood'
  <2>1. CASE target = None
    BY <1>2, <1>o, <2>1 DEF CopyStarts
  <2>2. CASE target # None
    <3> DEFINE state == [IdleCopy EXCEPT !.at = IF target.connected THEN "upload" ELSE "record",
                                         !.name = task[t].name, !.snap = target]
    <3>1. CopyAt(t, state) /\ UNCHANGED <<target, request>>
      BY <1>2, <2>2 DEF CopyStarts, CopyBegins
    <3>2. state.snap = target /\ state.at # "list" /\ state.ok = FALSE
      BY DEF IdleCopy
    <3> HIDE DEF state
    <3> QED BY <3>1, <3>2, HeldVerdicts, CopyAtGood
  <2> QED BY <2>1, <2>2
<1>3. ASSUME NEW c \in Copier, CopyMoves(c) \/ CopyFails(c)
      PROVE  VerdictsGood' /\ CopiesGood'
  <2>1. (CopyStep(c) \/ CopyDrops(c)) /\ UNCHANGED request
    BY <1>3 DEF CopyMoves, CopyFails, CopyStep, CopyUploads, CopyRenames, CopyLists, CopyPrunes,
                CopyRecords, CopySaves, CopyDrops
  <2> QED BY <2>1, CopyStepGood
<1>4. ASSUME NEW T, Ends(T)
      PROVE  VerdictsGood' /\ CopiesGood'
  <2>1. \A c \in Copier : copy'[c] = copy[c] \/ copy'[c] = IdleCopy
    BY <1>4 DEF Ends
  <2> QED BY <1>4, <1>a, <2>1 DEF Ends
<1>5. ASSUME NEW w \in Worker, WorkerEnds(w)
      PROVE  VerdictsGood' /\ CopiesGood'
  BY <1>4, <1>5 DEF WorkerEnds
<1>6. CASE CommandKilled
  BY <1>4, <1>6 DEF CommandKilled
<1>7. ASSUME NEW r \in Request, OwnerActs(r)
      PROVE  VerdictsGood' /\ CopiesGood'
  <2>1. UNCHANGED copy
    BY <1>7 DEF OwnerActs, RequestStep, ConfigureReads, ConfigureSaves, Remove, OffsiteReads,
                InstallFetches, InstallPuts, InstallTests, TestLogsIn, TestSaves,
                RequestTimesOut
  <2>2. Verdicts' \subseteq Verdicts
    BY <1>7, <2>1, OwnerVerdicts DEF OwnerActs
  <2>3. VerdictsGood'
    BY <2>2, VerdictsStay
  <2>4. CopiesGood'
    BY <1>s, <2>1 DEF CopiesGood
  <2> QED BY <2>3, <2>4
<1> QED
  BY <1>1, <1>2, <1>3, <1>5, <1>6, <1>7 DEF Next, CopyTaskStep

\* The backups and their copies, all that is known of them.
Safe ==
    /\ Types /\ Locked
    /\ DiskSafe
    /\ NamesDiffer /\ Unsent /\ CopiesSafe
    /\ VerdictsGood /\ CopiesGood

LEMMA InitIsSafe == Init => Safe
<1> SUFFICES ASSUME Init PROVE Safe
  OBVIOUS
<1>1. Types /\ Locked /\ DiskSafe /\ NamesDiffer /\ Unsent /\ CopiesSafe
  BY InitTypes, InitSafe
<1>2. /\ target = None \/ target.last = None
      /\ \A r \in Request : request[r].snap = None
      /\ \A c \in Copier : copy[c].snap = None /\ copy[c].at = "idle"
  BY DEF Init, OffsiteInit, IdleRequest, IdleCopy
<1>3. \A v \in Verdicts : v = None
  BY <1>2 DEF Verdicts, Held
<1> QED BY <1>1, <1>2, <1>3 DEF Safe, VerdictsGood, CopiesGood

LEMMA StepIsSafe == Safe /\ [Next]_vars => Safe'
<1> SUFFICES ASSUME Safe, [Next]_vars PROVE Safe'
  OBVIOUS
<1>1. Types' /\ Locked'
  BY StepTypes, LockedStays DEF Safe
<1>2. DiskSafe'
  BY <1>1, DiskStep DEF Safe
<1>3. /\ NamesDiffer' /\ Unsent' /\ CopiesSafe'
      /\ \A s \in Server : Keeps(remote[s], remote'[s])
  BY <1>1, CopiesStep DEF Safe
<1>4. VerdictsGood' /\ CopiesGood'
  BY <1>3, GoodStep DEF Safe
<1> QED BY <1>1, <1>2, <1>3, <1>4 DEF Safe

LEMMA AlwaysSafe == Spec => []Safe
BY InitIsSafe, StepIsSafe, PTL DEF Spec

\* What the page says of the last copy is so: a copy recorded as made is whole
\* on a server, or Keep newer ones are, whatever the owner does to the target,
\* however many copies run at once and wherever one is cut off
\* (offsite._record, offsite._prune).
THEOREM BackupsLastCopyIsThere == Spec => []LastCopyIsThere
<1>1. Safe => LastCopyIsThere
  <2> SUFFICES ASSUME Safe, target # None, target.last # None, target.last.ok
               PROVE  \E s \in Server :
                          \/ remote[s][target.last.name] = "whole"
                          \/ Cardinality({m \in Name : /\ m > target.last.name
                                                       /\ remote[s][m] = "whole"}) >= Keep
    BY DEF LastCopyIsThere
  <2>1. target.last \in Verdicts
    BY HeldVerdicts
  <2>2. Good(remote, target.last.name)
    BY <2>1 DEF Safe, VerdictsGood
  <2> QED BY <2>2 DEF Good, Backed, Whole
<1> QED BY <1>1, AlwaysSafe, PTL

\* A backup that was whole, in the backup directory or on a server, is only
\* touched with Keep newer ones whole there: prune runs without the lock,
\* beside a backup that is written and other prunes, counts the half-removed
\* ones too, and may be killed anywhere (backup.prune, offsite._prune).
THEOREM BackupsKeepsEnough == Spec => KeepsEnough
<1> DEFINE BackupKept ==
             \A n \in DOMAIN disk :
                disk[n].state = "whole" /\ disk'[n].state # "whole" =>
                   Cardinality({m \in DOMAIN disk : m > n /\ disk[m].state = "whole"}) >= Keep
           CopyKept ==
             \A s \in Server, n \in Name :
                remote[s][n] = "whole" /\ remote'[s][n] # "whole" =>
                   Cardinality({m \in Name : m > n /\ remote[s][m] = "whole"}) >= Keep
<1>1. Safe /\ Safe' /\ [Next]_vars => BackupKept
  <2> SUFFICES ASSUME Safe, Safe', [Next]_vars, NEW n \in DOMAIN disk,
                      disk[n].state = "whole", disk'[n].state # "whole"
               PROVE  Cardinality({m \in DOMAIN disk : m > n /\ disk[m].state = "whole"}) >= Keep
    OBVIOUS
  <2>1. Keeps(Files, Files') /\ Types /\ Types'
    BY DiskStep DEF Safe
  <2>2. n \in Name /\ Files[n] = "whole"
    BY <2>1, FilesTypes
  <2>3. Files'[n] # "whole"
    BY <2>2 DEF Files
  <2>4. Backed(Files, n)
    BY <2>1, <2>2, <2>3 DEF Keeps
  <2>5. Whole(Files, n) = {m \in DOMAIN disk : m > n /\ disk[m].state = "whole"}
    BY <2>1, FilesTypes DEF Whole
  <2> QED BY <2>4, <2>5 DEF Backed
<1>2. Safe /\ Safe' /\ [Next]_vars => CopyKept
  <2> SUFFICES ASSUME Safe, Safe', [Next]_vars, NEW s \in Server, NEW n \in Name,
                      remote[s][n] = "whole", remote'[s][n] # "whole"
               PROVE  Cardinality({m \in Name : m > n /\ remote[s][m] = "whole"}) >= Keep
    OBVIOUS
  <2>1. Keeps(remote[s], remote'[s])
    BY CopiesStep DEF Safe
  <2> QED BY <2>1 DEF Keeps, Backed, Whole
<1>3. Safe /\ Safe' /\ [Next]_vars => [BackupKept]_vars /\ [CopyKept]_offsiteVars
  BY <1>1, <1>2
<1>4. Safe /\ [Next]_vars => Safe'
  BY StepIsSafe
<1> QED
  BY <1>3, <1>4, InitIsSafe, PTL DEF Spec, KeepsEnough, BackupsKept, CopiesKept
=============================================================================
