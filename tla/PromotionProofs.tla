-------------------------- MODULE PromotionProofs --------------------------
(***************************************************************************)
(* Proofs about module Promotion.  First types: the statements of the      *)
(* deployments table keep the table's type, the ways a task changes keep   *)
(* the task's, and so does every action.  Then what a task nobody          *)
(* interfered with leaves behind (CleanWork, CleanRefresh), from the       *)
(* invariant Undisturbed: two tasks at work are never both alone, the      *)
(* project is one of deployments that succeeded, and a task that is alone  *)
(* knows, at each of its steps, what it has made true of the table, the    *)
(* router's file and the containers (Knows).                               *)
(***************************************************************************)
EXTENDS Promotion, FiniteSetTheorems, WellFoundedInduction, TLAPS

(* Each statement leaves a table (repositories/deployments.py). *)
LEMMA StatementTypes ==
    ASSUME rows \in [Deployment -> Row], NEW d
    PROVE  /\ \A ref \in Ref, trigger \in Trigger :
                 Created(d, ref, trigger) \in [Deployment -> Row]
           /\ \A w \in Worker : Claimed(d, w) \in [Deployment -> Row]
           /\ Reclaimed \in [Deployment -> Row]
           /\ Heartbeat(d) \in [Deployment -> Row]
           /\ MarkedBuilt(d) \in [Deployment -> Row]
           /\ \A c \in Container \cup {None} :
                 MarkedReady(d, c) \in [Deployment -> Row]
           /\ MarkedFailed(d) \in [Deployment -> Row]
           /\ MarkedCancelled(d) \in [Deployment -> Row]
           /\ Superseded(d) \in [Deployment -> Row]
           /\ \A c \in Container \cup {None} :
                 SetContainer(d, c) \in [Deployment -> Row]
<1> USE DEF Row, Status, InFlight, Terminal, Error, Trigger
<1>1. \A ref \in Ref, trigger \in Trigger :
         Created(d, ref, trigger) \in [Deployment -> Row]
  BY BranchAssumption DEF Created, NoRow
<1>2. \A w \in Worker : Claimed(d, w) \in [Deployment -> Row]
  BY ZenonT(40) DEF Claimed
<1>3. Reclaimed \in [Deployment -> Row]
  BY ZenonT(40) DEF Reclaimed
<1>4. Heartbeat(d) \in [Deployment -> Row]
  BY ZenonT(40) DEF Heartbeat
<1>5. MarkedBuilt(d) \in [Deployment -> Row]
  BY ZenonT(40) DEF MarkedBuilt, Built
<1>6. \A c \in Container \cup {None} : MarkedReady(d, c) \in [Deployment -> Row]
  BY ZenonT(40) DEF MarkedReady
<1>7. MarkedFailed(d) \in [Deployment -> Row]
  BY ZenonT(40) DEF MarkedFailed
<1>8. MarkedCancelled(d) \in [Deployment -> Row]
  BY ZenonT(40) DEF MarkedCancelled
<1>9. Superseded(d) \in [Deployment -> Row]
  BY ZenonT(40) DEF Superseded
<1>10. \A c \in Container \cup {None} : SetContainer(d, c) \in [Deployment -> Row]
  BY ZenonT(40) DEF SetContainer
<1> QED BY <1>1, <1>2, <1>3, <1>4, <1>5, <1>6, <1>7, <1>8, <1>9, <1>10

(* The ways a task changes (the locals of one coroutine). *)
LEMMA RestType ==
    ASSUME NEW pc \in PC
    PROVE  Rest(pc) \in Task
BY DEF Rest, Task, Op

LEMMA BecomeType ==
    ASSUME task \in [Actor -> Task], NEW a, NEW t \in Task, Become(a, t)
    PROVE  task' \in [Actor -> Task]
BY DEF Become

LEMMA GotoType ==
    ASSUME task \in [Actor -> Task], NEW a, NEW pc \in PC, Goto(a, pc)
    PROVE  task' \in [Actor -> Task]
BY ZenonT(40) DEF Goto, Task

LEMMA BeginType ==
    ASSUME task \in [Actor -> Task], NEW a, NEW t \in Task, Begin(a, t)
    PROVE  task' \in [Actor -> Task]
BY DEF Begin, Task

LEMMA InterfereType ==
    ASSUME task \in [Actor -> Task], Interfere
    PROVE  task' \in [Actor -> Task]
BY DEF Interfere, Task

LEMMA RaisedType ==
    ASSUME task \in [Actor -> Task], NEW a \in Actor
    PROVE  Raised(a) \in Task
<1>1. "fail" \in PC /\ "idle" \in PC
  BY DEF PC
<1> QED BY <1>1, RestType DEF Raised, Task, Op, Rest

-----------------------------------------------------------------------------
(* What a task's step says about the rest of it: TypeOK alone is not
   inductive, because EnsurePromotable reads the row of the task's
   deployment. *)
TaskShape(a, t) ==
    /\ t.op \in {"deploy", "promote", "queue", "cancel"} => t.d \in Deployment
    /\ t.pc \in {"launch", "health", "attach"} => t.op \in {"deploy", "promote"}
    /\ t.pc \in {"domains", "write"} => t.op \in {"promote", "refresh"}
    /\ t.op = "refresh" =>
          a \in Request /\ t.pc \in {"target", "domains", "write"}
    /\ t.op = "refresh" /\ t.pc # "target" => t.d \in Deployment

Shape == \A a \in Actor : TaskShape(a, task[a])

(* A step that leaves bounds and the project's facts alone has to show the
   types of the table, Docker, the route and the tasks. *)
LEMMA TypeFrame ==
    ASSUME TypeOK, UNCHANGED <<verified, background, bounds>>,
           TableTypeOK',
           docker' \in [Container -> {"unborn", "running", "draining", "gone"}],
           route' \in Deployment \cup {None},
           task' \in [Actor -> Task]
    PROVE  TypeOK'
BY DEF TypeOK, bounds

(* Every step of a promotion keeps the types. *)
LEMMA PromotionStepType ==
    ASSUME TypeOK, Shape, NEW a \in Actor, PromotionStep(a)
    PROVE  TypeOK'
<1> USE DEF TableTypeOK
<1>t. /\ rows \in [Deployment -> Row]
      /\ production \in Deployment \cup {None}
      /\ docker \in [Container -> {"unborn", "running", "draining", "gone"}]
      /\ route \in Deployment \cup {None}
      /\ verified \in BOOLEAN
      /\ task \in [Actor -> Task]
      /\ task[a] \in Task
  BY DEF TypeOK
<1>p. {"idle", "loop", "fail", "serve", "launch", "health", "attach",
       "domains", "write", "point", "reread", "reclaim", "drain", "detach",
       "done", "ready"} \subseteq PC
  BY DEF PC, PromotePC
<1>c. Serving \in PC
  BY <1>p DEF Serving
<1>r. Raised(a) \in Task /\ Rest("idle") \in Task /\ Rest("loop") \in Task
  BY <1>t, <1>p, RaisedType, RestType
<1>1. CASE EnsurePromotable(a)
  <2>1. task[a].d \in Deployment
    BY <1>1 DEF EnsurePromotable, At, Shape, TaskShape
  <2>2. [task[a] EXCEPT !.pc = "serve", !.c = rows[task[a].d].container] \in Task
    BY <2>1, <1>t, <1>p DEF Task, Row
  <2>3. task' \in [Actor -> Task]
    BY <1>1, <2>2, <1>r, <1>t, BecomeType DEF EnsurePromotable
  <2> QED BY <1>1, <2>3, <1>t, TypeFrame DEF EnsurePromotable
<1>2. CASE EnsureServing(a)
  <2>1. [task[a] EXCEPT !.c = None,
            !.pc = IF IsRunning(task[a].c) THEN Serving ELSE "launch"] \in Task
    BY <1>t, <1>p, <1>c DEF Task
  <2>2. task' \in [Actor -> Task]
    BY <1>2, <2>1, <1>t, BecomeType DEF EnsureServing
  <2> QED BY <1>2, <2>2, <1>t, TypeFrame DEF EnsureServing
<1>3. CASE LaunchRun(a)
  <2>1. PICK c \in Container :
           /\ docker' = [RemovedByName(task[a].d) EXCEPT ![c] = "running"]
           /\ Become(a, [task[a] EXCEPT !.pc = "health", !.c = c])
    BY <1>3 DEF LaunchRun
  <2>2. [task[a] EXCEPT !.pc = "health", !.c = c] \in Task
    BY <1>t, <1>p DEF Task
  <2>3. task' \in [Actor -> Task]
    BY <2>1, <2>2, <1>t, BecomeType
  <2>4. docker' \in [Container -> {"unborn", "running", "draining", "gone"}]
    BY <2>1, <1>t DEF RemovedByName
  <2> QED BY <1>3, <2>3, <2>4, <1>t, TypeFrame DEF LaunchRun
<1>4. CASE LaunchRefused(a)
  <2>1. task' \in [Actor -> Task]
    BY <1>4, <1>r, <1>t, BecomeType DEF LaunchRefused
  <2>2. docker' \in [Container -> {"unborn", "running", "draining", "gone"}]
    BY <1>4, <1>t DEF LaunchRefused, RemovedByName
  <2> QED BY <1>4, <2>1, <2>2, <1>t, TypeFrame DEF LaunchRefused
<1>5. CASE HealthPasses(a)
  <2>1. task' \in [Actor -> Task]
    BY <1>5, <1>p, <1>t, GotoType DEF HealthPasses
  <2> QED BY <1>5, <2>1, <1>t, TypeFrame DEF HealthPasses
<1>6. CASE HealthFails(a)
  <2>1. task' \in [Actor -> Task]
    BY <1>6, <1>r, <1>t, BecomeType DEF HealthFails
  <2>2. docker' \in [Container -> {"unborn", "running", "draining", "gone"}]
    BY <1>6, <1>t DEF HealthFails
  <2> QED BY <1>6, <2>1, <2>2, <1>t, TypeFrame DEF HealthFails
<1>7. CASE Attach(a)
  <2>1. task[a].c \in Container \cup {None}
    BY <1>t DEF Task
  <2>2. rows' \in [Deployment -> Row]
    BY <1>7, <2>1, <1>t, StatementTypes DEF Attach
  <2>3. [task[a] EXCEPT !.pc = Serving, !.c = None] \in Task
    BY <1>t, <1>c DEF Task
  <2>4. task' \in [Actor -> Task]
    BY <1>7, <2>3, <1>p, <1>t, BecomeType, GotoType DEF Attach
  <2> QED BY <1>7, <2>2, <2>4, <1>t, TypeFrame DEF Attach
<1>8. CASE PublishRead(a)
  <2>1. [task[a] EXCEPT !.pc = "write", !.dom = verified] \in Task
    BY <1>t, <1>p DEF Task
  <2>2. task' \in [Actor -> Task]
    BY <1>8, <2>1, <1>t, BecomeType DEF PublishRead
  <2> QED BY <1>8, <2>2, <1>t, TypeFrame DEF PublishRead
<1>9. CASE PublishWrite(a)
  <2>1. [task[a] EXCEPT !.pc = "point", !.dom = FALSE] \in Task
    BY <1>t, <1>p DEF Task
  <2>2. task' \in [Actor -> Task]
    BY <1>9, <2>1, <1>r, <1>t, BecomeType DEF PublishWrite
  <2>3. route' \in Deployment \cup {None}
    BY <1>9, <1>t DEF PublishWrite, Task
  <2> QED BY <1>9, <2>2, <2>3, <1>t, TypeFrame DEF PublishWrite
<1>10. CASE SetProduction(a)
  <2>1. task' \in [Actor -> Task]
    BY <1>10, <1>p, <1>t, GotoType DEF SetProduction
  <2>2. production' \in Deployment \cup {None}
    BY <1>10, <1>t DEF SetProduction, Task
  <2> QED BY <1>10, <2>1, <2>2, <1>t, TypeFrame DEF SetProduction
<1>11. CASE RereadProject(a)
  <2>1. [task[a] EXCEPT !.pc = "reclaim", !.ptr = production] \in Task
    BY <1>t, <1>p DEF Task
  <2>2. task' \in [Actor -> Task]
    BY <1>11, <2>1, <1>t, BecomeType DEF RereadProject
  <2> QED BY <1>11, <2>2, <1>t, TypeFrame DEF RereadProject
<1>12. CASE ReclaimQuery(a)
  <2> DEFINE stale == Reclaimable(Keep, Protected(a))
             todo == {<<d, rows[d].container>> : d \in stale}
  <2>1. todo \subseteq Deployment \X Container
    <3>1. stale \subseteq Resident
      BY DEF Reclaimable
    <3>2. \A d \in Resident : d \in Deployment /\ rows[d].container \in Container
      BY <1>t DEF Resident, Row
    <3> HIDE DEF stale
    <3> QED BY <3>1, <3>2
  <2>2. [task[a] EXCEPT !.todo = todo,
            !.pc = IF stale = {} THEN "done" ELSE "drain", !.ptr = None] \in Task
    <3> HIDE DEF todo, stale
    <3> QED BY <2>1, <1>t, <1>p DEF Task
  <2>3. task' \in [Actor -> Task]
    BY <1>12, <2>2, <1>t, BecomeType DEF ReclaimQuery
  <2> QED BY <1>12, <2>3, <1>t, TypeFrame DEF ReclaimQuery
<1>13. CASE ReclaimDrain(a)
  <2>1. task' \in [Actor -> Task]
    BY <1>13, <1>p, <1>t, GotoType DEF ReclaimDrain
  <2>2. docker' \in [Container -> {"unborn", "running", "draining", "gone"}]
    BY <1>13, <1>t DEF ReclaimDrain, Drained
  <2> QED BY <1>13, <2>1, <2>2, <1>t, TypeFrame DEF ReclaimDrain
<1>14. CASE ReclaimDetach(a)
  <2>1. PICK p \in task[a].todo :
           /\ rows' = SetContainer(p[1], None)
           /\ Become(a, [task[a] EXCEPT !.todo = @ \ {p},
                 !.pc = IF task[a].todo \ {p} = {} THEN "done" ELSE "drain"])
    BY <1>14 DEF ReclaimDetach
  <2>2. [task[a] EXCEPT !.todo = @ \ {p},
            !.pc = IF task[a].todo \ {p} = {} THEN "done" ELSE "drain"] \in Task
    BY <1>t, <1>p DEF Task
  <2>3. task' \in [Actor -> Task]
    BY <2>1, <2>2, <1>t, BecomeType
  <2>4. rows' \in [Deployment -> Row]
    BY <2>1, <1>t, StatementTypes
  <2> QED BY <1>14, <2>3, <2>4, <1>t, TypeFrame DEF ReclaimDetach
<1>15. CASE PromotionDone(a)
  <2>1. task' \in [Actor -> Task]
    BY <1>15, <1>r, <1>t, BecomeType DEF PromotionDone
  <2> QED BY <1>15, <2>1, <1>t, TypeFrame DEF PromotionDone
<1> QED
  BY <1>1, <1>2, <1>3, <1>4, <1>5, <1>6, <1>7, <1>8, <1>9, <1>10, <1>11,
     <1>12, <1>13, <1>14, <1>15 DEF PromotionStep

-----------------------------------------------------------------------------
(* The ways a task changes keep the shape of every task. *)
LEMMA BecomeShape ==
    ASSUME task \in [Actor -> Task], Shape,
           NEW a \in Actor, NEW t, TaskShape(a, t), Become(a, t)
    PROVE  Shape'
BY DEF Shape, Become

LEMMA GotoShape ==
    ASSUME task \in [Actor -> Task], Shape, NEW a \in Actor, NEW pc \in PC,
           Goto(a, pc), TaskShape(a, [task[a] EXCEPT !.pc = pc])
    PROVE  Shape'
BY DEF Shape, Goto

LEMMA BeginShape ==
    ASSUME task \in [Actor -> Task], Shape,
           NEW a \in Actor, NEW t \in Task, TaskShape(a, t), Begin(a, t)
    PROVE  Shape'
BY DEF Shape, Begin, TaskShape, Task

LEMMA InterfereShape ==
    ASSUME task \in [Actor -> Task], Shape, Interfere
    PROVE  Shape'
BY DEF Shape, Interfere, TaskShape, Task

LEMMA RestShape ==
    ASSUME NEW a \in Actor, NEW pc \in {"idle", "down", "loop", "abandoned"}
    PROVE  TaskShape(a, Rest(pc))
BY DEF TaskShape, Rest

LEMMA RaisedShape ==
    ASSUME task \in [Actor -> Task], Shape, NEW a \in Actor,
           task[a].op \in {"deploy", "promote", "refresh"}
    PROVE  TaskShape(a, Raised(a))
<1>1. CASE a \in Worker
  <2>1. task[a].d \in Deployment
    BY <1>1, RequestAssumption DEF Shape, TaskShape
  <2> QED BY <1>1, <2>1 DEF Raised, Rest, TaskShape
<1>2. CASE a \notin Worker
  BY <1>2, RestShape DEF Raised
<1> QED BY <1>1, <1>2

(* Every step of a promotion keeps the shape. *)
LEMMA PromotionStepShape ==
    ASSUME TypeOK, Shape, NEW a \in Actor, PromotionStep(a)
    PROVE  Shape'
<1>t. task \in [Actor -> Task] /\ task[a] \in Task
  BY DEF TypeOK
<1>s. TaskShape(a, task[a])
  BY DEF Shape
<1>p. {"serve", "launch", "health", "attach", "domains", "write", "point",
       "reread", "reclaim", "drain", "detach", "done", "ready"} \subseteq PC
  BY DEF PC, PromotePC
<1>c. Serving \in {"point", "domains"}
  BY DEF Serving
<1>1. CASE EnsurePromotable(a)
  <2>1. TaskShape(a, Raised(a))
    BY <1>1, <1>t, RaisedShape DEF EnsurePromotable, At
  <2>2. TaskShape(a, [task[a] EXCEPT !.pc = "serve",
                                     !.c = rows[task[a].d].container])
    BY <1>1, <1>t, <1>s DEF EnsurePromotable, At, TaskShape, Task
  <2> QED BY <1>1, <2>1, <2>2, <1>t, BecomeShape DEF EnsurePromotable
<1>2. CASE EnsureServing(a)
  <2>1. TaskShape(a, [task[a] EXCEPT !.c = None,
            !.pc = IF IsRunning(task[a].c) THEN Serving ELSE "launch"])
    BY <1>2, <1>t, <1>s, <1>c DEF EnsureServing, At, TaskShape, Task
  <2> QED BY <1>2, <2>1, <1>t, BecomeShape DEF EnsureServing
<1>3. CASE LaunchRun(a)
  <2>1. PICK c \in Container :
           Become(a, [task[a] EXCEPT !.pc = "health", !.c = c])
    BY <1>3 DEF LaunchRun
  <2>2. TaskShape(a, [task[a] EXCEPT !.pc = "health", !.c = c])
    BY <1>3, <1>t, <1>s DEF LaunchRun, TaskShape, Task
  <2> QED BY <2>1, <2>2, <1>t, BecomeShape
<1>4. CASE LaunchRefused(a)
  <2>1. TaskShape(a, Raised(a))
    BY <1>4, <1>t, <1>s, RaisedShape DEF LaunchRefused, TaskShape
  <2> QED BY <1>4, <2>1, <1>t, BecomeShape DEF LaunchRefused
<1>5. CASE HealthPasses(a)
  <2>1. TaskShape(a, [task[a] EXCEPT !.pc = "attach"])
    BY <1>5, <1>t, <1>s DEF HealthPasses, TaskShape, Task
  <2> QED BY <1>5, <2>1, <1>t, <1>p, GotoShape DEF HealthPasses
<1>6. CASE HealthFails(a)
  <2>1. TaskShape(a, Raised(a))
    BY <1>6, <1>t, <1>s, RaisedShape DEF HealthFails, TaskShape
  <2> QED BY <1>6, <2>1, <1>t, BecomeShape DEF HealthFails
<1>7. CASE Attach(a)
  <2>1. TaskShape(a, [task[a] EXCEPT !.pc = "ready"])
    BY <1>7, <1>t, <1>s DEF Attach, TaskShape, Task
  <2>2. task[a].op # "deploy" =>
           TaskShape(a, [task[a] EXCEPT !.pc = Serving, !.c = None])
    BY <1>7, <1>t, <1>s, <1>c DEF Attach, TaskShape, Task
  <2> QED BY <1>7, <2>1, <2>2, <1>t, <1>p, GotoShape, BecomeShape DEF Attach
<1>8. CASE PublishRead(a)
  <2>1. TaskShape(a, [task[a] EXCEPT !.pc = "write", !.dom = verified])
    BY <1>8, <1>t, <1>s DEF PublishRead, TaskShape, Task
  <2> QED BY <1>8, <2>1, <1>t, BecomeShape DEF PublishRead
<1>9. CASE PublishWrite(a)
  <2>1. task[a].op # "refresh" =>
           TaskShape(a, [task[a] EXCEPT !.pc = "point", !.dom = FALSE])
    BY <1>9, <1>t, <1>s DEF PublishWrite, TaskShape, Task
  <2>2. TaskShape(a, Rest("idle"))
    BY RestShape
  <2> QED BY <1>9, <2>1, <2>2, <1>t, BecomeShape DEF PublishWrite
<1>10. CASE SetProduction(a)
  <2>1. TaskShape(a, [task[a] EXCEPT !.pc = "reread"])
    BY <1>10, <1>t, <1>s DEF SetProduction, At, TaskShape, Task
  <2> QED BY <1>10, <2>1, <1>t, <1>p, GotoShape DEF SetProduction
<1>11. CASE RereadProject(a)
  <2>1. TaskShape(a, [task[a] EXCEPT !.pc = "reclaim", !.ptr = production])
    BY <1>11, <1>t, <1>s DEF RereadProject, At, TaskShape, Task
  <2> QED BY <1>11, <2>1, <1>t, BecomeShape DEF RereadProject
<1>12. CASE ReclaimQuery(a)
  <2>1. ASSUME NEW todo, NEW pc \in {"done", "drain"}
        PROVE  TaskShape(a, [task[a] EXCEPT !.todo = todo, !.pc = pc, !.ptr = None])
    BY <1>12, <1>t, <1>s DEF ReclaimQuery, At, TaskShape, Task
  <2> QED BY <1>12, <2>1, <1>t, BecomeShape DEF ReclaimQuery
<1>13. CASE ReclaimDrain(a)
  <2>1. TaskShape(a, [task[a] EXCEPT !.pc = "detach"])
    BY <1>13, <1>t, <1>s DEF ReclaimDrain, At, TaskShape, Task
  <2> QED BY <1>13, <2>1, <1>t, <1>p, GotoShape DEF ReclaimDrain
<1>14. CASE ReclaimDetach(a)
  <2>1. ASSUME NEW todo, NEW pc \in {"done", "drain"}
        PROVE  TaskShape(a, [task[a] EXCEPT !.todo = todo, !.pc = pc])
    BY <1>14, <1>t, <1>s DEF ReclaimDetach, At, TaskShape, Task
  <2> QED BY <1>14, <2>1, <1>t, BecomeShape DEF ReclaimDetach
<1>15. CASE PromotionDone(a)
  <2>1. TaskShape(a, Rest("idle")) /\ TaskShape(a, Rest("loop"))
    BY RestShape
  <2> QED BY <1>15, <2>1, <1>t, BecomeShape DEF PromotionDone
<1> QED
  BY <1>1, <1>2, <1>3, <1>4, <1>5, <1>6, <1>7, <1>8, <1>9, <1>10, <1>11,
     <1>12, <1>13, <1>14, <1>15 DEF PromotionStep

-----------------------------------------------------------------------------
(* The steps of requests, of a worker that starts, and of the environment. *)
LEMMA RequestStepType ==
    ASSUME TypeOK, Shape, NEW r \in Request, RequestStep(r)
    PROVE  TypeOK' /\ Shape'
<1>t. /\ TableTypeOK /\ TypeOK
      /\ docker \in [Container -> {"unborn", "running", "draining", "gone"}]
      /\ route \in Deployment \cup {None}
      /\ task \in [Actor -> Task] /\ task[r] \in Task /\ r \in Actor
      /\ production \in Deployment \cup {None}
      /\ tasks \in 0..MaxTasks
  BY DEF TypeOK, TableTypeOK, Actor
<1>s. TaskShape(r, task[r])
  BY <1>t DEF Shape
<1>p. {"check", "target", "idle", "domains"} \subseteq PC
  BY DEF PC, PromotePC
<1>i. Asked => tasks' \in 0..MaxTasks
  BY <1>t, BoundAssumption DEF Asked
<1>1. CASE \E d \in Deployment : RequestPromotion(r, d)
  <2>1. PICK d \in Deployment : RequestPromotion(r, d)
    BY <1>1
  <2> DEFINE t == [Rest("check") EXCEPT !.op = "promote", !.d = d]
  <2>2. t \in Task /\ TaskShape(r, t)
    BY <1>p DEF Rest, Task, Op, TaskShape
  <2>3. Begin(r, t)
    BY <2>1 DEF RequestPromotion
  <2>4. task' \in [Actor -> Task] /\ Shape'
    <3> HIDE DEF t
    <3> QED BY <2>2, <2>3, <1>t, BeginType, BeginShape
  <2> QED BY <2>1, <2>4, <1>t, <1>i DEF RequestPromotion, TypeOK, TableTypeOK
<1>2. CASE ChangeDomains(r)
  <2> DEFINE t == [Rest("target") EXCEPT !.op = "refresh"]
  <2>2. t \in Task /\ TaskShape(r, t)
    BY <1>p DEF Rest, Task, Op, TaskShape
  <2>3. Begin(r, t)
    BY <1>2 DEF ChangeDomains
  <2>4. task' \in [Actor -> Task] /\ Shape'
    <3> HIDE DEF t
    <3> QED BY <2>2, <2>3, <1>t, BeginType, BeginShape
  <2> QED BY <1>2, <2>4, <1>t, <1>i DEF ChangeDomains, TypeOK, TableTypeOK
<1>3. CASE RefreshTarget(r)
  <2>1. Rest("idle") \in Task /\ TaskShape(r, Rest("idle"))
    BY <1>p, <1>t, RestType, RestShape
  <2>2. production # None =>
           LET t == [task[r] EXCEPT !.pc = "domains", !.d = production]
           IN  t \in Task /\ TaskShape(r, t)
    BY <1>3, <1>t, <1>s, <1>p DEF RefreshTarget, At, Task, TaskShape
  <2>3. task' \in [Actor -> Task]
    BY <1>3, <2>1, <2>2, <1>t, BecomeType DEF RefreshTarget
  <2>4. Shape'
    BY <1>3, <2>1, <2>2, <1>t, BecomeShape DEF RefreshTarget
  <2> QED BY <1>3, <2>3, <2>4, <1>t, TypeFrame DEF RefreshTarget, TableTypeOK
<1> QED BY <1>1, <1>2, <1>3 DEF RequestStep

LEMMA StartupType ==
    ASSUME TypeOK, Shape, NEW w \in Worker, StartWorker(w) \/ ReconcileStep(w)
    PROVE  TypeOK' /\ Shape'
<1>t. /\ TableTypeOK /\ rows \in [Deployment -> Row]
      /\ docker \in [Container -> {"unborn", "running", "draining", "gone"}]
      /\ route \in Deployment \cup {None}
      /\ task \in [Actor -> Task] /\ task[w] \in Task /\ w \in Actor
  BY DEF TypeOK, TableTypeOK, Actor
<1>s. TaskShape(w, task[w])
  BY <1>t DEF Shape
<1>p. {"look", "forget", "abandoned", "loop"} \subseteq PC
  BY DEF PC
<1>1. CASE StartWorker(w)
  <2> DEFINE todo == {<<d, rows[d].container>> :
                        d \in {e \in Deployment : rows[e].container # None}}
             t == [Rest("look") EXCEPT !.op = "reconcile", !.todo = todo]
  <2>1. todo \subseteq Deployment \X Container
    BY <1>t DEF Row
  <2>2. Begin(w, t)
    BY <1>1 DEF StartWorker
  <2>3. t \in Task /\ TaskShape(w, t)
    <3> HIDE DEF todo
    <3> QED BY <2>1, <1>p DEF Rest, Task, Op, TaskShape
  <2>4. task' \in [Actor -> Task] /\ Shape'
    <3> HIDE DEF t
    <3> QED BY <2>2, <2>3, <1>t, BeginType, BeginShape
  <2> QED BY <1>1, <2>4, <1>t, TypeFrame DEF StartWorker, TableTypeOK
<1>2. CASE ReconcileLook(w)
  <2>1. /\ [task[w] EXCEPT !.pc = "abandoned"] \in Task
        /\ TaskShape(w, [task[w] EXCEPT !.pc = "abandoned"])
    BY <1>2, <1>t, <1>s, <1>p DEF ReconcileLook, At, Task, TaskShape
  <2>2. ASSUME NEW p \in task[w].todo
        PROVE  /\ [task[w] EXCEPT !.todo = @ \ {p}] \in Task
               /\ TaskShape(w, [task[w] EXCEPT !.todo = @ \ {p}])
    BY <1>2, <1>t, <1>s DEF ReconcileLook, At, Task, TaskShape
  <2>3. ASSUME NEW p \in task[w].todo
        PROVE  /\ [task[w] EXCEPT !.pc = "forget", !.d = p[1]] \in Task
               /\ TaskShape(w, [task[w] EXCEPT !.pc = "forget", !.d = p[1]])
    BY <1>2, <1>t, <1>s, <1>p DEF ReconcileLook, At, Task, TaskShape
  <2>4. CASE task[w].todo = {} /\ Goto(w, "abandoned")
    BY <2>4, <2>1, <1>t, <1>p, GotoType, GotoShape, <1>2, TypeFrame
       DEF ReconcileLook, TableTypeOK
  <2>5. CASE \E p \in task[w].todo :
               Become(w, IF IsRunning(p[2])
                         THEN [task[w] EXCEPT !.todo = @ \ {p}]
                         ELSE [task[w] EXCEPT !.pc = "forget", !.d = p[1]])
    <3>1. PICK p \in task[w].todo :
               Become(w, IF IsRunning(p[2])
                         THEN [task[w] EXCEPT !.todo = @ \ {p}]
                         ELSE [task[w] EXCEPT !.pc = "forget", !.d = p[1]])
      BY <2>5
    <3>2. task' \in [Actor -> Task] /\ Shape'
      BY <3>1, <2>2, <2>3, <1>t, BecomeType, BecomeShape
    <3> QED BY <1>2, <3>2, <1>t, TypeFrame DEF ReconcileLook, TableTypeOK
  <2> QED BY <1>2, <2>4, <2>5 DEF ReconcileLook
<1>3. CASE ReconcileForget(w)
  <2> DEFINE t == [task[w] EXCEPT !.pc = "look", !.d = None,
                      !.todo = {p \in @ : p[1] # task[w].d}]
  <2>1. t \in Task /\ TaskShape(w, t)
    BY <1>3, <1>t, <1>s, <1>p DEF ReconcileForget, At, Task, TaskShape
  <2>2. Become(w, t)
    BY <1>3 DEF ReconcileForget
  <2>3. task' \in [Actor -> Task] /\ Shape'
    <3> HIDE DEF t
    <3> QED BY <2>1, <2>2, <1>t, BecomeType, BecomeShape
  <2>4. rows' \in [Deployment -> Row]
    BY <1>3, <1>t, StatementTypes DEF ReconcileForget
  <2> QED BY <1>3, <2>3, <2>4, <1>t, TypeFrame DEF ReconcileForget, TableTypeOK
<1>4. CASE ReconcileAbandoned(w)
  <2>1. Rest("loop") \in Task /\ TaskShape(w, Rest("loop"))
    BY <1>t, <1>p, RestType, RestShape
  <2>2. task' \in [Actor -> Task] /\ Shape'
    BY <1>4, <2>1, <1>t, BecomeType, BecomeShape DEF ReconcileAbandoned
  <2>3. rows' \in [Deployment -> Row]
    BY <1>4, <1>t, StatementTypes DEF ReconcileAbandoned
  <2> QED BY <1>4, <2>2, <2>3, <1>t, TypeFrame DEF ReconcileAbandoned, TableTypeOK
<1> QED BY <1>1, <1>2, <1>3, <1>4 DEF ReconcileStep

LEMMA EnvironmentType ==
    ASSUME TypeOK, Shape, Environment
    PROVE  TypeOK' /\ Shape'
<1>t. /\ TableTypeOK /\ task \in [Actor -> Task]
      /\ docker \in [Container -> {"unborn", "running", "draining", "gone"}]
      /\ faults \in 0..MaxFaults
  BY DEF TypeOK
<1>i. Fault => faults' \in 0..MaxFaults
  BY <1>t, BoundAssumption DEF Fault
<1>1. ASSUME NEW c \in Container, DrainEnds(c) \/ ContainerDies(c)
      PROVE  TypeOK' /\ Shape'
  <2>1. Interfere /\ docker' \in [Container -> {"unborn", "running", "draining", "gone"}]
    BY <1>1, <1>t DEF DrainEnds, ContainerDies
  <2>2. task' \in [Actor -> Task] /\ Shape'
    BY <2>1, <1>t, InterfereType, InterfereShape
  <2> QED BY <1>1, <2>1, <2>2, <1>i
          DEF DrainEnds, ContainerDies, TypeOK, TableTypeOK, bounds
<1>2. ASSUME NEW a \in Actor, PromotionRaises(a)
      PROVE  TypeOK' /\ Shape'
  <2>1. Raised(a) \in Task /\ TaskShape(a, Raised(a))
    BY <1>2, <1>t, RaisedType, RaisedShape DEF PromotionRaises
  <2>2. task' \in [Actor -> Task] /\ Shape'
    BY <1>2, <2>1, <1>t, BecomeType, BecomeShape DEF PromotionRaises
  <2> QED BY <1>2, <2>2, <1>i DEF PromotionRaises, TypeOK, TableTypeOK
<1>3. ASSUME NEW a \in Actor, Crash(a)
      PROVE  TypeOK' /\ Shape'
  <2>1. "down" \in PC /\ "idle" \in PC
    BY DEF PC
  <2>2. Off(a) \in Task /\ TaskShape(a, Off(a))
    BY <2>1, RestType, RestShape DEF Off
  <2>3. task' \in [Actor -> Task] /\ Shape'
    BY <1>3, <2>2, <1>t, BecomeType, BecomeShape DEF Crash
  <2> QED BY <1>3, <2>3, <1>i DEF Crash, TypeOK, TableTypeOK
<1> QED BY <1>1, <1>2, <1>3 DEF Environment

LEMMA PromotionStarts == PromotionInit => TypeOK /\ Shape
<1> SUFFICES ASSUME PromotionInit PROVE TypeOK /\ Shape
  OBVIOUS
<1>1. rows \in [Deployment -> Row]
  <2>1. \A d \in Deployment : <<d, 1>> \in Container
    BY RunsAssumption DEF Container
  <2>2. \A d \in Deployment, c \in Container \cup {None} : ReadyRow(d, c) \in Row
    BY BranchAssumption
       DEF ReadyRow, NoRow, Row, Status, Terminal, Trigger, Error
  <2> QED BY <2>1, <2>2 DEF PromotionInit
<1>2. \A a \in Actor : Off(a) \in Task /\ TaskShape(a, Off(a))
  <2>1. "down" \in PC /\ "idle" \in PC
    BY DEF PC
  <2> QED BY <2>1, RestType, RestShape DEF Off
<1> QED BY <1>1, <1>2, BoundAssumption
        DEF PromotionInit, TypeOK, TableTypeOK, Shape

LEMMA PromotionNextType ==
    ASSUME TypeOK, Shape, PromotionNext
    PROVE  TypeOK' /\ Shape'
BY PromotionStepType, PromotionStepShape, RequestStepType, StartupType, EnvironmentType
   DEF PromotionNext

(* Every state of a project that is promoted, rolled back, rerouted and
   restarted in any interleaving has the types the code gives it. *)
THEOREM PromotionTypes == PromotionSpec => []TypeOK
<1>1. TypeOK /\ Shape /\ UNCHANGED promotionVars => TypeOK' /\ Shape'
  BY DEF promotionVars, bounds, TypeOK, TableTypeOK, Shape
<1> QED BY <1>1, PromotionStarts, PromotionNextType, PTL DEF PromotionSpec

-----------------------------------------------------------------------------
(* What undisturbed work leaves *)

(* What each work may be at: nobody deploys here, only requests move
   production or its route, only a worker reconciles, and a background service
   has no route to write. *)
WorkShape(a, t) ==
    /\ t.op \in {"none", "promote", "refresh", "reconcile"}
    /\ t.op = "none" => t.pc \in {"idle", "down", "loop"} /\ ~t.alone
    /\ t.op = "promote" => a \in Request /\ t.pc \in {"check"} \cup PromotePC
    /\ t.op = "reconcile" => a \in Worker /\ t.pc \in {"look", "forget", "abandoned"}
    /\ t.op = "refresh" => a \in Request
    /\ background => t.pc \notin {"target", "domains", "write"}

Alone ==
    \A a \in Actor : task[a].alone => \A b \in Actor \ {a} : task[b].op \notin Touching

(* The project is one of deployments that succeeded, and a background service
   is reachable under no domain. *)
Settled ==
    /\ \A d \in Deployment : rows[d].status = "ready" /\ ~rows[d].late
    /\ background => ~verified /\ route = None

Listed(t) == {p[1] : p \in t.todo}

(* What an undisturbed promotion has found or done, step by step. *)
PromotionKnows(t) ==
    /\ t.pc = "serve" => t.c = rows[t.d].container
    /\ t.pc \in {"health", "attach"} => IsRunning(t.c)
    /\ t.pc \in {"domains", "write", "point", "reread", "reclaim", "drain", "detach", "done"} =>
          IsRunning(rows[t.d].container)
    /\ t.pc = "write" => t.dom = verified
    /\ t.pc \in {"point", "reread", "reclaim", "drain", "detach", "done"} =>
          route = IF verified THEN t.d ELSE None
    /\ t.pc \in {"reread", "reclaim", "drain", "detach", "done"} => production = t.d
    /\ t.pc = "reclaim" => t.ptr = t.d
    /\ t.pc \in {"drain", "detach", "done"} =>
          /\ Cardinality((Resident \ {t.d}) \ Listed(t)) <= Keep
          /\ t.d \notin Listed(t)
    /\ t.pc = "done" => t.todo = {}

RefreshKnows(t) ==
    /\ t.pc \in {"domains", "write"} => production = t.d
    /\ t.pc = "write" => t.dom = verified

(* Every container a row records runs, or is still to be looked at. *)
ReconciliationKnows(t) ==
    \A d \in Deployment :
        rows[d].container # None =>
            \/ IsRunning(rows[d].container)
            \/ /\ t.pc # "abandoned"
               /\ <<d, rows[d].container>> \in t.todo

Knows(t) ==
    /\ t.op = "promote" => PromotionKnows(t)
    /\ t.op = "refresh" => RefreshKnows(t)
    /\ t.op = "reconcile" => ReconciliationKnows(t)

Undisturbed ==
    /\ TypeOK /\ Shape
    /\ \A a \in Actor : WorkShape(a, task[a])
    /\ Alone
    /\ Settled
    /\ \A a \in Actor : task[a].alone => Knows(task[a])

LEMMA LeastOf ==
    ASSUME NEW T \in SUBSET Nat, T # {}
    PROVE  \E x \in T : \A y \in T : x <= y
<1> DEFINE R == {p \in Nat \X Nat : p[1] < p[2]}
<1>1. OpToRel(<, Nat) = R
  BY DEF OpToRel
<1>2. IsWellFoundedOn(R, Nat)
  BY <1>1, NatLessThanWellFounded
<1> HIDE DEF R
<1>3. PICK x \in T : \A y \in T : ~ (<<y, x>> \in R)
  BY <1>2, WFMin
<1>4. \A y \in T : ~ (y < x)
  BY <1>3 DEF R
<1> QED BY <1>4

(* ORDER BY number DESC OFFSET keep leaves at most keep. *)
LEMMA WarmFew ==
    ASSUME NEW free \in SUBSET Nat, IsFiniteSet(free), NEW keep \in Nat
    PROVE  Cardinality({d \in free : ~ (Cardinality({e \in free : e > d}) >= keep)}) <= keep
<1> DEFINE above(d) == {e \in free : e > d}
           warm == {d \in free : ~ (Cardinality(above(d)) >= keep)}
<1>1. warm \in SUBSET Nat /\ warm \in SUBSET free
  OBVIOUS
<1>2. ASSUME warm = {} PROVE Cardinality(warm) <= keep
  <2> HIDE DEF warm
  <2>1. Cardinality(warm) = 0
    BY <1>2, FS_EmptySet
  <2> QED BY <2>1
<1>3. ASSUME warm # {} PROVE Cardinality(warm) <= keep
  <2>1. PICK m \in warm : \A y \in warm : m <= y
    <3> HIDE DEF warm
    <3> QED BY <1>1, <1>3, LeastOf
  <2>2. PICK S : S = above(m)
    OBVIOUS
  <2>3. IsFiniteSet(S) /\ Cardinality(S) \in Nat
    <3>1. S \in SUBSET free
      BY <2>2
    <3> HIDE DEF above
    <3> QED BY <3>1, FS_Subset, FS_CardinalityType
  <2>4. Cardinality(S) < keep /\ m \notin S
    BY <2>1, <2>2, <2>3
  <2>5. warm \in SUBSET (S \cup {m})
    BY <2>1, <2>2, <1>1
  <2> HIDE DEF warm, above
  <2>6. IsFiniteSet(S \cup {m}) /\ Cardinality(S \cup {m}) = Cardinality(S) + 1
    BY <2>3, <2>4, FS_AddElement
  <2>7. Cardinality(warm) <= Cardinality(S \cup {m}) /\ IsFiniteSet(warm)
    BY <2>5, <2>6, FS_Subset
  <2>8. Cardinality(warm) \in Nat
    BY <2>7, FS_CardinalityType
  <2> QED BY <2>3, <2>4, <2>6, <2>7, <2>8
<1>4. Cardinality(warm) <= keep
  <2> HIDE DEF warm
  <2> QED BY <1>2, <1>3
<1> QED BY <1>4

-----------------------------------------------------------------------------
(* The ways a task changes *)

(* A step of work at hand: others who are alone are so because this work is
   not going on. *)
LEMMA OwnStep ==
    ASSUME Undisturbed, NEW a \in Actor, task[a].op \in Touching,
           NEW t, Become(a, t), TypeOK', Shape', Settled', UNCHANGED background,
           WorkShape(a, t), t.op \in {task[a].op, "none"}, t.alone => task[a].alone,
           t.alone => Knows(t)'
    PROVE  Undisturbed'
<1>1. task \in [Actor -> Task] /\ task' = [task EXCEPT ![a] = t]
  BY DEF Undisturbed, TypeOK, Become
<1>2. task'[a] = t /\ \A b \in Actor \ {a} : task'[b] = task[b]
  BY <1>1
<1>3. \A b \in Actor : WorkShape(b, task[b])'
  <2>1. WorkShape(a, task'[a]) /\ \A b \in Actor \ {a} : WorkShape(b, task'[b])
    BY <1>2 DEF Undisturbed
  <2> QED BY <2>1 DEF WorkShape
<1>4. Alone'
  BY <1>2 DEF Undisturbed, Alone, Touching
<1>5. ASSUME NEW b \in Actor, task'[b].alone PROVE Knows(task[b])'
  <2>1. CASE b = a
    <3>1. Knows(t)'
      BY <1>2, <1>5, <2>1
    <3> QED BY <3>1, <2>1, <1>2 DEF Knows, PromotionKnows, RefreshKnows, ReconciliationKnows, Listed
  <2>2. CASE b # a
    BY <1>2, <1>5, <2>2 DEF Undisturbed, Alone
  <2> QED BY <2>1, <2>2
<1> QED BY <1>3, <1>4, <1>5 DEF Undisturbed

(* Work ends, and what it knew with it. *)
LEMMA GoesOff ==
    ASSUME Undisturbed, NEW a \in Actor, NEW pc \in {"idle", "down", "loop"},
           Become(a, Rest(pc)), TypeOK', Shape', Settled', UNCHANGED background
    PROVE  /\ task[a].op \in Touching => Undisturbed'
           /\ UNCHANGED <<rows, production, docker, route, verified>> => Undisturbed'
<1>1. PICK t : t = Rest(pc)
  OBVIOUS
<1>2. t.op = "none" /\ t.pc = pc /\ t.alone = FALSE
  BY <1>1 DEF Rest
<1>3. WorkShape(a, t)
  BY <1>2 DEF WorkShape
<1>4. Become(a, t)
  BY <1>1
<1>5. CASE task[a].op \in Touching
  BY <1>2, <1>3, <1>4, <1>5, OwnStep
<1>6. ASSUME UNCHANGED <<rows, production, docker, route, verified>>
      PROVE  Undisturbed'
  <2>1. task \in [Actor -> Task] /\ task' = [task EXCEPT ![a] = t]
    BY <1>4 DEF Undisturbed, TypeOK, Become
  <2>2. task'[a] = t /\ \A b \in Actor \ {a} : task'[b] = task[b]
    BY <2>1
  <2>3. \A b \in Actor : WorkShape(b, task[b])'
    <3>1. WorkShape(a, task'[a]) /\ \A b \in Actor \ {a} : WorkShape(b, task'[b])
      BY <2>2, <1>3 DEF Undisturbed
    <3> QED BY <3>1 DEF WorkShape
  <2>4. Alone'
    BY <2>2, <1>2 DEF Undisturbed, Alone, Touching
  <2>5. ASSUME NEW b \in Actor, task'[b].alone PROVE Knows(task[b])'
    <3>1. b # a /\ task'[b] = task[b] /\ Knows(task[b])
      BY <2>2, <2>5, <1>2 DEF Undisturbed
    <3> QED BY <3>1, <1>6
            DEF Knows, PromotionKnows, RefreshKnows, ReconciliationKnows, Listed,
                IsRunning, Resident, Keep
  <2> QED BY <2>3, <2>4, <2>5 DEF Undisturbed
<1> QED BY <1>5, <1>6

LEMMA RaisedIsOff ==
    ASSUME Undisturbed, NEW a \in Actor, task[a].op \in {"promote", "refresh"}
    PROVE  Raised(a) = Rest("idle")
BY RequestAssumption DEF Undisturbed, WorkShape, Raised

(* Work begins: it is alone if nobody else is at it. *)
LEMMA Begins ==
    ASSUME Undisturbed, NEW a \in Actor, NEW t, Begin(a, t), TypeOK', Shape', Settled',
           UNCHANGED background, t \in Task,
           WorkShape(a, t), t.op # "none", Knows(t)'
    PROVE  Undisturbed'
<1>1. PICK u : u = [t EXCEPT !.alone = \A b \in Actor \ {a} : task[b].op \notin Touching]
  OBVIOUS
<1>2. /\ u.op = t.op /\ u.pc = t.pc /\ u.d = t.d /\ u.c = t.c /\ u.ptr = t.ptr
      /\ u.dom = t.dom /\ u.todo = t.todo
      /\ u.alone => \A b \in Actor \ {a} : task[b].op \notin Touching
  BY <1>1 DEF Task
<1>3. /\ task'[a] = u
      /\ \A b \in Actor \ {a} : task'[b] = [task[b] EXCEPT !.alone = FALSE]
  BY <1>1 DEF Begin
<1>4. \A b \in Actor \ {a} : /\ task'[b].op = task[b].op /\ task'[b].pc = task[b].pc
                            /\ task'[b].alone = FALSE
  BY <1>3 DEF Undisturbed, TypeOK, Task
<1>5. \A b \in Actor : WorkShape(b, task[b])'
  <2>1. WorkShape(a, u)
    BY <1>2 DEF WorkShape
  <2>2. \A b \in Actor \ {a} : WorkShape(b, task'[b])
    BY <1>4 DEF Undisturbed, WorkShape
  <2> QED BY <2>1, <2>2, <1>3 DEF WorkShape
<1>6. Alone'
  BY <1>2, <1>3, <1>4 DEF Alone, Touching
<1>7. ASSUME NEW b \in Actor, task'[b].alone PROVE Knows(task[b])'
  <2>1. b = a
    BY <1>4, <1>7
  <2> QED BY <2>1, <1>2, <1>3
          DEF Knows, PromotionKnows, RefreshKnows, ReconciliationKnows, Listed
<1> QED BY <1>5, <1>6, <1>7 DEF Undisturbed

(* Docker or the host interferes: nobody is alone any longer. *)
LEMMA Interferes ==
    ASSUME Undisturbed, Interfere, TypeOK', Shape', UNCHANGED <<rows, route, verified, background>>
    PROVE  Undisturbed'
<1>1. \A b \in Actor : /\ task'[b].op = task[b].op /\ task'[b].pc = task[b].pc
                       /\ task'[b].alone = FALSE
  BY DEF Undisturbed, TypeOK, Task, Interfere
<1>2. \A b \in Actor : WorkShape(b, task[b])'
  BY <1>1 DEF Undisturbed, WorkShape
<1> QED BY <1>1, <1>2 DEF Undisturbed, Alone, Settled

LEMMA SettledStays ==
    ASSUME Undisturbed, UNCHANGED <<verified, background>>,
           \/ UNCHANGED rows
           \/ \E d \in Deployment, c \in Container \cup {None} : rows' = SetContainer(d, c),
           background => UNCHANGED route
    PROVE  Settled'
<1>1. \A e \in Deployment : rows'[e].status = rows[e].status /\ rows'[e].late = rows[e].late
  BY DEF Undisturbed, TypeOK, TableTypeOK, SetContainer, Row
<1> QED BY <1>1 DEF Undisturbed, Settled

-----------------------------------------------------------------------------
(* The steps *)

(* Up to the proven container. *)
LEMMA LaunchingClean ==
    ASSUME Undisturbed, TypeOK', Shape', NEW a \in Actor,
           \/ EnsurePromotable(a) \/ EnsureServing(a) \/ LaunchRun(a) \/ LaunchRefused(a)
           \/ HealthPasses(a) \/ HealthFails(a) \/ Attach(a)
    PROVE  Undisturbed'
<1>t. /\ task \in [Actor -> Task] /\ task[a] \in Task /\ rows \in [Deployment -> Row]
      /\ docker \in [Container -> {"unborn", "running", "draining", "gone"}]
      /\ WorkShape(a, task[a]) /\ TaskShape(a, task[a])
  BY DEF Undisturbed, TypeOK, TableTypeOK, Shape
<1>p. task[a].op = "promote" /\ a \in Request /\ task[a].op \in Touching
  BY <1>t DEF WorkShape, Touching, TaskShape, EnsurePromotable, EnsureServing, LaunchRun,
              LaunchRefused, HealthPasses, HealthFails, Attach, At
<1>d. task[a].d \in Deployment
  BY <1>t, <1>p DEF TaskShape
<1>k. task[a].alone => PromotionKnows(task[a])
  BY <1>p DEF Undisturbed, Knows
<1>i. "idle" \in {"idle", "down", "loop"} /\ Raised(a) = Rest("idle")
  BY <1>p, RaisedIsOff
<1>s. Settled'
  <2>1. CASE Attach(a)
    <3>1. task[a].c \in Container \cup {None}
      BY <1>t DEF Task
    <3> QED BY <2>1, <3>1, <1>d, SettledStays DEF Attach, bounds
  <2>2. CASE ~Attach(a)
    BY <2>2, SettledStays DEF EnsurePromotable, EnsureServing, LaunchRun,
              LaunchRefused, HealthPasses, HealthFails, bounds
  <2> QED BY <2>1, <2>2
<1>w. Serving = "point" \/ (Serving = "domains" /\ ~background)
  BY DEF Serving, Undisturbed, TypeOK
<1>1. CASE EnsurePromotable(a)
  <2>1. CASE Become(a, Raised(a))
    BY <1>1, <2>1, <1>s, <1>i, <1>p, GoesOff DEF EnsurePromotable
  <2>2. CASE Become(a, [task[a] EXCEPT !.pc = "serve", !.c = rows[task[a].d].container])
    <3>1. PICK t : t = [task[a] EXCEPT !.pc = "serve", !.c = rows[task[a].d].container]
      OBVIOUS
    <3>2. /\ t.op = "promote" /\ t.pc = "serve" /\ t.d = task[a].d /\ t.alone = task[a].alone
          /\ t.c = rows[t.d].container
      BY <3>1, <1>t, <1>p DEF Task
    <3>3. WorkShape(a, t)
      BY <3>2, <1>p DEF WorkShape, PromotePC
    <3>4. Knows(t)'
      BY <3>2, <1>1 DEF EnsurePromotable, Knows, PromotionKnows
    <3> QED BY <3>1, <3>2, <3>3, <3>4, <1>s, <1>p, <1>1, <2>2, OwnStep DEF EnsurePromotable
  <2> QED BY <1>1, <2>1, <2>2 DEF EnsurePromotable
<1>2. CASE EnsureServing(a)
  <2>1. PICK t : t = [task[a] EXCEPT !.c = None,
                        !.pc = IF IsRunning(task[a].c) THEN Serving ELSE "launch"]
    OBVIOUS
  <2>2. /\ t.op = "promote" /\ t.d = task[a].d /\ t.alone = task[a].alone
        /\ t.pc = IF IsRunning(task[a].c) THEN Serving ELSE "launch"
    BY <2>1, <1>t, <1>p DEF Task
  <2>3. WorkShape(a, t)
    BY <2>2, <1>p, <1>w DEF WorkShape, PromotePC
  <2>4. t.alone => Knows(t)'
    <3>1. ASSUME t.alone, IsRunning(task[a].c)
          PROVE  IsRunning(rows[t.d].container) /\ t.pc \in {"domains", "point"}
      BY <3>1, <2>2, <1>k, <1>2, <1>w DEF PromotionKnows, EnsureServing, At
    <3>2. background => ~verified /\ route = None
      BY DEF Undisturbed, Settled
    <3>3. t.pc = "point" => background
      BY <2>2, <1>w DEF Serving
    <3>4. UNCHANGED <<rows, docker, route, verified, background>>
      BY <1>2 DEF EnsureServing
    <3>5. t.pc \in {"domains", "point", "launch"}
      BY <2>2, <1>w
    <3>6. t.alone => /\ t.pc \in {"domains", "point"} => IsRunning(rows[t.d].container)'
                     /\ t.pc = "point" => route' = IF verified' THEN t.d ELSE None
      BY <3>1, <3>2, <3>3, <3>4, <2>2 DEF IsRunning
    <3> QED BY <3>5, <3>6, <2>2 DEF Knows, PromotionKnows
  <2> QED BY <2>1, <2>2, <2>3, <2>4, <1>s, <1>p, <1>2, OwnStep DEF EnsureServing
<1>3. CASE LaunchRun(a)
  <2>1. PICK c \in Container :
           /\ docker' = [RemovedByName(task[a].d) EXCEPT ![c] = "running"]
           /\ Become(a, [task[a] EXCEPT !.pc = "health", !.c = c])
    BY <1>3 DEF LaunchRun
  <2>2. PICK t : t = [task[a] EXCEPT !.pc = "health", !.c = c]
    OBVIOUS
  <2>3. /\ t.op = "promote" /\ t.pc = "health" /\ t.d = task[a].d /\ t.alone = task[a].alone
        /\ t.c = c
    BY <2>2, <1>t, <1>p DEF Task
  <2>4. WorkShape(a, t)
    BY <2>3, <1>p DEF WorkShape, PromotePC
  <2>5. docker'[c] = "running" /\ c # None
    BY <2>1, NullAssumption DEF RemovedByName
  <2>6. Knows(t)'
    BY <2>3, <2>5 DEF Knows, PromotionKnows, IsRunning
  <2> QED BY <2>1, <2>2, <2>3, <2>4, <2>6, <1>s, <1>p, <1>3, OwnStep DEF LaunchRun
<1>4. CASE LaunchRefused(a) \/ HealthFails(a)
  BY <1>4, <1>s, <1>i, <1>p, GoesOff DEF LaunchRefused, HealthFails
<1>5. CASE HealthPasses(a)
  <2>1. PICK t : t = [task[a] EXCEPT !.pc = "attach"]
    OBVIOUS
  <2>2. /\ t.op = "promote" /\ t.pc = "attach" /\ t.d = task[a].d /\ t.alone = task[a].alone
        /\ t.c = task[a].c
    BY <2>1, <1>t, <1>p DEF Task
  <2>3. WorkShape(a, t)
    BY <2>2, <1>p DEF WorkShape, PromotePC
  <2>4. Knows(t)'
    BY <2>2, <1>5 DEF Knows, PromotionKnows, IsRunning, HealthPasses
  <2>5. Become(a, t)
    BY <1>5, <2>1, <1>t DEF HealthPasses, Goto, Become
  <2> QED BY <2>2, <2>3, <2>4, <2>5, <1>s, <1>p, <1>5, OwnStep DEF HealthPasses
<1>6. CASE Attach(a)
  <2>1. PICK t : t = [task[a] EXCEPT !.pc = Serving, !.c = None]
    OBVIOUS
  <2>2. /\ t.op = "promote" /\ t.pc = Serving /\ t.d = task[a].d /\ t.alone = task[a].alone
    BY <2>1, <1>t, <1>p DEF Task
  <2>3. WorkShape(a, t)
    BY <2>2, <1>p, <1>w DEF WorkShape, PromotePC
  <2>4. rows'[t.d].container = task[a].c
    BY <1>6, <1>t, <1>d, <2>2 DEF Attach, SetContainer, Row
  <2>5. t.alone => Knows(t)'
    <3>1. t.alone => IsRunning(rows[t.d].container)'
      BY <2>2, <2>4, <1>k, <1>6 DEF PromotionKnows, Attach, IsRunning
    <3>2. background => ~verified /\ route = None
      BY DEF Undisturbed, Settled
    <3>3. t.pc = "point" => background
      BY <2>2, <1>w DEF Serving
    <3>4. UNCHANGED <<route, verified, background>>
      BY <1>6 DEF Attach
    <3>5. t.pc \in {"domains", "point"}
      BY <2>2, <1>w
    <3>6. t.pc = "point" => route' = IF verified' THEN t.d ELSE None
      BY <3>2, <3>3, <3>4
    <3> QED BY <3>1, <3>5, <3>6, <2>2 DEF Knows, PromotionKnows
  <2> QED BY <2>1, <2>2, <2>3, <2>5, <1>s, <1>p, <1>6, OwnStep DEF Attach
<1> QED BY <1>1, <1>2, <1>3, <1>4, <1>5, <1>6

(* Publishing, in a promotion and after a change of domains. *)
LEMMA PublishingClean ==
    ASSUME Undisturbed, TypeOK', Shape', NEW a \in Actor, PublishRead(a) \/ PublishWrite(a)
    PROVE  Undisturbed'
<1>t. /\ task \in [Actor -> Task] /\ task[a] \in Task
      /\ WorkShape(a, task[a]) /\ TaskShape(a, task[a])
  BY DEF Undisturbed, TypeOK, TableTypeOK, Shape
<1>p. /\ task[a].op \in {"promote", "refresh"} /\ a \in Request /\ task[a].op \in Touching
      /\ ~background
  BY <1>t DEF WorkShape, Touching, TaskShape, PublishRead, PublishWrite
<1>s. Settled'
  BY <1>p, SettledStays DEF PublishRead, PublishWrite
<1>k. task[a].alone => Knows(task[a])
  BY DEF Undisturbed
<1>1. CASE PublishRead(a)
  <2>1. PICK t : t = [task[a] EXCEPT !.pc = "write", !.dom = verified]
    OBVIOUS
  <2>2. /\ t.op = task[a].op /\ t.pc = "write" /\ t.d = task[a].d /\ t.alone = task[a].alone
        /\ t.dom = verified
    BY <2>1, <1>t DEF Task
  <2>3. WorkShape(a, t)
    BY <2>2, <1>p, <1>t DEF WorkShape, PromotePC
  <2>4. t.alone => Knows(t)'
    <3>1. task[a].pc = "domains" /\ UNCHANGED <<rows, docker, production, verified>>
      BY <1>1 DEF PublishRead
    <3>2. CASE t.op = "promote"
      BY <3>1, <3>2, <2>2, <1>k DEF Knows, PromotionKnows, IsRunning
    <3>3. CASE t.op = "refresh"
      BY <3>1, <3>3, <2>2, <1>k DEF Knows, RefreshKnows
    <3> QED BY <3>2, <3>3, <2>2, <1>p
  <2> QED BY <2>1, <2>2, <2>3, <2>4, <1>s, <1>p, <1>1, OwnStep DEF PublishRead
<1>2. CASE PublishWrite(a) /\ task[a].op = "refresh"
  <2>1. "idle" \in {"idle", "down", "loop"}
    OBVIOUS
  <2> QED BY <2>1, <1>2, <1>s, <1>p, GoesOff DEF PublishWrite
<1>3. CASE PublishWrite(a) /\ task[a].op # "refresh"
  <2>1. PICK t : t = [task[a] EXCEPT !.pc = "point", !.dom = FALSE]
    OBVIOUS
  <2>2. /\ t.op = "promote" /\ t.pc = "point" /\ t.d = task[a].d /\ t.alone = task[a].alone
    BY <2>1, <1>3, <1>p, <1>t DEF Task
  <2>3. WorkShape(a, t)
    BY <2>2, <1>p DEF WorkShape, PromotePC
  <2>4. t.alone => Knows(t)'
    <3>1. /\ task[a].pc = "write" /\ UNCHANGED <<rows, docker, verified>>
          /\ route' = IF task[a].dom THEN task[a].d ELSE None
      BY <1>3 DEF PublishWrite
    <3> QED BY <3>1, <2>2, <1>k, <1>p, <1>3 DEF Knows, PromotionKnows, IsRunning
  <2> QED BY <2>1, <2>2, <2>3, <2>4, <1>s, <1>p, <1>3, OwnStep DEF PublishWrite
<1> QED BY <1>1, <1>2, <1>3

(* The pointer is moved and the older containers are reclaimed. *)
LEMMA ReclaimClean ==
    ASSUME Undisturbed, TypeOK', Shape', IsFiniteSet(Deployment), NEW a \in Actor,
           \/ SetProduction(a) \/ RereadProject(a) \/ ReclaimQuery(a) \/ ReclaimDrain(a)
           \/ ReclaimDetach(a) \/ PromotionDone(a)
    PROVE  Undisturbed'
<1>t. /\ task \in [Actor -> Task] /\ task[a] \in Task /\ rows \in [Deployment -> Row]
      /\ docker \in [Container -> {"unborn", "running", "draining", "gone"}]
      /\ WorkShape(a, task[a]) /\ TaskShape(a, task[a])
  BY DEF Undisturbed, TypeOK, TableTypeOK, Shape
<1>p. task[a].op = "promote" /\ a \in Request /\ task[a].op \in Touching
  BY <1>t DEF WorkShape, Touching, SetProduction, RereadProject, ReclaimQuery,
              ReclaimDrain, ReclaimDetach, PromotionDone, At
<1>d. task[a].d \in Deployment
  BY <1>t, <1>p DEF TaskShape
<1>k. task[a].alone => PromotionKnows(task[a])
  BY <1>p DEF Undisturbed, Knows
<1>s. Settled'
  <2>1. CASE ReclaimDetach(a)
    <3>1. PICK p \in task[a].todo : rows' = SetContainer(p[1], None)
      BY <2>1 DEF ReclaimDetach
    <3>2. p[1] \in Deployment
      BY <3>1, <1>t DEF Task
    <3> QED BY <2>1, <3>1, <3>2, SettledStays DEF ReclaimDetach, bounds
  <2>2. CASE ~ReclaimDetach(a)
    BY <2>2, SettledStays DEF SetProduction, RereadProject, ReclaimQuery, ReclaimDrain,
                              PromotionDone, bounds
  <2> QED BY <2>1, <2>2
<1>1. CASE SetProduction(a)
  <2>1. PICK t : t = [task[a] EXCEPT !.pc = "reread"]
    OBVIOUS
  <2>2. /\ t.op = "promote" /\ t.pc = "reread" /\ t.d = task[a].d /\ t.alone = task[a].alone
    BY <2>1, <1>t, <1>p DEF Task
  <2>3. WorkShape(a, t)
    BY <2>2, <1>p DEF WorkShape, PromotePC
  <2>4. t.alone => Knows(t)'
    <3>1. /\ task[a].pc = "point" /\ UNCHANGED <<rows, docker, route, verified>>
          /\ production' = task[a].d
      BY <1>1 DEF SetProduction, At
    <3> QED BY <3>1, <2>2, <1>k DEF Knows, PromotionKnows, IsRunning
  <2>5. Become(a, t)
    BY <1>1, <2>1, <1>t DEF SetProduction, Goto, Become
  <2> QED BY <2>2, <2>3, <2>4, <2>5, <1>s, <1>p, <1>1, OwnStep DEF SetProduction
<1>2. CASE RereadProject(a)
  <2>1. PICK t : t = [task[a] EXCEPT !.pc = "reclaim", !.ptr = production]
    OBVIOUS
  <2>2. /\ t.op = "promote" /\ t.pc = "reclaim" /\ t.d = task[a].d /\ t.alone = task[a].alone
        /\ t.ptr = production
    BY <2>1, <1>t, <1>p DEF Task
  <2>3. WorkShape(a, t)
    BY <2>2, <1>p DEF WorkShape, PromotePC
  <2>4. t.alone => Knows(t)'
    <3>1. task[a].pc = "reread" /\ UNCHANGED <<rows, docker, route, verified, production>>
      BY <1>2 DEF RereadProject, At
    <3> QED BY <3>1, <2>2, <1>k DEF Knows, PromotionKnows, IsRunning
  <2> QED BY <2>1, <2>2, <2>3, <2>4, <1>s, <1>p, <1>2, OwnStep DEF RereadProject
<1>3. CASE ReclaimQuery(a)
  <2>1. PICK stale : stale = Reclaimable(Keep, Protected(a))
    OBVIOUS
  <2>2. PICK todo : todo = {<<d, rows[d].container>> : d \in stale}
    OBVIOUS
  <2>3. PICK t : t = [task[a] EXCEPT !.todo = todo,
                        !.pc = IF stale = {} THEN "done" ELSE "drain", !.ptr = None]
    OBVIOUS
  <2>4. /\ t.op = "promote" /\ t.d = task[a].d /\ t.alone = task[a].alone /\ t.todo = todo
        /\ t.pc = IF stale = {} THEN "done" ELSE "drain"
    BY <2>3, <1>t, <1>p DEF Task
  <2>5. WorkShape(a, t)
    BY <2>4, <1>p DEF WorkShape, PromotePC
  <2>6. Listed(t) = stale
    <3>1. \A d \in stale : <<d, rows[d].container>> \in todo /\ <<d, rows[d].container>>[1] = d
      BY <2>2
    <3>2. \A p \in todo : p[1] \in stale
      BY <2>2
    <3>3. \A d : d \in Listed(t) <=> \E p \in todo : d = p[1]
      BY <2>4 DEF Listed
    <3> QED BY <3>1, <3>2, <3>3
  <2>7. task[a].alone =>
           Cardinality((Resident \ {task[a].d}) \ stale) <= Keep /\ task[a].d \notin stale
    <3> SUFFICES ASSUME task[a].alone
                 PROVE  /\ Cardinality((Resident \ {task[a].d}) \ stale) <= Keep
                        /\ task[a].d \notin stale
      OBVIOUS
    <3>1. Protected(a) = {task[a].d}
      BY <1>3, <1>k DEF PromotionKnows, ReclaimQuery, At, Protected
    <3>2. PICK free : free = Resident \ {task[a].d}
      OBVIOUS
    <3>3. stale = {d \in free : Cardinality({e \in free : e > d}) >= Keep}
      BY <2>1, <3>1, <3>2 DEF Reclaimable
    <3>4. free \in SUBSET Deployment /\ task[a].d \notin free
      BY <3>2 DEF Resident
    <3>5. free \in SUBSET Nat /\ IsFiniteSet(free)
      BY <3>4, NumberAssumption, FS_Subset
    <3>6. Keep \in Nat
      BY KeepAssumption DEF Keep
    <3>7. free \ stale = {d \in free : ~ (Cardinality({e \in free : e > d}) >= Keep)}
      BY <3>3
    <3>8. Cardinality(free \ stale) <= Keep
      BY <3>5, <3>6, <3>7, WarmFew
    <3> QED BY <3>2, <3>3, <3>4, <3>8
  <2>8. t.alone => Knows(t)'
    <3>1. task[a].pc = "reclaim" /\ UNCHANGED <<rows, docker, route, verified, background, production>>
      BY <1>3 DEF ReclaimQuery, At
    <3>2. Resident' = Resident /\ Keep' = Keep
      BY <3>1 DEF Resident, Keep
    <3>3. t.alone => Cardinality((Resident' \ {t.d}) \ Listed(t)) <= Keep' /\ t.d \notin Listed(t)
      BY <3>2, <2>4, <2>6, <2>7
    <3>4. t.pc = "done" => t.todo = {}
      BY <2>2, <2>4
    <3>5. t.alone => /\ IsRunning(rows[t.d].container)' /\ production' = t.d
                     /\ route' = IF verified' THEN t.d ELSE None
      BY <3>1, <2>4, <1>k DEF PromotionKnows, IsRunning
    <3>6. t.pc \in {"done", "drain"}
      BY <2>4
    <3> QED BY <3>3, <3>4, <3>5, <3>6, <2>4 DEF Knows, PromotionKnows, Listed
  <2>9. Become(a, t)
    BY <1>3, <2>1, <2>2, <2>3 DEF ReclaimQuery
  <2> QED BY <2>4, <2>5, <2>8, <2>9, <1>s, <1>p, <1>3, OwnStep DEF ReclaimQuery
<1>4. CASE ReclaimDrain(a)
  <2>1. PICK t : t = [task[a] EXCEPT !.pc = "detach"]
    OBVIOUS
  <2>2. /\ t.op = "promote" /\ t.pc = "detach" /\ t.d = task[a].d /\ t.alone = task[a].alone
        /\ t.todo = task[a].todo
    BY <2>1, <1>t, <1>p DEF Task
  <2>3. WorkShape(a, t)
    BY <2>2, <1>p DEF WorkShape, PromotePC
  <2>4. \A c : IsRunning(c) /\ c \in Container => IsRunning(c)'
    <3>1. PICK p \in task[a].todo : docker' = Drained(p[2])
      BY <1>4 DEF ReclaimDrain
    <3> QED BY <3>1, <1>t DEF Drained, IsRunning
  <2>5. t.alone => Knows(t)'
    <3>1. task[a].pc = "drain" /\ UNCHANGED <<rows, route, verified, background, production>>
      BY <1>4 DEF ReclaimDrain, At
    <3>2. Resident' = Resident /\ Keep' = Keep /\ Listed(t) = Listed(task[a])
      BY <3>1, <2>2 DEF Resident, Keep, Listed
    <3>3. t.alone => Cardinality((Resident' \ {t.d}) \ Listed(t)) <= Keep' /\ t.d \notin Listed(t)
      BY <3>1, <3>2, <2>2, <1>k DEF PromotionKnows
    <3>4. IsRunning(rows[t.d].container) => IsRunning(rows[t.d].container)'
      <4>1. rows[t.d].container \in Container \cup {None}
        BY <1>t, <1>d, <2>2 DEF Row
      <4> QED BY <4>1, <3>1, <2>4 DEF IsRunning
    <3>5. t.alone => /\ IsRunning(rows[t.d].container)' /\ production' = t.d
                     /\ route' = IF verified' THEN t.d ELSE None
      BY <3>1, <3>4, <2>2, <1>k DEF PromotionKnows
    <3> QED BY <3>3, <3>5, <2>2 DEF Knows, PromotionKnows, Listed
  <2>6. Become(a, t)
    BY <1>4, <2>1, <1>t DEF ReclaimDrain, Goto, Become
  <2> QED BY <2>2, <2>3, <2>5, <2>6, <1>s, <1>p, <1>4, OwnStep DEF ReclaimDrain
<1>5. CASE ReclaimDetach(a)
  <2>1. PICK p \in task[a].todo :
           /\ rows' = SetContainer(p[1], None)
           /\ Become(a, [task[a] EXCEPT !.todo = task[a].todo \ {p},
                 !.pc = IF task[a].todo \ {p} = {} THEN "done" ELSE "drain"])
    BY <1>5 DEF ReclaimDetach
  <2>2. PICK t : t = [task[a] EXCEPT !.todo = task[a].todo \ {p},
                 !.pc = IF task[a].todo \ {p} = {} THEN "done" ELSE "drain"]
    OBVIOUS
  <2>3. /\ t.op = "promote" /\ t.d = task[a].d /\ t.alone = task[a].alone
        /\ t.todo = task[a].todo \ {p}
        /\ t.pc = IF t.todo = {} THEN "done" ELSE "drain"
    BY <2>2, <1>t, <1>p DEF Task
  <2>4. WorkShape(a, t)
    BY <2>3, <1>p DEF WorkShape, PromotePC
  <2>5. /\ p[1] \in Deployment /\ rows'[p[1]].container = None
        /\ \A e \in Deployment \ {p[1]} : rows'[e] = rows[e]
        /\ \A e \in Deployment : rows'[e].status = rows[e].status
    BY <2>1, <1>t DEF Task, SetContainer, Row
  <2>6. t.alone => Knows(t)'
    <3> SUFFICES ASSUME t.alone PROVE Knows(t)'
      OBVIOUS
    <3>1. task[a].pc = "detach" /\ UNCHANGED <<docker, route, verified, background, production>>
      BY <1>5 DEF ReclaimDetach, At
    <3>2. PromotionKnows(task[a])
      BY <2>3, <1>k
    <3>3. p[1] \in Listed(task[a]) /\ p[1] # t.d /\ t.d \notin Listed(task[a])
      BY <3>1, <3>2, <2>3 DEF PromotionKnows, Listed
    <3>4. Listed(task[a]) \subseteq Listed(t) \cup {p[1]} /\ Listed(t) \subseteq Listed(task[a])
      BY <2>3 DEF Listed
    <3>5. Resident' \subseteq Resident \ {p[1]}
      BY <2>5 DEF Resident
    <3>6. Cardinality((Resident' \ {t.d}) \ Listed(t)) <= Keep'
      <4>1. PICK S : S = (Resident \ {t.d}) \ Listed(task[a])
        OBVIOUS
      <4>2. PICK T : T = (Resident' \ {t.d}) \ Listed(t)
        OBVIOUS
      <4>3. T \in SUBSET S
        BY <4>1, <4>2, <3>4, <3>5
      <4>4. S \in SUBSET Deployment
        BY <4>1 DEF Resident
      <4>5. IsFiniteSet(S) /\ IsFiniteSet(T) /\ Cardinality(T) <= Cardinality(S)
        BY <4>3, <4>4, FS_Subset
      <4>6. Cardinality(S) \in Nat /\ Cardinality(T) \in Nat
        BY <4>5, FS_CardinalityType
      <4>7. Cardinality(S) <= Keep
        BY <3>1, <3>2, <2>3, <4>1 DEF PromotionKnows
      <4>8. Keep' = Keep /\ Keep \in Nat
        BY <3>1, KeepAssumption DEF Keep
      <4> QED BY <4>2, <4>5, <4>6, <4>7, <4>8
    <3>7. /\ IsRunning(rows[t.d].container)' /\ production' = t.d
          /\ route' = IF verified' THEN t.d ELSE None
      BY <3>1, <3>2, <3>3, <2>3, <2>5, <1>d DEF PromotionKnows, IsRunning
    <3>8. t.pc \in {"done", "drain"} /\ t.d \notin Listed(t)
      BY <2>3, <3>3, <3>4
    <3> QED BY <3>6, <3>7, <3>8, <2>3 DEF Knows, PromotionKnows, Listed
  <2> QED BY <2>1, <2>2, <2>3, <2>4, <2>6, <1>s, <1>p, <1>5, OwnStep DEF ReclaimDetach
<1>6. CASE PromotionDone(a)
  <2>1. Become(a, Rest("loop")) \/ Become(a, Rest("idle"))
    BY <1>6 DEF PromotionDone
  <2>2. "idle" \in {"idle", "down", "loop"} /\ "loop" \in {"idle", "down", "loop"}
    OBVIOUS
  <2> QED BY <2>1, <2>2, <1>6, <1>s, <1>p, GoesOff DEF PromotionDone
<1> QED BY <1>1, <1>2, <1>3, <1>4, <1>5, <1>6

(* Requests begin, and a change of domains finds its deployment. *)
LEMMA RequestClean ==
    ASSUME Undisturbed, TypeOK', Shape', NEW r \in Request, RequestStep(r)
    PROVE  Undisturbed'
<1>t. /\ task \in [Actor -> Task] /\ r \in Actor /\ task[r] \in Task
      /\ WorkShape(r, task[r]) /\ TaskShape(r, task[r])
      /\ production \in Deployment \cup {None} /\ background \in BOOLEAN
  BY DEF Undisturbed, TypeOK, TableTypeOK, Shape, Actor
<1>p. {"check", "target", "domains"} \subseteq PC
  BY DEF PC, PromotePC
<1>1. CASE \E d \in Deployment : RequestPromotion(r, d)
  <2>1. PICK d \in Deployment : RequestPromotion(r, d)
    BY <1>1
  <2>2. PICK t : t = [Rest("check") EXCEPT !.op = "promote", !.d = d]
    OBVIOUS
  <2>3. t \in Task /\ t.op = "promote" /\ t.pc = "check"
    BY <2>2, <1>p DEF Rest, Task, Op
  <2>4. WorkShape(r, t) /\ Knows(t)'
    BY <2>3 DEF WorkShape, Knows, PromotionKnows
  <2>5. Settled'
    BY <2>1, SettledStays DEF RequestPromotion
  <2> QED BY <2>1, <2>2, <2>3, <2>4, <2>5, <1>t, Begins DEF RequestPromotion
<1>2. CASE ChangeDomains(r)
  <2>1. PICK t : t = [Rest("target") EXCEPT !.op = "refresh"]
    OBVIOUS
  <2>2. t \in Task /\ t.op = "refresh" /\ t.pc = "target"
    BY <2>1, <1>p DEF Rest, Task, Op
  <2>3. WorkShape(r, t) /\ Knows(t)'
    BY <2>2, <1>2 DEF WorkShape, Knows, RefreshKnows, ChangeDomains
  <2>4. Settled'
    BY <1>2 DEF ChangeDomains, Undisturbed, Settled
  <2> QED BY <2>1, <2>2, <2>3, <2>4, <1>2, <1>t, Begins DEF ChangeDomains
<1>3. CASE RefreshTarget(r)
  <2>1. /\ task[r].op = "refresh" /\ task[r].pc = "target" /\ ~background
        /\ task[r].op \in Touching
    BY <1>3, <1>t DEF RefreshTarget, At, WorkShape, Touching
  <2>2. Settled'
    BY <1>3, <2>1, SettledStays DEF RefreshTarget
  <2>3. CASE production = None
    <3>1. "idle" \in {"idle", "down", "loop"}
      OBVIOUS
    <3> QED BY <3>1, <2>1, <2>2, <2>3, <1>3, <1>t, GoesOff DEF RefreshTarget
  <2>4. CASE production # None
    <3>1. PICK t : t = [task[r] EXCEPT !.pc = "domains", !.d = production]
      OBVIOUS
    <3>2. /\ t.op = "refresh" /\ t.pc = "domains" /\ t.d = production
          /\ t.alone = task[r].alone
      BY <3>1, <2>1, <1>t DEF Task
    <3>3. WorkShape(r, t)
      BY <3>2, <2>1 DEF WorkShape
    <3>4. Knows(t)'
      BY <3>2, <1>3 DEF Knows, RefreshKnows, RefreshTarget
    <3> QED BY <3>1, <3>2, <3>3, <3>4, <2>1, <2>2, <2>4, <1>3, <1>t, OwnStep
            DEF RefreshTarget
  <2> QED BY <2>3, <2>4
<1> QED BY <1>1, <1>2, <1>3 DEF RequestStep

LEMMA StartupClean ==
    ASSUME Undisturbed, TypeOK', Shape', NEW w \in Worker, StartWorker(w) \/ ReconcileStep(w)
    PROVE  Undisturbed'
<1>t. /\ task \in [Actor -> Task] /\ w \in Actor /\ task[w] \in Task
      /\ rows \in [Deployment -> Row]
      /\ WorkShape(w, task[w]) /\ TaskShape(w, task[w]) /\ Settled
  BY DEF Undisturbed, TypeOK, TableTypeOK, Shape, Actor
<1>p. {"look", "forget", "abandoned"} \subseteq PC
  BY DEF PC
<1>k. task[w].alone /\ task[w].op = "reconcile" => ReconciliationKnows(task[w])
  BY <1>t DEF Undisturbed, Knows
<1>1. CASE StartWorker(w)
  <2>1. PICK todo : todo = {<<d, rows[d].container>> :
                              d \in {e \in Deployment : rows[e].container # None}}
    OBVIOUS
  <2>2. PICK t : t = [Rest("look") EXCEPT !.op = "reconcile", !.todo = todo]
    OBVIOUS
  <2>3. todo \subseteq Deployment \X Container
    BY <2>1, <1>t DEF Row
  <2>4. t \in Task /\ t.op = "reconcile" /\ t.pc = "look" /\ t.todo = todo
    BY <2>2, <2>3, <1>p DEF Rest, Task, Op
  <2>5. WorkShape(w, t)
    BY <2>4 DEF WorkShape
  <2>6. Knows(t)'
    BY <2>1, <2>4, <1>1 DEF StartWorker, Knows, ReconciliationKnows
  <2>7. Settled'
    BY <1>1, SettledStays DEF StartWorker
  <2>8. Begin(w, t)
    BY <1>1, <2>1, <2>2 DEF StartWorker
  <2> QED BY <2>4, <2>5, <2>6, <2>7, <2>8, <1>1, <1>t, Begins DEF StartWorker
<1>2. CASE ReconcileLook(w)
  <2>0. /\ task[w].op = "reconcile" /\ task[w].pc = "look" /\ task[w].op \in Touching
        /\ UNCHANGED <<rows, production, docker, route, verified, background, bounds>>
    BY <1>2 DEF ReconcileLook, At, Touching
  <2>s. Settled'
    BY <2>0, SettledStays
  <2>1. CASE task[w].todo = {} /\ Goto(w, "abandoned")
    <3>1. PICK t : t = [task[w] EXCEPT !.pc = "abandoned"]
      OBVIOUS
    <3>2. /\ t.op = "reconcile" /\ t.pc = "abandoned" /\ t.alone = task[w].alone
      BY <3>1, <2>0, <1>t DEF Task
    <3>3. WorkShape(w, t)
      BY <3>2 DEF WorkShape
    <3>4. t.alone => Knows(t)'
      BY <3>2, <2>0, <2>1, <1>k DEF Knows, ReconciliationKnows, IsRunning
    <3>5. Become(w, t)
      BY <2>1, <3>1, <1>t DEF Goto, Become
    <3> QED BY <3>2, <3>3, <3>4, <3>5, <2>0, <2>s, <1>t, OwnStep
  <2>2. ASSUME NEW p \in task[w].todo, IsRunning(p[2]),
               Become(w, [task[w] EXCEPT !.todo = @ \ {p}])
        PROVE  Undisturbed'
    <3>1. PICK t : t = [task[w] EXCEPT !.todo = @ \ {p}]
      OBVIOUS
    <3>2. /\ t.op = "reconcile" /\ t.pc = "look" /\ t.alone = task[w].alone
          /\ t.todo = task[w].todo \ {p}
      BY <3>1, <2>0, <1>t DEF Task
    <3>3. WorkShape(w, t)
      BY <3>2 DEF WorkShape
    <3>4. t.alone => Knows(t)'
      <4> SUFFICES ASSUME t.alone, NEW d \in Deployment, rows[d].container # None
                   PROVE  \/ IsRunning(rows[d].container)
                          \/ <<d, rows[d].container>> \in t.todo
        BY <3>2, <2>0 DEF Knows, ReconciliationKnows, IsRunning
      <4>1. IsRunning(rows[d].container) \/ <<d, rows[d].container>> \in task[w].todo
        BY <3>2, <2>0, <1>k DEF ReconciliationKnows
      <4>2. CASE <<d, rows[d].container>> = p
        BY <4>2, <2>2
      <4> QED BY <4>1, <4>2, <3>2
    <3> QED BY <2>2, <3>1, <3>2, <3>3, <3>4, <2>0, <2>s, <1>t, OwnStep
  <2>3. ASSUME NEW p \in task[w].todo,
               Become(w, [task[w] EXCEPT !.pc = "forget", !.d = p[1]])
        PROVE  Undisturbed'
    <3>1. PICK t : t = [task[w] EXCEPT !.pc = "forget", !.d = p[1]]
      OBVIOUS
    <3>2. /\ t.op = "reconcile" /\ t.pc = "forget" /\ t.alone = task[w].alone
          /\ t.todo = task[w].todo
      BY <3>1, <2>0, <1>t DEF Task
    <3>3. WorkShape(w, t)
      BY <3>2 DEF WorkShape
    <3>4. t.alone => Knows(t)'
      BY <3>2, <2>0, <1>k DEF Knows, ReconciliationKnows, IsRunning
    <3> QED BY <2>3, <3>1, <3>2, <3>3, <3>4, <2>0, <2>s, <1>t, OwnStep
  <2>4. CASE \E p \in task[w].todo :
               Become(w, IF IsRunning(p[2])
                         THEN [task[w] EXCEPT !.todo = @ \ {p}]
                         ELSE [task[w] EXCEPT !.pc = "forget", !.d = p[1]])
    <3>1. PICK p \in task[w].todo :
               Become(w, IF IsRunning(p[2])
                         THEN [task[w] EXCEPT !.todo = @ \ {p}]
                         ELSE [task[w] EXCEPT !.pc = "forget", !.d = p[1]])
      BY <2>4
    <3>2. CASE IsRunning(p[2])
      BY <3>1, <3>2, <2>2
    <3>3. CASE ~IsRunning(p[2])
      BY <3>1, <3>3, <2>3
    <3> QED BY <3>2, <3>3
  <2> QED BY <1>2, <2>1, <2>4 DEF ReconcileLook
<1>3. CASE ReconcileForget(w)
  <2>0. /\ task[w].op = "reconcile" /\ task[w].pc = "forget" /\ task[w].op \in Touching
        /\ rows' = SetContainer(task[w].d, None)
        /\ UNCHANGED <<production, docker, route, verified, background, bounds>>
    BY <1>3 DEF ReconcileForget, At, Touching
  <2>1. PICK t : t = [task[w] EXCEPT !.pc = "look", !.d = None,
                        !.todo = {p \in task[w].todo : p[1] # task[w].d}]
    OBVIOUS
  <2>2. /\ t.op = "reconcile" /\ t.pc = "look" /\ t.alone = task[w].alone
        /\ t.todo = {p \in task[w].todo : p[1] # task[w].d}
    BY <2>1, <2>0, <1>t DEF Task
  <2>3. WorkShape(w, t)
    BY <2>2 DEF WorkShape
  <2>4. \A d \in Deployment : /\ rows'[d].status = rows[d].status
                              /\ rows'[d].late = rows[d].late
                              /\ d = task[w].d => rows'[d].container = None
                              /\ d # task[w].d => rows'[d] = rows[d]
    BY <2>0, <1>t DEF SetContainer, Row
  <2>5. Settled'
    BY <2>0, <2>4, <1>t DEF Settled
  <2>6. t.alone => Knows(t)'
    <3> SUFFICES ASSUME t.alone, NEW d \in Deployment, rows'[d].container # None
                 PROVE  \/ IsRunning(rows[d].container)'
                        \/ <<d, rows'[d].container>> \in t.todo
      BY <2>2 DEF Knows, ReconciliationKnows
    <3>1. d # task[w].d /\ rows'[d] = rows[d]
      BY <2>4
    <3>2. IsRunning(rows[d].container) \/ <<d, rows[d].container>> \in task[w].todo
      BY <3>1, <2>0, <2>2, <1>k DEF ReconciliationKnows
    <3> QED BY <3>1, <3>2, <2>0, <2>2 DEF IsRunning
  <2>7. Become(w, t)
    BY <1>3, <2>1 DEF ReconcileForget
  <2> QED BY <2>0, <2>2, <2>3, <2>5, <2>6, <2>7, <1>t, OwnStep
<1>4. CASE ReconcileAbandoned(w)
  <2>1. task[w].op \in Touching /\ "loop" \in {"idle", "down", "loop"}
    BY <1>4 DEF ReconcileAbandoned, At, Touching
  <2>2. \A d \in Deployment : rows'[d] = rows[d]
    BY <1>4, <1>t DEF ReconcileAbandoned, Reclaimed, Settled, Abandoned
  <2>3. Settled'
    BY <2>2, <1>4, <1>t DEF Settled, ReconcileAbandoned
  <2> QED BY <2>1, <2>3, <1>4, <1>t, GoesOff DEF ReconcileAbandoned
<1> QED BY <1>1, <1>2, <1>3, <1>4 DEF ReconcileStep

LEMMA EnvironmentClean ==
    ASSUME Undisturbed, TypeOK', Shape', Environment
    PROVE  Undisturbed'
<1>1. ASSUME NEW c \in Container, DrainEnds(c) \/ ContainerDies(c)
      PROVE  Undisturbed'
  BY <1>1, Interferes DEF DrainEnds, ContainerDies
<1>2. ASSUME NEW a \in Actor, PromotionRaises(a) \/ Crash(a)
      PROVE  Undisturbed'
  <2>1. UNCHANGED <<rows, production, docker, route, verified, background>>
    BY <1>2 DEF PromotionRaises, Crash
  <2>2. Settled'
    BY <2>1, SettledStays
  <2>3. \E pc \in {"idle", "down", "loop"} : Become(a, Rest(pc))
    BY <1>2, RaisedIsOff DEF PromotionRaises, Crash, Off
  <2> QED BY <2>1, <2>2, <2>3, GoesOff
<1> QED BY <1>1, <1>2 DEF Environment

LEMMA StartsUndisturbed == PromotionInit => Undisturbed
<1> SUFFICES ASSUME PromotionInit PROVE Undisturbed
  OBVIOUS
<1>1. TypeOK /\ Shape
  BY PromotionStarts
<1>2. \A a \in Actor : /\ task[a].op = "none" /\ ~task[a].alone
                       /\ task[a].pc \in {"idle", "down", "loop"}
  BY DEF PromotionInit, Off, Rest
<1>3. \A d \in Deployment : rows[d].status = "ready" /\ ~rows[d].late
  <2>1. PICK resident \in SUBSET Deployment :
           rows = [d \in Deployment |-> ReadyRow(d, IF d \in resident THEN <<d, 1>> ELSE None)]
    BY DEF PromotionInit
  <2>2. \A d, c : ReadyRow(d, c).status = "ready" /\ ReadyRow(d, c).late = FALSE
    BY DEF ReadyRow, NoRow
  <2> QED BY <2>1, <2>2
<1>4. Settled
  BY <1>3 DEF Settled, PromotionInit
<1>5. \A a \in Actor : WorkShape(a, task[a])
  BY <1>2 DEF WorkShape
<1>6. Alone /\ \A a \in Actor : task[a].alone => Knows(task[a])
  BY <1>2 DEF Alone
<1> QED BY <1>1, <1>4, <1>5, <1>6 DEF Undisturbed

LEMMA StaysUndisturbed ==
    ASSUME IsFiniteSet(Deployment), Undisturbed, [PromotionNext]_promotionVars
    PROVE  Undisturbed'
<1>1. CASE UNCHANGED promotionVars
  <2>1. /\ rows' = rows /\ production' = production /\ docker' = docker /\ route' = route
        /\ verified' = verified /\ background' = background /\ task' = task
        /\ tasks' = tasks /\ faults' = faults
    BY <1>1 DEF promotionVars, bounds
  <2>2. TypeOK' /\ Shape'
    BY <2>1 DEF Undisturbed, TypeOK, TableTypeOK, Shape
  <2>3. (\A a \in Actor : WorkShape(a, task[a])') /\ Alone' /\ Settled'
    BY <2>1 DEF Undisturbed, WorkShape, Alone, Settled
  <2>4. Resident' = Resident /\ Keep' = Keep /\ \A c : IsRunning(c)' <=> IsRunning(c)
    BY <2>1 DEF Resident, Keep, IsRunning
  <2>5. ASSUME NEW a \in Actor, task[a].alone PROVE Knows(task[a])'
    <3>1. Knows(task[a])
      BY <2>5 DEF Undisturbed
    <3> QED BY <3>1, <2>1, <2>4
            DEF Knows, PromotionKnows, RefreshKnows, ReconciliationKnows, Listed, IsRunning
  <2> QED BY <2>1, <2>2, <2>3, <2>5 DEF Undisturbed
<1>2. CASE PromotionNext
  <2>1. TypeOK' /\ Shape'
    BY <1>2, PromotionNextType DEF Undisturbed
  <2> QED BY <1>2, <2>1, LaunchingClean, PublishingClean, ReclaimClean, RequestClean,
             StartupClean, EnvironmentClean DEF PromotionNext, PromotionStep
<1> QED BY <1>1, <1>2

(* What a promotion or a startup reconciliation leaves when nothing interfered
   with it: after a promotion the pointer, the route and the container agree
   and no more than the warm few stay resident; after a reconciliation every
   container a row records runs.  For any number of deployments, requests and
   workers, whatever crashed, raced or was lost before (promote.py, reclaim,
   service.reconcile). *)
THEOREM PromotionLeavesCleanWork ==
    ASSUME IsFiniteSet(Deployment)
    PROVE  PromotionSpec => []CleanWork
<1>1. Undisturbed => CleanWork
  <2> SUFFICES ASSUME Undisturbed PROVE CleanWork
    OBVIOUS
  <2>1. ASSUME NEW a \in Actor, At(a, "promote", "done"), task[a].alone
        PROVE  LET d == task[a].d
               IN  /\ production = d
                   /\ route = ServedRoute
                   /\ IsRunning(rows[d].container)
                   /\ Cardinality(Resident \ {d}) <= Keep
    <3>1. PromotionKnows(task[a]) /\ task[a].pc = "done"
      BY <2>1 DEF At, Undisturbed, Knows
    <3>2. Listed(task[a]) = {}
      BY <3>1 DEF PromotionKnows, Listed
    <3>3. (Resident \ {task[a].d}) \ Listed(task[a]) = Resident \ {task[a].d}
      BY <3>2
    <3>4. Cardinality(Resident \ {task[a].d}) <= Keep
      BY <3>1, <3>3 DEF PromotionKnows
    <3>5. task[a].d # None
      BY <2>1, NumberAssumption DEF At, Undisturbed, Shape, TaskShape
    <3> QED BY <3>1, <3>4, <3>5 DEF PromotionKnows, ServedRoute
  <2>2. ASSUME NEW w \in Worker, At(w, "reconcile", "abandoned"), task[w].alone,
               NEW d \in Deployment, rows[d].container # None
        PROVE  IsRunning(rows[d].container)
    BY <2>2 DEF At, Undisturbed, Knows, ReconciliationKnows, Actor
  <2> QED BY <2>1, <2>2 DEF CleanWork, CleanPromotion, ReconcileTellsTruth
<1>2. Undisturbed /\ [PromotionNext]_promotionVars => Undisturbed'
  BY StaysUndisturbed
<1> QED BY <1>1, <1>2, StartsUndisturbed, PTL DEF PromotionSpec

(* A change of domains nothing interfered with, when it answers, has left the
   route naming what is in production, and nothing without a verified domain
   (routing.refresh). *)
THEOREM PromotionRefreshesClean ==
    ASSUME IsFiniteSet(Deployment)
    PROVE  PromotionSpec => CleanRefresh
<1>1. Undisturbed /\ [PromotionNext]_promotionVars =>
         [\A r \in Request :
            (task[r].op = "refresh" /\ task[r].alone /\ task'[r].op = "none"
               /\ faults' = faults)
            => route' = ServedRoute']_promotionVars
  <2> SUFFICES ASSUME Undisturbed, PromotionNext, NEW r \in Request,
                      task[r].op = "refresh", task[r].alone, task'[r].op = "none",
                      faults' = faults
               PROVE  route' = ServedRoute'
    OBVIOUS
  <2>t. /\ task \in [Actor -> Task] /\ r \in Actor /\ faults \in Nat
        /\ TaskShape(r, task[r]) /\ WorkShape(r, task[r]) /\ RefreshKnows(task[r])
    BY BoundAssumption DEF Undisturbed, TypeOK, Shape, Actor, Knows
  <2>1. CASE PublishWrite(r)
    <3>1. production' = task[r].d /\ task[r].d # None /\ task[r].dom = verified /\ verified' = verified
      BY <2>1, <2>t, NumberAssumption DEF PublishWrite, RefreshKnows, TaskShape
    <3> QED BY <2>1, <3>1 DEF PublishWrite, ServedRoute
  <2>2. CASE RefreshTarget(r)
    <3>1. CASE production = None
      BY <2>2, <3>1 DEF RefreshTarget, ServedRoute
    <3>2. CASE production # None
      <4>1. task'[r].op = "refresh"
        BY <2>2, <3>2, <2>t DEF RefreshTarget, Become, Task
      <4> QED BY <4>1
    <3> QED BY <3>1, <3>2
  <2>3. ASSUME NEW a \in Actor, a # r, NEW t, Become(a, t) PROVE FALSE
    BY <2>3, <2>t DEF Become
  <2>4. ASSUME NEW a \in Actor, a # r, NEW pc, Goto(a, pc) PROVE FALSE
    BY <2>4, <2>t DEF Goto
  <2>5. ASSUME Interfere PROVE FALSE
    BY <2>5, <2>t DEF Interfere, Task
  <2>6. ASSUME NEW a \in Actor, NEW t, Begin(a, t), t \in Task, t.op # "none" PROVE FALSE
    BY <2>6, <2>t DEF Begin, Task
  <2>7. ASSUME Fault PROVE FALSE
    BY <2>7, <2>t DEF Fault
  <2>8. ASSUME NEW a \in Actor, PromotionStep(a), a # r PROVE FALSE
    BY <2>8, <2>3, <2>4
       DEF PromotionStep, EnsurePromotable, EnsureServing, LaunchRun, LaunchRefused,
           HealthPasses, HealthFails, Attach, PublishRead, PublishWrite, SetProduction,
           RereadProject, ReclaimQuery, ReclaimDrain, ReclaimDetach, PromotionDone
  <2>9. ASSUME PromotionStep(r), ~PublishWrite(r) PROVE FALSE
    <3>1. task[r].pc \in {"target", "domains", "write"}
      BY <2>t DEF TaskShape
    <3>2. PublishRead(r)
      BY <2>9, <3>1 DEF PromotionStep, EnsurePromotable, EnsureServing, LaunchRun, LaunchRefused,
           HealthPasses, HealthFails, Attach, SetProduction,
           RereadProject, ReclaimQuery, ReclaimDrain, ReclaimDetach, PromotionDone, At
    <3> QED BY <3>2, <2>t DEF PublishRead, Become, Task
  <2>10. ASSUME NEW q \in Request, RequestStep(q), ~RefreshTarget(r) PROVE FALSE
    <3>1. q \in Actor
      BY DEF Actor
    <3>2. ASSUME NEW d \in Deployment, RequestPromotion(q, d) PROVE FALSE
      <4>1. PICK t : t = [Rest("check") EXCEPT !.op = "promote", !.d = d]
        OBVIOUS
      <4>2. t \in Task /\ t.op # "none"
        BY <4>1 DEF Task, Rest, Op, PC
      <4> QED BY <3>1, <3>2, <4>1, <4>2, <2>6 DEF RequestPromotion
    <3>3. ASSUME ChangeDomains(q) PROVE FALSE
      <4>1. PICK t : t = [Rest("target") EXCEPT !.op = "refresh"]
        OBVIOUS
      <4>2. t \in Task /\ t.op # "none"
        BY <4>1 DEF Task, Rest, Op, PC
      <4> QED BY <3>1, <3>3, <4>1, <4>2, <2>6 DEF ChangeDomains
    <3>4. ASSUME RefreshTarget(q), q # r PROVE FALSE
      BY <3>1, <3>4, <2>3 DEF RefreshTarget
    <3> QED BY <2>10, <3>2, <3>3, <3>4 DEF RequestStep
  <2>11. ASSUME NEW w \in Worker, StartWorker(w) \/ ReconcileStep(w) PROVE FALSE
    <3>1. w \in Actor /\ w # r
      BY RequestAssumption DEF Actor
    <3>2. ASSUME StartWorker(w) PROVE FALSE
      <4>1. task'[r].op = "refresh"
        BY <3>1, <3>2, <2>t DEF StartWorker, Begin, Task
      <4> QED BY <4>1
    <3>3. ASSUME ReconcileStep(w) PROVE FALSE
      BY <3>1, <3>3, <2>3, <2>4
         DEF ReconcileStep, ReconcileLook, ReconcileForget, ReconcileAbandoned
    <3> QED BY <2>11, <3>2, <3>3
  <2>12. ASSUME Environment PROVE FALSE
    BY <2>12, <2>5, <2>7 DEF Environment, DrainEnds, ContainerDies, PromotionRaises, Crash
  <2> QED BY <2>1, <2>2, <2>8, <2>9, <2>10, <2>11, <2>12 DEF PromotionNext
<1>2. Undisturbed /\ [PromotionNext]_promotionVars => Undisturbed'
  BY StaysUndisturbed
<1> QED BY <1>1, <1>2, StartsUndisturbed, PTL DEF PromotionSpec, CleanRefresh
=============================================================================
