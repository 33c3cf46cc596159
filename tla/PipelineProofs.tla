--------------------------- MODULE PipelineProofs ---------------------------
(***************************************************************************)
(* Proofs about module Pipeline: for every number of deployments, workers, *)
(* requests, crashes and lapsed leases, a deployment has one builder, what *)
(* is in production was once ready, what is recorded as replaced never     *)
(* started, and the table implements module Lifecycle.                     *)
(*                                                                         *)
(* The inductive invariant has four parts: each row agrees with itself     *)
(* (RowOK), each task agrees with the row it works on (TaskOK), no two     *)
(* workers hold one deployment (Exclusive), and a replaced build has its   *)
(* replacement (Replaced).  Every statement of the table is one RowStep,   *)
(* which a task that did not run it cannot notice.                         *)
(*                                                                         *)
(* Two invariants on top of it give the action properties: if no worker    *)
(* that lives outlives its lease, what the sweep takes is in nobody's      *)
(* hands (LostInv); with one worker and no promotions by hand, what waits  *)
(* for production is newer than what is built, and that than what serves   *)
(* (ForwardInv).                                                           *)
(***************************************************************************)
EXTENDS Pipeline, PromotionProofs

-----------------------------------------------------------------------------
(* Types *)

LEMMA QueueStepType ==
    ASSUME TypeOK, Shape, NEW r \in Request, RequestDeploys(r)
    PROVE  TypeOK' /\ Shape'
<1>t. /\ TableTypeOK /\ rows \in [Deployment -> Row]
      /\ docker \in [Container -> {"unborn", "running", "draining", "gone"}]
      /\ route \in Deployment \cup {None}
      /\ task \in [Actor -> Task] /\ task[r] \in Task /\ r \in Actor
      /\ tasks \in 0..MaxTasks
  BY DEF TypeOK, TableTypeOK, Actor
<1>s. TaskShape(r, task[r])
  BY <1>t DEF Shape
<1>p. {"supersede", "cancel", "idle"} \subseteq PC
  BY DEF PC
<1>r. Rest("idle") \in Task /\ TaskShape(r, Rest("idle"))
  BY <1>t, <1>p, RestType, RestShape
<1>1. ASSUME NEW d \in Deployment, NEW ref \in Ref, NEW trigger \in Trigger,
             QueueDeploy(r, d, ref, trigger)
      PROVE  TypeOK' /\ Shape'
  <2> DEFINE t == [Rest("supersede") EXCEPT !.op = "queue", !.d = d]
  <2>1. t \in Task /\ TaskShape(r, t)
    BY <1>p DEF Rest, Task, Op, TaskShape
  <2>2. Become(r, t) \/ Become(r, Rest("idle"))
    BY <1>1 DEF QueueDeploy
  <2>3. task' \in [Actor -> Task] /\ Shape'
    <3> HIDE DEF t
    <3> QED BY <2>1, <2>2, <1>r, <1>t, BecomeType, BecomeShape
  <2>4. rows' \in [Deployment -> Row]
    BY <1>1, <1>t, StatementTypes DEF QueueDeploy
  <2> QED BY <1>1, <2>3, <2>4, <1>t, TypeFrame DEF QueueDeploy, TableTypeOK
<1>2. CASE Supersede(r)
  <2>1. task' \in [Actor -> Task] /\ Shape'
    BY <1>2, <1>r, <1>t, BecomeType, BecomeShape DEF Supersede
  <2>2. rows' \in [Deployment -> Row]
    BY <1>2, <1>t, StatementTypes DEF Supersede
  <2> QED BY <1>2, <2>1, <2>2, <1>t, TypeFrame DEF Supersede, TableTypeOK
<1>3. ASSUME NEW d \in Deployment, CancelRead(r, d)
      PROVE  TypeOK' /\ Shape'
  <2> DEFINE t == [Rest("cancel") EXCEPT !.op = "cancel", !.d = d]
  <2>1. t \in Task /\ TaskShape(r, t)
    BY <1>p DEF Rest, Task, Op, TaskShape
  <2>2. Become(r, t)
    BY <1>3 DEF CancelRead
  <2>3. task' \in [Actor -> Task] /\ Shape'
    <3> HIDE DEF t
    <3> QED BY <2>1, <2>2, <1>t, BecomeType, BecomeShape
  <2>4. tasks' \in 0..MaxTasks
    BY <1>3, <1>t, BoundAssumption DEF CancelRead, Asked
  <2> QED BY <1>3, <2>3, <2>4 DEF CancelRead, TypeOK, TableTypeOK
<1>4. CASE CancelWrite(r)
  <2>1. task' \in [Actor -> Task] /\ Shape'
    BY <1>4, <1>r, <1>t, BecomeType, BecomeShape DEF CancelWrite
  <2>2. rows' \in [Deployment -> Row]
    BY <1>4, <1>t, StatementTypes DEF CancelWrite
  <2> QED BY <1>4, <2>1, <2>2, <1>t, TypeFrame DEF CancelWrite, TableTypeOK
<1> QED BY <1>1, <1>2, <1>3, <1>4 DEF RequestDeploys

LEMMA DeployStepType ==
    ASSUME TypeOK, Shape, NEW w \in Worker, DeployStep(w) \/ LoopSurvives(w)
    PROVE  TypeOK' /\ Shape'
<1>t. /\ TableTypeOK /\ rows \in [Deployment -> Row]
      /\ docker \in [Container -> {"unborn", "running", "draining", "gone"}]
      /\ route \in Deployment \cup {None}
      /\ task \in [Actor -> Task] /\ task[w] \in Task /\ w \in Actor
      /\ faults \in 0..MaxFaults
  BY DEF TypeOK, TableTypeOK, Actor
<1>s. TaskShape(w, task[w])
  BY <1>t DEF Shape
<1>p. {"checkout", "plan", "build", "built", "launch", "fail", "check", "loop"}
         \subseteq PC
  BY DEF PC, PromotePC
<1>r. Rest("loop") \in Task /\ TaskShape(w, Rest("loop"))
  BY <1>t, <1>p, RestType, RestShape
<1>g. ASSUME NEW pc \in {"plan", "build", "built", "launch", "fail"},
             Goto(w, pc), task[w].op = "deploy"
      PROVE  task' \in [Actor -> Task] /\ Shape'
  <2>1. TaskShape(w, [task[w] EXCEPT !.pc = pc])
    BY <1>g, <1>t, <1>s DEF TaskShape, Task
  <2> QED BY <1>g, <2>1, <1>t, <1>p, GotoType, GotoShape
<1>1. CASE SweepAbandoned(w)
  <2>1. rows' \in [Deployment -> Row]
    BY <1>1, <1>t, StatementTypes DEF SweepAbandoned
  <2> QED BY <1>1, <2>1, <1>t, TypeFrame DEF SweepAbandoned, TableTypeOK, Shape
<1>2. CASE ClaimNext(w)
  <2>1. PICK d \in Deployment :
           /\ rows' = Claimed(d, w)
           /\ Become(w, [Rest("checkout") EXCEPT !.op = "deploy", !.d = d])
    BY <1>2 DEF ClaimNext
  <2> DEFINE t == [Rest("checkout") EXCEPT !.op = "deploy", !.d = d]
  <2>2. t \in Task /\ TaskShape(w, t)
    BY <1>p DEF Rest, Task, Op, TaskShape
  <2>3. task' \in [Actor -> Task] /\ Shape'
    <3>1. Become(w, t)
      BY <2>1
    <3> HIDE DEF t
    <3> QED BY <2>2, <3>1, <1>t, BecomeType, BecomeShape
  <2>4. rows' \in [Deployment -> Row]
    BY <2>1, <1>t, StatementTypes
  <2> QED BY <1>2, <2>3, <2>4, <1>t, TypeFrame DEF ClaimNext, TableTypeOK
<1>3. CASE Checkout(w) \/ Plan(w)
  <2>1. rows' \in [Deployment -> Row]
    BY <1>3, <1>t, StatementTypes DEF Checkout, Plan
  <2> QED BY <1>3, <2>1, <1>g, <1>t, TypeFrame DEF Checkout, Plan, At, TableTypeOK
<1>4. CASE Build(w) \/ PhaseFails(w)
  BY <1>4, <1>g, <1>t, TypeFrame DEF Build, PhaseFails, At, TableTypeOK
<1>5. CASE MarkBuilt(w)
  <2>1. rows' \in [Deployment -> Row]
    BY <1>5, <1>t, StatementTypes DEF MarkBuilt
  <2>2. task' \in [Actor -> Task] /\ Shape'
    BY <1>5, <1>g DEF MarkBuilt, At
  <2> QED BY <1>5, <2>1, <2>2, <1>t, TypeFrame DEF MarkBuilt, TableTypeOK
<1>6. CASE MarkReady(w)
  <2> DEFINE t == [Rest("check") EXCEPT !.op = "promote", !.d = task[w].d]
  <2>1. t \in Task /\ TaskShape(w, t)
    BY <1>6, <1>t, <1>s, <1>p DEF MarkReady, At, Rest, Task, Op, TaskShape
  <2>2. Begin(w, t) \/ Begin(w, Rest("loop"))
    BY <1>6 DEF MarkReady
  <2>3. task' \in [Actor -> Task] /\ Shape'
    <3> HIDE DEF t
    <3> QED BY <2>1, <2>2, <1>r, <1>t, BeginType, BeginShape
  <2>4. task[w].c \in Container \cup {None}
    BY <1>t DEF Task
  <2>5. rows' \in [Deployment -> Row]
    BY <1>6, <2>4, <1>t, StatementTypes DEF MarkReady
  <2> QED BY <1>6, <2>3, <2>5, <1>t, TypeFrame DEF MarkReady, TableTypeOK
<1>7. CASE MarkFailed(w)
  <2>1. task' \in [Actor -> Task] /\ Shape'
    BY <1>7, <1>r, <1>t, BecomeType, BecomeShape DEF MarkFailed
  <2>2. rows' \in [Deployment -> Row]
    BY <1>7, <1>t, StatementTypes DEF MarkFailed
  <2> QED BY <1>7, <2>1, <2>2, <1>t, TypeFrame DEF MarkFailed, TableTypeOK
<1>8. CASE LoopSurvives(w)
  <2>1. task' \in [Actor -> Task] /\ Shape'
    BY <1>8, <1>r, <1>t, BecomeType, BecomeShape DEF LoopSurvives
  <2>2. faults' \in 0..MaxFaults
    BY <1>8, <1>t, BoundAssumption DEF LoopSurvives, Fault
  <2> QED BY <1>8, <2>1, <2>2 DEF LoopSurvives, TypeOK, TableTypeOK
<1> QED
  BY <1>1, <1>2, <1>3, <1>4, <1>5, <1>6, <1>7, <1>8 DEF DeployStep

LEMMA InitType == Init => TypeOK /\ Shape
<1> SUFFICES ASSUME Init PROVE TypeOK /\ Shape
  OBVIOUS
<1>1. NoRow \in Row
  BY BranchAssumption DEF NoRow, Row, Status, Terminal, Trigger, Error
<1>2. \A a \in Actor : Off(a) \in Task /\ TaskShape(a, Off(a))
  <2>1. "down" \in PC /\ "idle" \in PC
    BY DEF PC
  <2> QED BY <2>1, RestType, RestShape DEF Off
<1> QED BY <1>1, <1>2, BoundAssumption DEF Init, TypeOK, TableTypeOK, Shape

LEMMA NextType ==
    ASSUME TypeOK, Shape, [Next]_vars
    PROVE  TypeOK' /\ Shape'
<1>1. CASE UNCHANGED vars
  BY <1>1 DEF vars, promotionVars, bounds, TypeOK, TableTypeOK, Shape
<1>2. ASSUME NEW w \in Worker, WorkerStep(w) \/ LoopSurvives(w)
      PROVE  TypeOK' /\ Shape'
  <2>1. w \in Actor
    BY DEF Actor
  <2> QED BY <1>2, <2>1, DeployStepType, StartupType, PromotionStepType,
             PromotionStepShape DEF WorkerStep
<1>3. ASSUME NEW r \in Request,
             RequestDeploys(r) \/ RequestPromotes(r) \/ PromotionStep(r)
      PROVE  TypeOK' /\ Shape'
  <2>1. r \in Actor
    BY DEF Actor
  <2>2. RequestPromotes(r) => RequestStep(r)
    BY DEF RequestPromotes, RequestStep
  <2> QED BY <1>3, <2>1, <2>2, QueueStepType, RequestStepType,
             PromotionStepType, PromotionStepShape
<1>4. ASSUME NEW d \in Deployment, LeaseExpires(d)
      PROVE  TypeOK' /\ Shape'
  <2>1. rows' \in [Deployment -> Row]
    BY ZenonT(40), <1>4 DEF LeaseExpires, TypeOK, TableTypeOK, Row
  <2> QED BY <1>4, <2>1, TypeFrame DEF LeaseExpires, TypeOK, TableTypeOK, Shape
<1> QED BY <1>1, <1>2, <1>3, <1>4, EnvironmentType DEF Next

(* Every reachable state of the queue, the workers, the requests and Docker
   has the types the code gives it, for every value of the constants. *)
THEOREM PipelineTypes == Spec => []TypeOK
<1>1. Spec => [](TypeOK /\ Shape)
  <2>1. TypeOK /\ Shape /\ [Next]_vars => (TypeOK /\ Shape)'
    BY NextType
  <2> QED BY <2>1, InitType, PTL DEF Spec
<1> QED BY <1>1, PTL

-----------------------------------------------------------------------------
(* The inductive invariant *)

\* A row agrees with itself: in flight exactly while it is leased, ready only
\* with a past moment of being ready, built only once it left the build, and
\* replaced only while it waited.
RowOK(r) ==
    /\ r.lease # None <=> r.status \in InFlight
    /\ r.status = "ready" => r.readyAt
    /\ r.readyAt => r.built
    /\ r.built => r.status \notin {"none", "queued", "building"}
    /\ r.status = "deploying" => r.built
    /\ r.error = "replaced" => r.status = "cancelled" /\ ~r.built

\* What one statement may do to a row, as a task that did not run it sees it.
Harmless(r, s) ==
    /\ r.status # "none" =>
          /\ s.status # "none" /\ s.ref = r.ref /\ s.trigger = r.trigger
          /\ r.readyAt => s.readyAt
          /\ r.built => s.built
    /\ r.status \notin {"none", "queued"} =>
          /\ s.status \notin {"none", "queued"}
          /\ s.status \in InFlight => r.status \in InFlight /\ s.lease = r.lease
          /\ s.error = "replaced" => r.error = "replaced"

\* The same as module Lifecycle sees it.
Lives(r, s) ==
    \/ s.status = r.status /\ s.built = r.built
    \/ /\ <<r.status, s.status>> \in L!Edges
       /\ s.built <=> (r.built \/ s.status = "deploying")
       /\ s.status = "ready" => r.built

RowStep(r, s) == RowOK(s) /\ Harmless(r, s) /\ Lives(r, s)

Steps(rs) == \A d \in Deployment : RowStep(rows[d], rs[d])

\* No statement but supersede_queued records a build as replaced.
NoneReplaced(rs) ==
    \A d \in Deployment : rs[d].error = "replaced" => rows[d].error = "replaced"

Rows == \A d \in Deployment : RowOK(rows[d])

Holds(w, t, d) == w \in Worker /\ t.op \in {"deploy", "promote"} /\ t.d = d

\* A task agrees with the row it works on.
TaskOK(a, t, rs) ==
    /\ a \in Worker /\ t.op \in {"deploy", "promote"} =>
          /\ rs[t.d].status \notin {"none", "queued"}
          /\ rs[t.d].status \in InFlight => rs[t.d].lease = a
          /\ rs[t.d].error # "replaced"
    /\ t.op = "deploy" /\ t.pc \in {"launch", "health", "attach", "ready"}
          => rs[t.d].built
    /\ t.op = "promote" /\ t.pc # "check" => rs[t.d].readyAt
    /\ t.op = "refresh" /\ t.pc # "target" => rs[t.d].readyAt
    /\ t.op \in {"queue", "cancel"} => rs[t.d].status # "none"
    /\ t.op = "queue" => rs[t.d].trigger = "push"

Tasks == \A a \in Actor : TaskOK(a, task[a], rows)

Exclusive ==
    \A v, w \in Worker, d \in Deployment :
        Holds(v, task[v], d) /\ Holds(w, task[w], d) => v = w

\* A build recorded as replaced has its replacement.
NewerPush(d, e, rs) ==
    /\ e > d /\ rs[e].ref = rs[d].ref
    /\ rs[e].trigger = "push" /\ rs[e].status # "none"

Replaced ==
    \A d \in Deployment : rows[d].error = "replaced" =>
        \E e \in Deployment : NewerPush(d, e, rows)

Inv == /\ TypeOK /\ Shape
       /\ Rows /\ Tasks /\ Exclusive /\ Replaced
       /\ ProductionWasReady

-----------------------------------------------------------------------------
(* Every statement of the table is a step of each row. *)
LEMMA SameRow ==
    ASSUME NEW r, RowOK(r)
    PROVE  RowStep(r, r)
BY DEF RowStep, RowOK, Harmless, Lives

LEMMA CreatedSteps ==
    ASSUME TypeOK, Rows, NEW d \in Deployment, ~Exists(d),
           NEW ref \in Ref, NEW trigger \in Trigger
    PROVE  Steps(Created(d, ref, trigger)) /\ NoneReplaced(Created(d, ref, trigger))
<1> DEFINE s == [NoRow EXCEPT !.status = "queued", !.ref = ref, !.trigger = trigger]
<1>1. rows[d] \in Row /\ RowOK(rows[d]) /\ rows[d].status = "none"
  BY DEF TypeOK, TableTypeOK, Rows, Exists
<1>2. RowStep(rows[d], s) /\ s.error = "none"
  BY <1>1 DEF NoRow, Row, RowStep, RowOK, Harmless, Lives, L!Edges, InFlight
<1>3. \A e \in Deployment : Created(d, ref, trigger)[e] = IF e = d THEN s ELSE rows[e]
  BY DEF Created, TypeOK, TableTypeOK
<1> HIDE DEF s
<1> QED BY <1>2, <1>3, SameRow DEF Steps, NoneReplaced, Rows

LEMMA ClaimedSteps ==
    ASSUME TypeOK, Rows, NEW d \in Deployment, NEW w \in Worker,
           rows[d].status = "queued"
    PROVE  Steps(Claimed(d, w)) /\ NoneReplaced(Claimed(d, w))
<1> DEFINE s == [rows[d] EXCEPT !.status = "building", !.lease = w, !.late = FALSE]
<1>1. rows[d] \in Row /\ RowOK(rows[d])
  BY DEF TypeOK, TableTypeOK, Rows
<1>2. RowStep(rows[d], s) /\ (s.error = "replaced" => rows[d].error = "replaced")
  BY <1>1, WorkerAssumption DEF Row, RowStep, RowOK, Harmless, Lives, L!Edges, L!Over, InFlight,
                Status, Terminal
<1>3. \A e \in Deployment : Claimed(d, w)[e] = IF e = d THEN s ELSE rows[e]
  BY DEF Claimed, TypeOK, TableTypeOK
<1> HIDE DEF s
<1> QED BY <1>2, <1>3, SameRow DEF Steps, NoneReplaced, Rows

LEMMA HeartbeatSteps ==
    ASSUME TypeOK, Rows, NEW d \in Deployment
    PROVE  Steps(Heartbeat(d)) /\ NoneReplaced(Heartbeat(d))
<1> DEFINE s == [rows[d] EXCEPT !.late = FALSE]
<1>1. rows[d] \in Row /\ RowOK(rows[d])
  BY DEF TypeOK, TableTypeOK, Rows
<1>2. RowStep(rows[d], s) /\ (s.error = "replaced" => rows[d].error = "replaced")
  BY <1>1 DEF Row, RowStep, RowOK, Harmless, Lives, L!Edges, L!Over, InFlight,
                Status, Terminal
<1>3. \A e \in Deployment : Heartbeat(d)[e] = IF e = d THEN s ELSE rows[e]
  BY DEF Heartbeat, TypeOK, TableTypeOK
<1> HIDE DEF s
<1> QED BY <1>2, <1>3, SameRow DEF Steps, NoneReplaced, Rows

LEMMA MarkedBuiltSteps ==
    ASSUME TypeOK, Rows, NEW d \in Deployment, LeaseMatchesStatus(Built(rows[d]))
    PROVE  Steps(MarkedBuilt(d)) /\ NoneReplaced(MarkedBuilt(d))
<1> DEFINE s == [rows[d] EXCEPT !.status = "deploying", !.built = TRUE]
<1>1. rows[d] \in Row /\ RowOK(rows[d])
  BY DEF TypeOK, TableTypeOK, Rows
<1>2. RowStep(rows[d], s) /\ (s.error = "replaced" => rows[d].error = "replaced")
  BY <1>1 DEF Row, RowStep, RowOK, Harmless, Lives, L!Edges, L!Over, InFlight,
                Status, Terminal, Built, LeaseMatchesStatus
<1>3. \A e \in Deployment : MarkedBuilt(d)[e] = IF e = d THEN s ELSE rows[e]
  BY DEF MarkedBuilt, TypeOK, TableTypeOK, Built, LeaseMatchesStatus
<1> HIDE DEF s
<1> QED BY <1>2, <1>3, SameRow DEF Steps, NoneReplaced, Rows

LEMMA MarkedReadySteps ==
    ASSUME TypeOK, Rows, NEW d \in Deployment, NEW c,
           rows[d].built
    PROVE  Steps(MarkedReady(d, c)) /\ NoneReplaced(MarkedReady(d, c))
<1> DEFINE s == [rows[d] EXCEPT !.status = "ready", !.container = c, !.error = "none",
                              !.readyAt = TRUE, !.lease = None, !.late = FALSE]
<1>1. rows[d] \in Row /\ RowOK(rows[d])
  BY DEF TypeOK, TableTypeOK, Rows
<1>2. RowStep(rows[d], s) /\ (s.error = "replaced" => rows[d].error = "replaced")
  BY <1>1 DEF Row, RowStep, RowOK, Harmless, Lives, L!Edges, L!Over, InFlight,
                Status, Terminal
<1>3. \A e \in Deployment : MarkedReady(d, c)[e] = IF e = d THEN s ELSE rows[e]
  BY DEF MarkedReady, TypeOK, TableTypeOK
<1> HIDE DEF s
<1> QED BY <1>2, <1>3, SameRow DEF Steps, NoneReplaced, Rows

LEMMA MarkedFailedSteps ==
    ASSUME TypeOK, Rows, NEW d \in Deployment,
           rows[d].status \notin {"none", "queued"}
    PROVE  Steps(MarkedFailed(d)) /\ NoneReplaced(MarkedFailed(d))
<1> DEFINE s == [rows[d] EXCEPT !.status = "failed", !.error = "raised",
                              !.lease = None, !.late = FALSE]
<1>1. rows[d] \in Row /\ RowOK(rows[d])
  BY DEF TypeOK, TableTypeOK, Rows
<1>2. RowStep(rows[d], s) /\ (s.error = "replaced" => rows[d].error = "replaced")
  BY <1>1 DEF Row, RowStep, RowOK, Harmless, Lives, L!Edges, L!Over, InFlight,
                Status, Terminal
<1>3. \A e \in Deployment : MarkedFailed(d)[e] = IF e = d THEN s ELSE rows[e]
  BY DEF MarkedFailed, TypeOK, TableTypeOK
<1> HIDE DEF s
<1> QED BY <1>2, <1>3, SameRow DEF Steps, NoneReplaced, Rows

LEMMA MarkedCancelledSteps ==
    ASSUME TypeOK, Rows, NEW d \in Deployment, rows[d].status # "none"
    PROVE  Steps(MarkedCancelled(d)) /\ NoneReplaced(MarkedCancelled(d))
<1> DEFINE s == [rows[d] EXCEPT !.status = "cancelled", !.lease = None, !.late = FALSE]
<1>1. rows[d] \in Row /\ RowOK(rows[d])
  BY DEF TypeOK, TableTypeOK, Rows
<1>2. RowStep(rows[d], s) /\ (s.error = "replaced" => rows[d].error = "replaced")
  BY <1>1 DEF Row, RowStep, RowOK, Harmless, Lives, L!Edges, L!Over, InFlight,
                Status, Terminal
<1>3. \A e \in Deployment : MarkedCancelled(d)[e] = IF e = d THEN s ELSE rows[e]
  BY DEF MarkedCancelled, TypeOK, TableTypeOK
<1> HIDE DEF s
<1> QED BY <1>2, <1>3, SameRow DEF Steps, NoneReplaced, Rows

LEMMA SetContainerSteps ==
    ASSUME TypeOK, Rows, NEW d, NEW c
    PROVE  Steps(SetContainer(d, c)) /\ NoneReplaced(SetContainer(d, c))
<1>1. ASSUME NEW e \in Deployment
      PROVE  /\ RowStep(rows[e], SetContainer(d, c)[e])
             /\ SetContainer(d, c)[e].error = rows[e].error
  <2>1. rows[e] \in Row /\ RowOK(rows[e])
    BY DEF TypeOK, TableTypeOK, Rows
  <2>2. SetContainer(d, c)[e] \in {rows[e], [rows[e] EXCEPT !.container = c]}
    BY DEF SetContainer, TypeOK, TableTypeOK
  <2>3. RowStep(rows[e], [rows[e] EXCEPT !.container = c])
    BY <2>1 DEF Row, RowStep, RowOK, Harmless, Lives
  <2> QED BY <2>1, <2>2, <2>3, SameRow DEF Row
<1> QED BY <1>1 DEF Steps, NoneReplaced

LEMMA ReclaimedSteps ==
    ASSUME TypeOK, Rows
    PROVE  Steps(Reclaimed) /\ NoneReplaced(Reclaimed)
<1>1. ASSUME NEW e \in Deployment
      PROVE  /\ RowStep(rows[e], Reclaimed[e])
             /\ Reclaimed[e].error = "replaced" => rows[e].error = "replaced"
  <2>1. rows[e] \in Row /\ RowOK(rows[e])
    BY DEF TypeOK, TableTypeOK, Rows
  <2>2. CASE Abandoned(e)
    <3>1. Reclaimed[e] = [rows[e] EXCEPT !.status = "failed", !.error = "abandoned",
                                         !.lease = None, !.late = FALSE]
      BY <2>2 DEF Reclaimed
    <3> QED BY <2>1, <2>2, <3>1 DEF Abandoned, Row, RowStep, RowOK, Harmless, Lives,
               L!Edges, L!Over, InFlight
  <2>3. CASE ~Abandoned(e)
    BY <2>1, <2>3, SameRow DEF Reclaimed
  <2> QED BY <2>2, <2>3
<1> QED BY <1>1 DEF Steps, NoneReplaced

LEMMA SupersededSteps ==
    ASSUME TypeOK, Rows, NEW d
    PROVE  Steps(Superseded(d))
<1>1. ASSUME NEW e \in Deployment
      PROVE  RowStep(rows[e], Superseded(d)[e])
  <2>1. rows[e] \in Row /\ RowOK(rows[e])
    BY DEF TypeOK, TableTypeOK, Rows
  <2>2. CASE e \in ReplacedBy(d)
    <3>1. Superseded(d)[e] = [rows[e] EXCEPT !.status = "cancelled", !.error = "replaced"]
      BY <2>2 DEF Superseded
    <3>2. rows[e].status = "queued"
      BY <2>2 DEF ReplacedBy
    <3> QED BY <2>1, <3>1, <3>2 DEF Row, RowStep, RowOK, Harmless, Lives,
               L!Edges, L!Over, InFlight
  <2>3. CASE e \notin ReplacedBy(d)
    BY <2>1, <2>3, SameRow DEF Superseded
  <2> QED BY <2>2, <2>3
<1> QED BY <1>1 DEF Steps

-----------------------------------------------------------------------------
(* What a statement and a task's move leave of the invariant. *)
LEMMA TaskKeeps ==
    ASSUME Rows, NEW rs, Steps(rs), NEW a, NEW t, TaskOK(a, t, rows),
           t.op \in {"deploy", "promote", "queue", "cancel"} => t.d \in Deployment,
           t.op = "refresh" /\ t.pc # "target" => t.d \in Deployment
    PROVE  TaskOK(a, t, rs)
<1>1. CASE t.d \in Deployment
  <2>1. Harmless(rows[t.d], rs[t.d]) /\ RowOK(rows[t.d])
    BY <1>1 DEF Steps, RowStep, Rows
  <2> QED BY <2>1 DEF TaskOK, Harmless, RowOK
<1>2. CASE t.d \notin Deployment
  BY <1>2 DEF TaskOK
<1> QED BY <1>1, <1>2

\* a may go on as t: t agrees with the table, and holds what a held.
MayBecome(a, t) ==
    /\ TaskOK(a, t, rows')
    /\ a \in Worker /\ t.op \in {"deploy", "promote"}
          => task[a].op \in {"deploy", "promote"} /\ t.d = task[a].d

LEMMA OthersKeep ==
    ASSUME TypeOK, Shape, Rows, Tasks, Steps(rows'), NEW b \in Actor
    PROVE  TaskOK(b, task[b], rows')
BY TaskKeeps DEF Tasks, Shape, TaskShape

LEMMA BecomeKeeps ==
    ASSUME TypeOK, Shape, Rows, Tasks, Exclusive, Steps(rows'),
           NEW a \in Actor, NEW t, MayBecome(a, t), Become(a, t)
    PROVE  Tasks' /\ Exclusive'
<1>1. \A b \in Actor : task'[b] = IF b = a THEN t ELSE task[b]
  BY DEF Become, TypeOK
<1>2. Tasks'
  BY <1>1, OthersKeep DEF Tasks, MayBecome
<1>3. ASSUME NEW w \in Worker, NEW d, Holds(w, task'[w], d)
      PROVE  Holds(w, task[w], d)
  BY <1>1, <1>3 DEF Holds, MayBecome, Actor
<1> QED BY <1>2, <1>3 DEF Exclusive

LEMMA BeginKeeps ==
    ASSUME TypeOK, Shape, Rows, Tasks, Exclusive, Steps(rows'),
           NEW a \in Actor, NEW t \in Task, MayBecome(a, t), Begin(a, t)
    PROVE  Tasks' /\ Exclusive'
<1>1. ASSUME NEW b \in Actor
      PROVE  LET u == IF b = a THEN t ELSE task[b]
             IN  task'[b].op = u.op /\ task'[b].pc = u.pc /\ task'[b].d = u.d
  BY DEF Begin, TypeOK, Task
<1>2. ASSUME NEW b \in Actor PROVE TaskOK(b, task'[b], rows')
  BY <1>1, OthersKeep DEF TaskOK, MayBecome
<1>3. ASSUME NEW w \in Worker, NEW d, Holds(w, task'[w], d)
      PROVE  Holds(w, task[w], d)
  BY <1>1, <1>3 DEF Holds, MayBecome, Actor
<1> QED BY <1>2, <1>3 DEF Tasks, Exclusive

LEMMA InterfereKeeps ==
    ASSUME TypeOK, Shape, Rows, Tasks, Exclusive, Steps(rows'), Interfere
    PROVE  Tasks' /\ Exclusive'
<1>1. ASSUME NEW b \in Actor
      PROVE  /\ task'[b].op = task[b].op
             /\ task'[b].pc = task[b].pc /\ task'[b].d = task[b].d
  BY DEF Interfere, TypeOK, Task
<1>2. ASSUME NEW b \in Actor PROVE TaskOK(b, task'[b], rows')
  BY <1>1, OthersKeep DEF TaskOK
<1>3. ASSUME NEW w \in Worker, NEW d, Holds(w, task'[w], d)
      PROVE  Holds(w, task[w], d)
  BY <1>1, <1>3 DEF Holds, Actor
<1> QED BY <1>2, <1>3 DEF Tasks, Exclusive

LEMMA SameTaskKeeps ==
    ASSUME TypeOK, Shape, Rows, Tasks, Exclusive, Steps(rows'), UNCHANGED task
    PROVE  Tasks' /\ Exclusive'
BY OthersKeep DEF Tasks, Exclusive

LEMMA SameRowsStep ==
    ASSUME Rows, UNCHANGED rows
    PROVE  Steps(rows') /\ NoneReplaced(rows')
BY SameRow DEF Steps, NoneReplaced, Rows

LEMMA ReplacedKeeps ==
    ASSUME TypeOK, Replaced, Steps(rows'), NoneReplaced(rows'), Rows
    PROVE  Replaced'
<1> SUFFICES ASSUME NEW d \in Deployment, rows'[d].error = "replaced"
             PROVE  \E e \in Deployment : NewerPush(d, e, rows')
  BY DEF Replaced
<1>1. rows[d].error = "replaced"
  BY DEF NoneReplaced
<1>2. PICK e \in Deployment : NewerPush(d, e, rows)
  BY <1>1 DEF Replaced
<1>3. Harmless(rows[d], rows'[d]) /\ Harmless(rows[e], rows'[e])
  BY DEF Steps, RowStep
<1>4. rows[d].status = "cancelled"
  BY <1>1 DEF Rows, RowOK
<1> QED BY <1>2, <1>3, <1>4 DEF NewerPush, Harmless

\* A pointer stays where it was or moves to what was once ready.
MayPoint(p, q) ==
    \/ q \in {p, None}
    \/ q \in Deployment /\ rows'[q].readyAt

LEMMA PointersKeep ==
    ASSUME TypeOK, Rows, ProductionWasReady, Steps(rows'),
           MayPoint(production, production'), MayPoint(route, route')
    PROVE  ProductionWasReady'
<1>1. \A d \in Deployment : rows[d].readyAt => rows'[d].readyAt
  BY DEF Steps, RowStep, Harmless, Rows, RowOK
<1>2. production \in Deployment \cup {None} /\ route \in Deployment \cup {None}
  BY DEF TypeOK, TableTypeOK
<1> QED BY <1>1, <1>2 DEF ProductionWasReady, MayPoint

LEMMA RowsKeep ==
    ASSUME Steps(rows') PROVE Rows'
BY DEF Steps, RowStep, Rows

\* All of it together, but for the types.
Kept == Steps(rows') /\ Rows' /\ Tasks' /\ Exclusive' /\ Replaced'
           /\ ProductionWasReady'

LEMMA KeptBy ==
    ASSUME Inv, Steps(rows'), NoneReplaced(rows'), Tasks', Exclusive',
           MayPoint(production, production'), MayPoint(route, route')
    PROVE  Kept
BY RowsKeep, ReplacedKeeps, PointersKeep DEF Kept, Inv

LEMMA RestMayBecome ==
    ASSUME NEW a, NEW pc PROVE MayBecome(a, Rest(pc))
BY DEF MayBecome, TaskOK, Rest

LEMMA RaisedMayBecome ==
    ASSUME Inv, NEW a \in Actor, task[a].op \in {"deploy", "promote", "refresh"},
           Steps(rows')
    PROVE  MayBecome(a, Raised(a))
<1>1. CASE a \in Worker
  <2>1. task[a].op \in {"deploy", "promote"}
    BY <1>1, RequestAssumption DEF Inv, Shape, TaskShape
  <2>2. TaskOK(a, task[a], rows')
    BY OthersKeep DEF Inv
  <2>3. Raised(a).op = "deploy" /\ Raised(a).pc = "fail" /\ Raised(a).d = task[a].d
    BY <1>1 DEF Raised, Rest
  <2> QED BY <1>1, <2>1, <2>2, <2>3 DEF MayBecome, TaskOK
<1>2. CASE a \notin Worker
  BY <1>2, RestMayBecome DEF Raised
<1> QED BY <1>1, <1>2

-----------------------------------------------------------------------------
(* The actions *)

LEMMA PromotionStepKeeps ==
    ASSUME Inv, NEW a \in Actor, PromotionStep(a)
    PROVE  Kept
<1>t. /\ TypeOK /\ Shape /\ Rows /\ Tasks /\ Exclusive
      /\ task \in [Actor -> Task] /\ task[a] \in Task
      /\ TaskShape(a, task[a]) /\ TaskOK(a, task[a], rows)
  BY DEF Inv, TypeOK, Shape, Tasks
<1>k. ASSUME Steps(rows'), NoneReplaced(rows'), NEW t, MayBecome(a, t), Become(a, t),
             MayPoint(production, production'), MayPoint(route, route')
      PROVE  Kept
  BY <1>k, <1>t, BecomeKeeps, KeptBy
<1>u. ASSUME UNCHANGED rows PROVE Steps(rows') /\ NoneReplaced(rows')
  BY <1>u, <1>t, SameRowsStep
<1>m. ASSUME Steps(rows'), NEW t, t.op = task[a].op, t.d = task[a].d,
             t.op = "promote" => task[a].pc # "check",
             t.op = "refresh" => task[a].pc # "target",
             t.op = "deploy" => task[a].pc \in {"launch", "health", "attach"}
      PROVE  MayBecome(a, t)
  <2>1. TaskOK(a, task[a], rows')
    BY <1>m, <1>t, OthersKeep
  <2> QED BY <2>1, <1>m DEF MayBecome, TaskOK
<1>r. ASSUME Steps(rows'), task[a].op \in {"deploy", "promote", "refresh"}
      PROVE  MayBecome(a, Raised(a))
  BY <1>r, RaisedMayBecome
<1>g. \A pc : [task[a] EXCEPT !.pc = pc].op = task[a].op
              /\ [task[a] EXCEPT !.pc = pc].d = task[a].d
  BY <1>t DEF Task
<1>h. \A pc : Goto(a, pc) => Become(a, [task[a] EXCEPT !.pc = pc])
  BY DEF Goto, Become
<1>1. CASE EnsurePromotable(a)
  <2> DEFINE t == [task[a] EXCEPT !.pc = "serve", !.c = rows[task[a].d].container]
  <2>1. t.op = task[a].op /\ t.d = task[a].d /\ t.pc = "serve"
    BY <1>t DEF Task
  <2>2. task[a].op = "promote" /\ task[a].d \in Deployment /\ UNCHANGED rows
    BY <1>1, <1>t DEF EnsurePromotable, At, TaskShape
  <2>3. CASE Promotable(task[a].d) /\ Become(a, t)
    <3>1. rows'[task[a].d].readyAt
      BY <2>2, <2>3, <1>t DEF Promotable, Rows, RowOK
    <3>2. MayBecome(a, t)
      <4> HIDE DEF t
      <4> QED BY <2>1, <2>2, <3>1, <1>t DEF MayBecome, TaskOK
    <3> HIDE DEF t
    <3> QED BY <1>1, <2>2, <2>3, <3>2, <1>k, <1>u DEF EnsurePromotable, MayPoint
  <2>4. CASE Become(a, Raised(a))
    BY <1>1, <2>2, <2>4, <1>r, <1>k, <1>u DEF EnsurePromotable, MayPoint
  <2> QED BY <1>1, <2>3, <2>4 DEF EnsurePromotable
<1>2. CASE EnsureServing(a)
  <2> DEFINE t == [task[a] EXCEPT !.c = None,
                     !.pc = IF IsRunning(task[a].c) THEN Serving ELSE "launch"]
  <2>1. t.op = task[a].op /\ t.d = task[a].d
    BY <1>t DEF Task
  <2>2. Become(a, t) /\ UNCHANGED <<rows, production, route>>
    BY <1>2 DEF EnsureServing
  <2>3. MayBecome(a, t)
    <3> HIDE DEF t
    <3> QED BY <1>2, <2>1, <2>2, <1>u, <1>m DEF EnsureServing, At
  <2> HIDE DEF t
  <2> QED BY <2>2, <2>3, <1>k, <1>u DEF MayPoint
<1>3. CASE LaunchRun(a)
  <2>1. PICK c \in Container : Become(a, [task[a] EXCEPT !.pc = "health", !.c = c])
    BY <1>3 DEF LaunchRun
  <2> DEFINE t == [task[a] EXCEPT !.pc = "health", !.c = c]
  <2>2. t.op = task[a].op /\ t.d = task[a].d
    BY <1>t DEF Task
  <2>3. /\ UNCHANGED <<rows, production, route>>
        /\ task[a].pc = "launch" /\ task[a].op \in {"deploy", "promote"}
    BY <1>3, <1>t DEF LaunchRun, TaskShape
  <2>4. MayBecome(a, t) /\ Become(a, t)
    <3>1. Become(a, t)
      BY <2>1
    <3> HIDE DEF t
    <3> QED BY <2>2, <2>3, <3>1, <1>u, <1>m
  <2> HIDE DEF t
  <2> QED BY <2>3, <2>4, <1>k, <1>u DEF MayPoint
<1>4. CASE LaunchRefused(a) \/ HealthFails(a)
  <2>1. /\ task[a].op \in {"deploy", "promote"} /\ Become(a, Raised(a))
        /\ UNCHANGED <<rows, production, route>>
    BY <1>4, <1>t DEF LaunchRefused, HealthFails, TaskShape
  <2> QED BY <2>1, <1>r, <1>k, <1>u DEF MayPoint
<1>5. CASE HealthPasses(a)
  <2>1. /\ Goto(a, "attach") /\ UNCHANGED <<rows, production, route>>
        /\ task[a].pc = "health" /\ task[a].op \in {"deploy", "promote"}
    BY <1>5, <1>t DEF HealthPasses, TaskShape
  <2>2. MayBecome(a, [task[a] EXCEPT !.pc = "attach"])
    BY <2>1, <1>g, <1>u, <1>m
  <2> QED BY <2>1, <2>2, <1>h, <1>k, <1>u DEF MayPoint
<1>6. CASE Attach(a)
  <2>1. /\ rows' = SetContainer(task[a].d, task[a].c) /\ UNCHANGED <<production, route>>
        /\ task[a].pc = "attach" /\ task[a].op \in {"deploy", "promote"}
    BY <1>6, <1>t DEF Attach, TaskShape
  <2>2. Steps(rows') /\ NoneReplaced(rows')
    BY <2>1, <1>t, SetContainerSteps
  <2> DEFINE t == [task[a] EXCEPT !.pc = Serving, !.c = None]
  <2>3. t.op = task[a].op /\ t.d = task[a].d
    BY <1>t DEF Task
  <2>4. Goto(a, "ready") \/ Become(a, t)
    BY <1>6 DEF Attach
  <2>5. MayBecome(a, t) /\ MayBecome(a, [task[a] EXCEPT !.pc = "ready"])
    <3> HIDE DEF t
    <3> QED BY <2>1, <2>2, <2>3, <1>g, <1>m
  <2> HIDE DEF t
  <2> QED BY <2>1, <2>2, <2>4, <2>5, <1>h, <1>k DEF MayPoint
<1>7. CASE PublishRead(a)
  <2> DEFINE t == [task[a] EXCEPT !.pc = "write", !.dom = verified]
  <2>1. t.op = task[a].op /\ t.d = task[a].d
    BY <1>t DEF Task
  <2>2. /\ Become(a, t) /\ UNCHANGED <<rows, production, route>>
        /\ task[a].pc = "domains" /\ task[a].op \in {"promote", "refresh"}
    BY <1>7, <1>t DEF PublishRead, TaskShape
  <2>3. MayBecome(a, t)
    <3> HIDE DEF t
    <3> QED BY <2>1, <2>2, <1>u, <1>m
  <2> HIDE DEF t
  <2> QED BY <2>2, <2>3, <1>k, <1>u DEF MayPoint
<1>8. CASE PublishWrite(a)
  <2>1. /\ UNCHANGED <<rows, production>>
        /\ task[a].pc = "write" /\ task[a].op \in {"promote", "refresh"}
    BY <1>8, <1>t DEF PublishWrite, TaskShape
  <2>2. task[a].d \in Deployment /\ rows'[task[a].d].readyAt
    BY <2>1, <1>t DEF TaskOK, TaskShape
  <2>3. MayPoint(route, route')
    BY <1>8, <2>2 DEF PublishWrite, MayPoint
  <2> DEFINE t == [task[a] EXCEPT !.pc = "point", !.dom = FALSE]
  <2>4. t.op = task[a].op /\ t.d = task[a].d
    BY <1>t DEF Task
  <2>5. Become(a, t) \/ Become(a, Rest("idle"))
    BY <1>8 DEF PublishWrite
  <2>6. MayBecome(a, t)
    <3> HIDE DEF t
    <3> QED BY <2>1, <2>4, <1>u, <1>m
  <2> HIDE DEF t
  <2> QED BY <2>1, <2>3, <2>5, <2>6, <1>k, <1>u, RestMayBecome DEF MayPoint
<1>9. CASE SetProduction(a)
  <2>1. /\ Goto(a, "reread") /\ UNCHANGED <<rows, route>>
        /\ production' = task[a].d
        /\ task[a].pc = "point" /\ task[a].op = "promote"
    BY <1>9 DEF SetProduction, At
  <2>2. task[a].d \in Deployment /\ rows'[task[a].d].readyAt
    BY <2>1, <1>t DEF TaskOK, TaskShape
  <2>3. MayBecome(a, [task[a] EXCEPT !.pc = "reread"])
    BY <2>1, <1>g, <1>u, <1>m
  <2> QED BY <2>1, <2>2, <2>3, <1>h, <1>k, <1>u DEF MayPoint
<1>10. CASE RereadProject(a)
  <2> DEFINE t == [task[a] EXCEPT !.pc = "reclaim", !.ptr = production]
  <2>1. t.op = task[a].op /\ t.d = task[a].d
    BY <1>t DEF Task
  <2>2. /\ Become(a, t) /\ UNCHANGED <<rows, production, route>>
        /\ task[a].pc = "reread" /\ task[a].op = "promote"
    BY <1>10 DEF RereadProject, At
  <2>3. MayBecome(a, t)
    <3> HIDE DEF t
    <3> QED BY <2>1, <2>2, <1>u, <1>m
  <2> HIDE DEF t
  <2> QED BY <2>2, <2>3, <1>k, <1>u DEF MayPoint
<1>11. CASE ReclaimQuery(a)
  <2>1. /\ UNCHANGED <<rows, production, route>>
        /\ task[a].pc = "reclaim" /\ task[a].op = "promote"
    BY <1>11 DEF ReclaimQuery, At
  <2>2. ASSUME NEW todo, NEW pc
        PROVE  MayBecome(a, [task[a] EXCEPT !.todo = todo, !.pc = pc, !.ptr = None])
    <3> DEFINE t == [task[a] EXCEPT !.todo = todo, !.pc = pc, !.ptr = None]
    <3>1. t.op = task[a].op /\ t.d = task[a].d
      BY <1>t DEF Task
    <3> HIDE DEF t
    <3>2. MayBecome(a, t)
      BY <2>1, <3>1, <1>u, <1>m
    <3> QED BY <3>2 DEF t
  <2> QED BY <1>11, <2>1, <2>2, <1>k, <1>u DEF ReclaimQuery, MayPoint
<1>12. CASE ReclaimDrain(a)
  <2>1. /\ Goto(a, "detach") /\ UNCHANGED <<rows, production, route>>
        /\ task[a].pc = "drain" /\ task[a].op = "promote"
    BY <1>12 DEF ReclaimDrain, At
  <2>2. MayBecome(a, [task[a] EXCEPT !.pc = "detach"])
    BY <2>1, <1>g, <1>u, <1>m
  <2> QED BY <2>1, <2>2, <1>h, <1>k, <1>u DEF MayPoint
<1>13. CASE ReclaimDetach(a)
  <2>1. /\ UNCHANGED <<production, route>>
        /\ task[a].pc = "detach" /\ task[a].op = "promote"
    BY <1>13 DEF ReclaimDetach, At
  <2>2. Steps(rows') /\ NoneReplaced(rows')
    BY <1>13, <1>t, SetContainerSteps DEF ReclaimDetach
  <2>3. ASSUME NEW todo, NEW pc
        PROVE  MayBecome(a, [task[a] EXCEPT !.todo = todo, !.pc = pc])
    <3> DEFINE t == [task[a] EXCEPT !.todo = todo, !.pc = pc]
    <3>1. t.op = task[a].op /\ t.d = task[a].d
      BY <1>t DEF Task
    <3> HIDE DEF t
    <3>2. MayBecome(a, t)
      BY <2>1, <2>2, <3>1, <1>m
    <3> QED BY <3>2 DEF t
  <2> QED BY <1>13, <2>1, <2>2, <2>3, <1>k DEF ReclaimDetach, MayPoint
<1>14. CASE PromotionDone(a)
  <2>1. /\ Become(a, Rest(IF a \in Worker THEN "loop" ELSE "idle"))
        /\ UNCHANGED <<rows, production, route>>
    BY <1>14 DEF PromotionDone
  <2> QED BY <2>1, <1>k, <1>u, RestMayBecome DEF MayPoint
<1> QED
  BY <1>1, <1>2, <1>3, <1>4, <1>5, <1>6, <1>7, <1>8, <1>9, <1>10, <1>11,
     <1>12, <1>13, <1>14 DEF PromotionStep

LEMMA RequestKeeps ==
    ASSUME Inv, NEW r \in Request, RequestDeploys(r) \/ RequestPromotes(r)
    PROVE  Kept
<1>t. /\ TypeOK /\ Shape /\ Rows /\ Tasks /\ Exclusive /\ Replaced
      /\ task \in [Actor -> Task] /\ task[r] \in Task /\ r \in Actor /\ r \notin Worker
      /\ TaskShape(r, task[r]) /\ TaskOK(r, task[r], rows)
  BY RequestAssumption DEF Inv, TypeOK, Shape, Tasks, Actor
<1>k. ASSUME Steps(rows'), NoneReplaced(rows'), NEW t, MayBecome(r, t), Become(r, t),
             UNCHANGED production, MayPoint(route, route')
      PROVE  Kept
  BY <1>k, <1>t, BecomeKeeps, KeptBy DEF MayPoint
<1>u. ASSUME UNCHANGED rows PROVE Steps(rows') /\ NoneReplaced(rows')
  BY <1>u, <1>t, SameRowsStep
<1>1. ASSUME NEW d \in Deployment, NEW ref \in Ref, NEW trigger \in Trigger,
             QueueDeploy(r, d, ref, trigger)
      PROVE  Kept
  <2>1. /\ ~Exists(d) /\ rows' = Created(d, ref, trigger)
        /\ UNCHANGED <<production, route>>
    BY <1>1 DEF QueueDeploy, IsNextNumber
  <2>2. Steps(rows') /\ NoneReplaced(rows')
    BY <2>1, <1>t, CreatedSteps
  <2> DEFINE t == [Rest("supersede") EXCEPT !.op = "queue", !.d = d]
  <2>3. trigger = "push" => MayBecome(r, t)
    BY <2>1, <1>t DEF MayBecome, TaskOK, Rest, Created, TypeOK, TableTypeOK
  <2>4. CASE trigger = "push" /\ Become(r, t)
    <3> HIDE DEF t
    <3> QED BY <2>1, <2>2, <2>3, <2>4, <1>k DEF MayPoint
  <2>5. CASE Become(r, Rest("idle"))
    BY <2>1, <2>2, <2>5, <1>k, RestMayBecome DEF MayPoint
  <2> QED BY <1>1, <2>4, <2>5 DEF QueueDeploy
<1>2. CASE Supersede(r)
  <2> DEFINE n == task[r].d
  <2>1. /\ rows' = Superseded(n) /\ Become(r, Rest("idle"))
        /\ UNCHANGED <<production, route>>
        /\ task[r].op = "queue"
    BY <1>2 DEF Supersede, At
  <2>2. /\ n \in Deployment
        /\ rows[n].trigger = "push" /\ rows[n].status # "none"
    BY <2>1, <1>t DEF TaskShape, TaskOK
  <2>3. Steps(rows')
    BY <2>1, <1>t, SupersededSteps
  <2>4. Tasks' /\ Exclusive'
    BY <2>1, <2>3, <1>t, BecomeKeeps, RestMayBecome
  <2>5. Replaced'
    <3> SUFFICES ASSUME NEW d \in Deployment, rows'[d].error = "replaced"
                 PROVE  \E e \in Deployment : NewerPush(d, e, rows')
      BY DEF Replaced
    <3>1. /\ Harmless(rows[d], rows'[d]) /\ RowOK(rows[d])
          /\ \A e \in Deployment : Harmless(rows[e], rows'[e])
      BY <2>3, <1>t DEF Steps, RowStep, Rows
    <3>2. CASE d \in ReplacedBy(n)
      <4>1. n > d /\ rows[d].ref = rows[n].ref /\ rows[d].status = "queued"
        BY <2>2, <3>2, NumberAssumption DEF ReplacedBy
      <4>2. NewerPush(d, n, rows')
        BY <4>1, <3>1, <2>2 DEF NewerPush, Harmless
      <4> QED BY <4>2, <2>2
    <3>3. CASE d \notin ReplacedBy(n)
      <4>1. rows[d].error = "replaced"
        BY <2>1, <3>3 DEF Superseded
      <4>2. PICK e \in Deployment : NewerPush(d, e, rows)
        BY <4>1, <1>t DEF Replaced
      <4>3. NewerPush(d, e, rows')
        BY <4>1, <4>2, <3>1 DEF NewerPush, Harmless, RowOK
      <4> QED BY <4>3
    <3> QED BY <3>2, <3>3
  <2>6. ProductionWasReady'
    BY <2>1, <2>3, PointersKeep DEF MayPoint, Inv
  <2> QED BY <2>3, <2>4, <2>5, <2>6, RowsKeep DEF Kept
<1>3. ASSUME NEW d \in Deployment, CancelRead(r, d)
      PROVE  Kept
  <2> DEFINE t == [Rest("cancel") EXCEPT !.op = "cancel", !.d = d]
  <2>1. /\ Become(r, t) /\ UNCHANGED <<rows, production, route>>
        /\ rows[d].status = "queued"
    BY <1>3 DEF CancelRead
  <2>2. MayBecome(r, t)
    BY <2>1, <1>t DEF MayBecome, TaskOK, Rest
  <2> HIDE DEF t
  <2> QED BY <2>1, <2>2, <1>k, <1>u DEF MayPoint
<1>4. CASE CancelWrite(r)
  <2>1. /\ rows' = MarkedCancelled(task[r].d) /\ Become(r, Rest("idle"))
        /\ UNCHANGED <<production, route>>
        /\ task[r].op = "cancel"
    BY <1>4 DEF CancelWrite, At
  <2>2. Steps(rows') /\ NoneReplaced(rows')
    BY <2>1, <1>t, MarkedCancelledSteps DEF TaskShape, TaskOK
  <2> QED BY <2>1, <2>2, <1>k, RestMayBecome DEF MayPoint
<1>5. ASSUME NEW t \in Task, Begin(r, t), MayBecome(r, t),
             UNCHANGED <<rows, production, route>>
      PROVE  Kept
  BY <1>5, <1>u, <1>t, BeginKeeps, KeptBy DEF MayPoint
<1>6. ASSUME NEW d \in Deployment, RequestPromotion(r, d)
      PROVE  Kept
  <2> DEFINE t == [Rest("check") EXCEPT !.op = "promote", !.d = d]
  <2>1. Begin(r, t) /\ UNCHANGED <<rows, production, route>>
    BY <1>6 DEF RequestPromotion
  <2>2. t \in Task /\ MayBecome(r, t)
    BY ZenonT(40), <1>t DEF MayBecome, TaskOK, Rest, Task, Op, PC
  <2> HIDE DEF t
  <2> QED BY <2>1, <2>2, <1>5
<1>7. CASE ChangeDomains(r)
  <2> DEFINE t == [Rest("target") EXCEPT !.op = "refresh"]
  <2>1. Begin(r, t) /\ UNCHANGED <<rows, production, route>>
    BY <1>7 DEF ChangeDomains
  <2>2. t \in Task /\ MayBecome(r, t)
    BY ZenonT(40), <1>t DEF MayBecome, TaskOK, Rest, Task, Op, PC
  <2> HIDE DEF t
  <2> QED BY <2>1, <2>2, <1>5
<1>8. CASE RefreshTarget(r)
  <2>1. /\ task[r].op = "refresh" /\ UNCHANGED <<rows, production>>
        /\ production \in Deployment \cup {None}
        /\ MayPoint(route, route')
    BY <1>8, <1>t DEF RefreshTarget, At, MayPoint, TypeOK, TableTypeOK
  <2> DEFINE t == [task[r] EXCEPT !.pc = "domains", !.d = production]
  <2>2. production # None => MayBecome(r, t)
    <3> SUFFICES ASSUME production # None PROVE MayBecome(r, t)
      OBVIOUS
    <3>1. t.op = "refresh" /\ t.d = production
      BY <2>1, <1>t DEF Task
    <3>2. rows'[production].readyAt
      BY <2>1 DEF Inv, ProductionWasReady
    <3> HIDE DEF t
    <3> QED BY <3>1, <3>2, <1>t DEF MayBecome, TaskOK
  <2>3. CASE production # None /\ Become(r, t)
    <3> HIDE DEF t
    <3> QED BY <2>1, <2>2, <2>3, <1>k, <1>u
  <2>4. CASE Become(r, Rest("idle"))
    BY <2>1, <2>4, <1>k, <1>u, RestMayBecome
  <2> QED BY <1>8, <2>3, <2>4 DEF RefreshTarget
<1> QED BY <1>1, <1>2, <1>3, <1>4, <1>6, <1>7, <1>8
        DEF RequestDeploys, RequestPromotes

LEMMA StartupKeeps ==
    ASSUME Inv, NEW w \in Worker, StartWorker(w) \/ ReconcileStep(w)
    PROVE  Kept
<1>t. /\ TypeOK /\ Shape /\ Rows /\ Tasks /\ Exclusive
      /\ task \in [Actor -> Task] /\ task[w] \in Task /\ w \in Actor
  BY DEF Inv, TypeOK, Actor
<1>k. ASSUME Steps(rows'), NoneReplaced(rows'), NEW t, MayBecome(w, t), Become(w, t),
             UNCHANGED <<production, route>>
      PROVE  Kept
  BY <1>k, <1>t, BecomeKeeps, KeptBy DEF MayPoint
<1>u. ASSUME UNCHANGED rows PROVE Steps(rows') /\ NoneReplaced(rows')
  BY <1>u, <1>t, SameRowsStep
<1>m. ASSUME NEW t, t.op = "reconcile" PROVE MayBecome(w, t)
  BY <1>m DEF MayBecome, TaskOK
<1>1. CASE StartWorker(w)
  <2> DEFINE todo == {<<d, rows[d].container>> :
                        d \in {e \in Deployment : rows[e].container # None}}
             t == [Rest("look") EXCEPT !.op = "reconcile", !.todo = todo]
  <2>1. Begin(w, t) /\ UNCHANGED <<rows, production, route>>
    BY <1>1 DEF StartWorker
  <2>2. todo \subseteq Deployment \X Container
    BY <1>t DEF TypeOK, TableTypeOK, Row
  <2>3. t \in Task /\ t.op = "reconcile"
    <3> HIDE DEF todo
    <3> QED BY <2>2 DEF Rest, Task, Op, PC
  <2> HIDE DEF t
  <2>4. Tasks' /\ Exclusive'
    BY <2>1, <2>3, <1>m, <1>u, <1>t, BeginKeeps
  <2> QED BY <2>1, <2>4, <1>u, KeptBy DEF MayPoint
<1>2. CASE ReconcileLook(w)
  <2>1. task[w].op = "reconcile" /\ UNCHANGED <<rows, production, route>>
    BY <1>2 DEF ReconcileLook, At
  <2>2. CASE Goto(w, "abandoned")
    <3> DEFINE t == [task[w] EXCEPT !.pc = "abandoned"]
    <3>1. Become(w, t)
      BY <2>2 DEF Goto, Become
    <3>2. MayBecome(w, t)
      BY <2>1, <1>m, <1>t DEF Task
    <3> HIDE DEF t
    <3> QED BY <2>1, <3>1, <3>2, <1>k, <1>u
  <2>3. ASSUME NEW p \in task[w].todo,
               Become(w, IF IsRunning(p[2])
                         THEN [task[w] EXCEPT !.todo = @ \ {p}]
                         ELSE [task[w] EXCEPT !.pc = "forget", !.d = p[1]])
        PROVE  Kept
    <3> DEFINE t == IF IsRunning(p[2])
                    THEN [task[w] EXCEPT !.todo = @ \ {p}]
                    ELSE [task[w] EXCEPT !.pc = "forget", !.d = p[1]]
    <3>1. Become(w, t) /\ t.op = "reconcile"
      BY <2>1, <2>3, <1>t DEF Task
    <3> HIDE DEF t
    <3> QED BY <2>1, <3>1, <1>m, <1>k, <1>u
  <2> QED BY <1>2, <2>2, <2>3 DEF ReconcileLook
<1>3. CASE ReconcileForget(w)
  <2> DEFINE t == [task[w] EXCEPT !.pc = "look", !.d = None,
                      !.todo = {p \in @ : p[1] # task[w].d}]
  <2>1. /\ rows' = SetContainer(task[w].d, None) /\ UNCHANGED <<production, route>>
        /\ Become(w, t) /\ task[w].op = "reconcile"
    BY <1>3 DEF ReconcileForget, At
  <2>2. t.op = "reconcile"
    BY <2>1, <1>t DEF Task
  <2>3. Steps(rows') /\ NoneReplaced(rows')
    BY <2>1, <1>t, SetContainerSteps
  <2> HIDE DEF t
  <2> QED BY <2>1, <2>2, <2>3, <1>k, <1>m
<1>4. CASE ReconcileAbandoned(w)
  <2>1. /\ rows' = Reclaimed /\ Become(w, Rest("loop"))
        /\ UNCHANGED <<production, route>>
    BY <1>4 DEF ReconcileAbandoned
  <2>2. Steps(rows') /\ NoneReplaced(rows')
    BY <2>1, <1>t, ReclaimedSteps
  <2> QED BY <2>1, <2>2, <1>k, RestMayBecome
<1> QED BY <1>1, <1>2, <1>3, <1>4 DEF ReconcileStep

LEMMA EnvironmentKeeps ==
    ASSUME Inv, Environment
    PROVE  Kept
<1>t. TypeOK /\ Shape /\ Rows /\ Tasks /\ Exclusive
  BY DEF Inv
<1>u. ASSUME UNCHANGED rows PROVE Steps(rows') /\ NoneReplaced(rows')
  BY <1>u, <1>t, SameRowsStep
<1>1. ASSUME NEW c \in Container, DrainEnds(c) \/ ContainerDies(c)
      PROVE  Kept
  <2>1. Interfere /\ UNCHANGED <<rows, production, route>>
    BY <1>1 DEF DrainEnds, ContainerDies
  <2> QED BY <2>1, <1>u, <1>t, InterfereKeeps, KeptBy DEF MayPoint
<1>2. ASSUME NEW a \in Actor, PromotionRaises(a) \/ Crash(a)
      PROVE  Kept
  <2>1. UNCHANGED <<rows, production, route>>
    BY <1>2 DEF PromotionRaises, Crash
  <2>2. \E t \in {Raised(a), Off(a)} : MayBecome(a, t) /\ Become(a, t)
    BY <1>2, <2>1, <1>u, RaisedMayBecome, RestMayBecome
       DEF PromotionRaises, Crash, Off
  <2> QED BY <2>1, <2>2, <1>u, <1>t, BecomeKeeps, KeptBy DEF MayPoint
<1> QED BY <1>1, <1>2 DEF Environment

LEMMA DeployStepKeeps ==
    ASSUME Inv, NEW w \in Worker, DeployStep(w) \/ LoopSurvives(w)
    PROVE  Kept
<1>t. /\ TypeOK /\ Shape /\ Rows /\ Tasks /\ Exclusive
      /\ rows \in [Deployment -> Row]
      /\ task \in [Actor -> Task] /\ task[w] \in Task /\ w \in Actor
      /\ TaskShape(w, task[w]) /\ TaskOK(w, task[w], rows)
  BY DEF Inv, TypeOK, TableTypeOK, Shape, Tasks, Actor
<1>k. ASSUME Steps(rows'), NoneReplaced(rows'), NEW t, MayBecome(w, t), Become(w, t),
             UNCHANGED <<production, route>>
      PROVE  Kept
  BY <1>k, <1>t, BecomeKeeps, KeptBy DEF MayPoint
<1>u. ASSUME UNCHANGED rows PROVE Steps(rows') /\ NoneReplaced(rows')
  BY <1>u, <1>t, SameRowsStep
<1>d. task[w].op = "deploy" =>
         /\ task[w].d \in Deployment
         /\ rows[task[w].d].status \notin {"none", "queued"}
  BY <1>t DEF TaskShape, TaskOK
<1>g. ASSUME Steps(rows'), NoneReplaced(rows'), UNCHANGED <<production, route>>,
             task[w].op = "deploy", NEW pc, Goto(w, pc),
             pc \in {"launch", "health", "attach", "ready"}
                => rows'[task[w].d].built
      PROVE  Kept
  <2> DEFINE t == [task[w] EXCEPT !.pc = pc]
  <2>1. Become(w, t)
    BY <1>g DEF Goto, Become
  <2>2. t.op = "deploy" /\ t.d = task[w].d /\ t.pc = pc
    BY <1>g, <1>t DEF Task
  <2>3. TaskOK(w, task[w], rows')
    BY <1>g, <1>t, OthersKeep
  <2> HIDE DEF t
  <2>4. MayBecome(w, t)
    BY <2>2, <2>3, <1>g DEF MayBecome, TaskOK
  <2> QED BY <2>1, <2>4, <1>g, <1>k
<1>1. CASE SweepAbandoned(w)
  <2>1. rows' = Reclaimed /\ UNCHANGED <<production, route, task>>
    BY <1>1 DEF SweepAbandoned
  <2> QED BY <2>1, <1>t, ReclaimedSteps, SameTaskKeeps, KeptBy DEF MayPoint
<1>2. CASE ClaimNext(w)
  <2>1. PICK d \in Deployment :
           /\ rows[d].status = "queued" /\ rows' = Claimed(d, w)
           /\ Become(w, [Rest("checkout") EXCEPT !.op = "deploy", !.d = d])
    BY <1>2 DEF ClaimNext, Claimable
  <2>2. UNCHANGED <<production, route>>
    BY <1>2 DEF ClaimNext
  <2>3. Steps(rows') /\ NoneReplaced(rows')
    BY <2>1, <1>t, ClaimedSteps
  <2> DEFINE t == [Rest("checkout") EXCEPT !.op = "deploy", !.d = d]
  <2>4. t.op = "deploy" /\ t.pc = "checkout" /\ t.d = d
    BY DEF Rest
  <2>5. \A b \in Actor : task'[b] = IF b = w THEN t ELSE task[b]
    BY <2>1, <1>t DEF Become
  <2> HIDE DEF t
  <2>6. TaskOK(w, t, rows')
    <3>1. /\ rows'[d].status = "building" /\ rows'[d].lease = w
          /\ rows'[d].error = rows[d].error
      BY <2>1, <1>t DEF Claimed, Row
    <3>2. rows[d].error # "replaced"
      BY <2>1, <1>t DEF Rows, RowOK
    <3> QED BY <2>4, <3>1, <3>2 DEF TaskOK
  <2>7. Tasks'
    BY <2>3, <2>5, <2>6, <1>t, OthersKeep DEF Tasks
  <2>8. ASSUME NEW v \in Worker PROVE ~Holds(v, task[v], d)
    BY <2>1, <1>t DEF Holds, Tasks, TaskOK, Actor
  <2>9. Exclusive'
    BY <2>4, <2>5, <2>8, <1>t DEF Exclusive, Holds, Actor
  <2> QED BY <2>2, <2>3, <2>7, <2>9, KeptBy DEF MayPoint
<1>3. CASE Checkout(w) \/ Plan(w)
  <2>1. /\ task[w].op = "deploy" /\ rows' = Heartbeat(task[w].d)
        /\ UNCHANGED <<production, route>>
        /\ \E pc \in {"plan", "build"} : Goto(w, pc)
    BY <1>3 DEF Checkout, Plan, At
  <2>2. Steps(rows') /\ NoneReplaced(rows')
    BY <2>1, <1>d, <1>t, HeartbeatSteps
  <2> QED BY <2>1, <2>2, <1>g
<1>4. CASE Build(w) \/ PhaseFails(w)
  <2>1. /\ task[w].op = "deploy" /\ UNCHANGED <<rows, production, route>>
        /\ \E pc \in {"built", "fail"} : Goto(w, pc)
    BY <1>4 DEF Build, PhaseFails, At
  <2> QED BY <2>1, <1>u, <1>g
<1>5. CASE MarkBuilt(w)
  <2>1. task[w].op = "deploy" /\ UNCHANGED <<production, route>>
    BY <1>5 DEF MarkBuilt, At
  <2>2. CASE LeaseMatchesStatus(Built(rows[task[w].d]))
    <3>1. rows' = MarkedBuilt(task[w].d) /\ Goto(w, "launch")
      BY <1>5, <2>2 DEF MarkBuilt
    <3>2. Steps(rows') /\ NoneReplaced(rows')
      BY <2>1, <2>2, <3>1, <1>d, <1>t, MarkedBuiltSteps
    <3>3. rows'[task[w].d].built
      BY <2>1, <3>1, <1>d, <1>t DEF MarkedBuilt, Built, Row
    <3> QED BY <2>1, <3>1, <3>2, <3>3, <1>g
  <2>3. CASE ~LeaseMatchesStatus(Built(rows[task[w].d]))
    <3>1. Goto(w, "fail") /\ UNCHANGED rows
      BY <1>5, <2>3 DEF MarkBuilt
    <3> QED BY <2>1, <3>1, <1>u, <1>g
  <2> QED BY <2>2, <2>3
<1>6. CASE MarkReady(w)
  <2> DEFINE t == [Rest("check") EXCEPT !.op = "promote", !.d = task[w].d]
  <2>1. /\ task[w].op = "deploy" /\ task[w].pc = "ready"
        /\ rows' = MarkedReady(task[w].d, task[w].c)
        /\ UNCHANGED <<production, route>>
        /\ Begin(w, t) \/ Begin(w, Rest("loop"))
    BY <1>6 DEF MarkReady, At
  <2>2. Steps(rows') /\ NoneReplaced(rows')
    <3>1. rows[task[w].d].built
      BY <2>1, <1>t DEF TaskOK
    <3> QED BY <2>1, <3>1, <1>d, <1>t, MarkedReadySteps
  <2>3. t \in Task /\ Rest("loop") \in Task
    BY <2>1, <1>d DEF Rest, Task, Op, PC
  <2>4. t.op = "promote" /\ t.pc = "check" /\ t.d = task[w].d
    BY DEF Rest
  <2>5. TaskOK(w, task[w], rows')
    BY <2>2, <1>t, OthersKeep
  <2> HIDE DEF t
  <2>6. MayBecome(w, t) /\ MayBecome(w, Rest("loop"))
    BY <2>1, <2>4, <2>5, RestMayBecome DEF MayBecome, TaskOK
  <2>7. Tasks' /\ Exclusive'
    BY <2>1, <2>2, <2>3, <2>6, <1>t, BeginKeeps
  <2> QED BY <2>1, <2>2, <2>7, KeptBy DEF MayPoint
<1>7. CASE MarkFailed(w)
  <2>1. /\ task[w].op = "deploy" /\ rows' = MarkedFailed(task[w].d)
        /\ Become(w, Rest("loop")) /\ UNCHANGED <<production, route>>
    BY <1>7 DEF MarkFailed, At
  <2>2. Steps(rows') /\ NoneReplaced(rows')
    BY <2>1, <1>d, <1>t, MarkedFailedSteps
  <2> QED BY <2>1, <2>2, <1>k, RestMayBecome
<1>8. CASE LoopSurvives(w)
  <2>1. Become(w, Rest("loop")) /\ UNCHANGED <<rows, production, route>>
    BY <1>8 DEF LoopSurvives
  <2> QED BY <2>1, <1>k, <1>u, RestMayBecome
<1> QED
  BY <1>1, <1>2, <1>3, <1>4, <1>5, <1>6, <1>7, <1>8 DEF DeployStep

LEMMA LeaseExpiresKeeps ==
    ASSUME Inv, NEW d \in Deployment, LeaseExpires(d)
    PROVE  Kept
<1>t. /\ TypeOK /\ Shape /\ Rows /\ Tasks /\ Exclusive
      /\ rows \in [Deployment -> Row]
  BY DEF Inv, TypeOK, TableTypeOK
<1>1. rows' = [rows EXCEPT ![d].late = TRUE] /\ UNCHANGED <<production, route, task>>
  BY DEF LeaseExpires
<1>2. ASSUME NEW e \in Deployment
      PROVE  RowStep(rows[e], rows'[e]) /\ rows'[e].error = rows[e].error
  <2>1. rows[e] \in Row /\ RowOK(rows[e])
    BY <1>t DEF Rows
  <2>2. rows'[e] \in {rows[e], [rows[e] EXCEPT !.late = TRUE]}
    BY <1>1, <1>t
  <2>3. RowStep(rows[e], [rows[e] EXCEPT !.late = TRUE])
    BY <2>1 DEF Row, RowStep, RowOK, Harmless, Lives
  <2> QED BY <2>1, <2>2, <2>3, SameRow DEF Row
<1>3. Steps(rows') /\ NoneReplaced(rows')
  BY <1>2 DEF Steps, NoneReplaced
<1> QED BY <1>1, <1>3, <1>t, SameTaskKeeps, KeptBy DEF MayPoint

-----------------------------------------------------------------------------
LEMMA InitInv == Init => Inv
<1> SUFFICES ASSUME Init PROVE Inv
  OBVIOUS
<1>1. TypeOK /\ Shape
  BY InitType
<1>2. \A d \in Deployment : rows[d] = NoRow
  BY DEF Init
<1>3. Rows /\ Replaced
  BY <1>2 DEF Rows, RowOK, NoRow, InFlight, Replaced
<1>4. \A a \in Actor : task[a].op = "none"
  BY DEF Init, Off, Rest
<1>5. Tasks /\ Exclusive
  BY <1>4 DEF Tasks, TaskOK, Exclusive, Holds, Actor
<1>6. ProductionWasReady
  BY DEF Init, ProductionWasReady
<1> QED BY <1>1, <1>3, <1>5, <1>6 DEF Inv

LEMMA NextKeeps ==
    ASSUME Inv, [Next]_vars
    PROVE  Inv' /\ Steps(rows')
<1>1. TypeOK' /\ Shape'
  BY NextType DEF Inv
<1>2. Kept
  <2>1. CASE UNCHANGED vars
    <3>1. UNCHANGED <<rows, production, route, task>>
      BY <2>1 DEF vars, promotionVars
    <3> QED BY <3>1, SameRowsStep, SameTaskKeeps, KeptBy DEF Inv, MayPoint
  <2>2. ASSUME NEW w \in Worker, WorkerStep(w) \/ LoopSurvives(w)
        PROVE  Kept
    <3>1. w \in Actor
      BY DEF Actor
    <3> QED BY <2>2, <3>1, StartupKeeps, DeployStepKeeps, PromotionStepKeeps
            DEF WorkerStep
  <2>3. ASSUME NEW r \in Request,
               RequestDeploys(r) \/ RequestPromotes(r) \/ PromotionStep(r)
        PROVE  Kept
    <3>1. r \in Actor
      BY DEF Actor
    <3> QED BY <2>3, <3>1, RequestKeeps, PromotionStepKeeps
  <2> QED BY <2>1, <2>2, <2>3, LeaseExpiresKeeps, EnvironmentKeeps DEF Next
<1> QED BY <1>1, <1>2 DEF Kept, Inv

LEMMA Invariance == Spec => []Inv
<1>1. Inv /\ [Next]_vars => Inv'
  BY NextKeeps
<1> QED BY <1>1, InitInv, PTL DEF Spec

(* A deployment has at most one worker building it, and while it is in
   flight its lease names that worker, though leases lapse, are swept and are
   cancelled away while their worker goes on (claim_next, the CHECK on the
   lease). *)
THEOREM SingleBuilder == Spec => []OneBuilder
<1>1. Inv => OneBuilder
  <2> SUFFICES ASSUME Inv, NEW w \in Worker, NEW d \in Deployment, Deploying(w, d)
               PROVE  /\ rows[d].status \in InFlight => rows[d].lease = w
                      /\ \A v \in Worker \ {w} : ~Deploying(v, d)
    BY DEF OneBuilder
  <2>1. TaskOK(w, task[w], rows)
    BY DEF Inv, Tasks, Actor
  <2>2. \A v \in Worker : Deploying(v, d) => v = w
    BY DEF Inv, Exclusive, Holds, Deploying
  <2> QED BY <2>1, <2>2 DEF TaskOK, Deploying
<1> QED BY <1>1, Invariance, PTL

(* Production and its route name only deployments that were once proven
   ready, whatever crashes between the steps of a promotion and whatever two
   promotions write over each other (promote.py). *)
THEOREM OnlyReadyServes == Spec => []ProductionWasReady
<1>1. Inv => ProductionWasReady
  BY DEF Inv
<1> QED BY <1>1, Invariance, PTL

(* A build recorded as replaced never started and has its replacement in the
   queue's history (supersede_queued). *)
THEOREM NothingDroppedByReplacing == Spec => []ReplacedNeverStarted
<1>1. Inv => ReplacedNeverStarted
  <2> SUFFICES ASSUME Inv, NEW d \in Deployment, rows[d].error = "replaced"
               PROVE  /\ rows[d].status = "cancelled" /\ ~rows[d].built
                      /\ \A w \in Worker : ~Deploying(w, d)
                      /\ \E e \in Deployment : NewerPush(d, e, rows)
    BY DEF ReplacedNeverStarted, NewerPush, Exists
  <2>1. rows[d].status = "cancelled" /\ ~rows[d].built
    BY DEF Inv, Rows, RowOK
  <2>2. \A w \in Worker : ~Deploying(w, d)
    BY DEF Inv, Tasks, TaskOK, Deploying, Actor
  <2>3. \E e \in Deployment : NewerPush(d, e, rows)
    BY DEF Inv, Replaced
  <2> QED BY <2>1, <2>2, <2>3
<1> QED BY <1>1, Invariance, PTL

(* The table, moved by every request, worker, sweep and crash, implements the
   life of a deployment that module Lifecycle promises. *)
THEOREM TableImplementsLifecycle == Spec => Lifecycles
<1>1. Init => L!Init
  BY DEF Init, L!Init, NoRow
<1>2. Inv /\ [Next]_vars => [L!Next]_(L!vars)
  <2> SUFFICES ASSUME Inv, [Next]_vars PROVE L!Next
    OBVIOUS
  <2>1. \A d \in Deployment : Lives(rows[d], rows'[d])
    BY NextKeeps DEF Steps, RowStep
  <2>2. \A d \in Deployment : /\ rows[d] \in Row /\ rows'[d] \in Row
    BY NextKeeps DEF Inv, TypeOK, TableTypeOK
  <2>3. \A d \in Deployment : L!Stays(d) \/ L!Moves(d)
    BY <2>1, <2>2 DEF Lives, L!Stays, L!Moves, Row
  <2> QED BY <2>3 DEF L!Next
<1> QED BY <1>1, <1>2, Invariance, PTL DEF Spec, L!Spec, Lifecycles

-----------------------------------------------------------------------------
(* How work goes on *)

Working(t) == t.op \in {"deploy", "promote"}

\* Whoever builds or promotes after the step did so before it, and whoever
\* promotes was promoting.
Goes(t, u) ==
    Working(u) => /\ Working(t) /\ u.d = t.d
                  /\ u.op = "promote" => t.op = "promote"

WorkGoesOn == \A b \in Actor : Goes(task[b], task'[b])

LEMMA BecomeGoes ==
    ASSUME TypeOK, NEW a \in Actor, NEW t, Become(a, t), Goes(task[a], t)
    PROVE  WorkGoesOn
BY DEF TypeOK, Become, WorkGoesOn, Goes, Working

LEMMA GotoGoes ==
    ASSUME TypeOK, NEW a \in Actor, NEW pc, Goto(a, pc)
    PROVE  WorkGoesOn
<1>1. task[a] \in Task
  BY DEF TypeOK
<1>2. Goes(task[a], [task[a] EXCEPT !.pc = pc])
  BY <1>1 DEF Task, Goes, Working
<1> QED BY <1>2, BecomeGoes DEF Goto, Become

LEMMA BeginGoes ==
    ASSUME TypeOK, NEW a \in Actor, NEW t \in Task, Begin(a, t), Goes(task[a], t)
    PROVE  WorkGoesOn
<1>1. ASSUME NEW b \in Actor
      PROVE  LET u == IF b = a THEN t ELSE task[b]
             IN  task'[b].op = u.op /\ task'[b].d = u.d
  BY DEF Begin, TypeOK, Task
<1> QED BY <1>1 DEF WorkGoesOn, Goes, Working

LEMMA RestGoes ==
    ASSUME NEW t, NEW pc PROVE Goes(t, Rest(pc))
BY DEF Goes, Working, Rest

LEMMA RaisedGoes ==
    ASSUME Inv, NEW a \in Actor, task[a].op \in {"deploy", "promote", "refresh"}
    PROVE  Goes(task[a], Raised(a))
<1>1. CASE a \in Worker
  <2>1. Working(task[a])
    BY <1>1, RequestAssumption DEF Inv, Shape, TaskShape, Working
  <2>2. Raised(a).op = "deploy" /\ Raised(a).d = task[a].d
    BY <1>1 DEF Raised, Rest
  <2> QED BY <2>1, <2>2 DEF Goes
<1>2. CASE a \notin Worker
  BY <1>2, RestGoes DEF Raised
<1> QED BY <1>1, <1>2

-----------------------------------------------------------------------------
\* The part of a row that only the statements of a deploy change.
SameBuild(r, s) ==
    /\ s.status = r.status /\ s.ref = r.ref /\ s.late = r.late
    /\ s.readyAt = r.readyAt /\ s.error = r.error

SameBuilds == \A d \in Deployment : SameBuild(rows[d], rows'[d])

LEMMA ContainerOnly ==
    ASSUME TypeOK, UNCHANGED rows \/ \E d, c : rows' = SetContainer(d, c)
    PROVE  SameBuilds
<1>1. CASE UNCHANGED rows
  BY <1>1 DEF SameBuilds, SameBuild
<1>2. ASSUME NEW d, NEW c, rows' = SetContainer(d, c), NEW e \in Deployment
      PROVE  SameBuild(rows[e], rows'[e])
  <2>1. rows[e] \in Row
    BY DEF TypeOK, TableTypeOK
  <2>2. rows'[e] \in {rows[e], [rows[e] EXCEPT !.container = c]}
    BY <1>2 DEF SetContainer, TypeOK, TableTypeOK
  <2> QED BY <2>1, <2>2 DEF Row, SameBuild
<1> QED BY <1>1, <1>2 DEF SameBuilds

LEMMA PromotionGoes ==
    ASSUME Inv, NEW a \in Actor, PromotionStep(a)
    PROVE  /\ WorkGoesOn /\ SameBuilds
           /\ \/ UNCHANGED production
              \/ At(a, "promote", "point") /\ production' = task[a].d
<1>t. TypeOK /\ task \in [Actor -> Task] /\ task[a] \in Task /\ TaskShape(a, task[a])
  BY DEF Inv, TypeOK, Shape
<1>1. UNCHANGED rows \/ \E d, c : rows' = SetContainer(d, c)
  BY DEF PromotionStep, EnsurePromotable, EnsureServing, LaunchRun, LaunchRefused,
         HealthPasses, HealthFails, Attach, PublishRead, PublishWrite, SetProduction,
         RereadProject, ReclaimQuery, ReclaimDrain, ReclaimDetach, PromotionDone
<1>2. \/ UNCHANGED production
      \/ At(a, "promote", "point") /\ production' = task[a].d
  BY DEF PromotionStep, EnsurePromotable, EnsureServing, LaunchRun, LaunchRefused,
         HealthPasses, HealthFails, Attach, PublishRead, PublishWrite, SetProduction,
         RereadProject, ReclaimQuery, ReclaimDrain, ReclaimDetach, PromotionDone
<1> SUFFICES WorkGoesOn
  BY <1>1, <1>2, <1>t, ContainerOnly
<1>b. ASSUME NEW t, Become(a, t), t.op = task[a].op, t.d = task[a].d
      PROVE  WorkGoesOn
  BY <1>b, <1>t, BecomeGoes DEF Goes, Working
<1>r. task[a].op \in {"deploy", "promote", "refresh"} /\ Become(a, Raised(a))
         => WorkGoesOn
  BY <1>t, RaisedGoes, BecomeGoes
<1>3. CASE EnsurePromotable(a)
  <2> DEFINE t == [task[a] EXCEPT !.pc = "serve", !.c = rows[task[a].d].container]
  <2>1. t.op = task[a].op /\ t.d = task[a].d
    BY <1>t DEF Task
  <2>2. task[a].op = "promote" /\ (Become(a, t) \/ Become(a, Raised(a)))
    BY <1>3 DEF EnsurePromotable, At
  <2> HIDE DEF t
  <2> QED BY <2>1, <2>2, <1>b, <1>r
<1>4. CASE EnsureServing(a)
  <2> DEFINE t == [task[a] EXCEPT !.c = None,
                     !.pc = IF IsRunning(task[a].c) THEN Serving ELSE "launch"]
  <2>1. t.op = task[a].op /\ t.d = task[a].d
    BY <1>t DEF Task
  <2>2. Become(a, t)
    BY <1>4 DEF EnsureServing
  <2> HIDE DEF t
  <2> QED BY <2>1, <2>2, <1>b
<1>5. CASE LaunchRun(a)
  <2>1. PICK c \in Container : Become(a, [task[a] EXCEPT !.pc = "health", !.c = c])
    BY <1>5 DEF LaunchRun
  <2> DEFINE t == [task[a] EXCEPT !.pc = "health", !.c = c]
  <2>2. t.op = task[a].op /\ t.d = task[a].d
    BY <1>t DEF Task
  <2>3. Become(a, t)
    BY <2>1
  <2> HIDE DEF t
  <2> QED BY <2>2, <2>3, <1>b
<1>6. CASE LaunchRefused(a) \/ HealthFails(a)
  BY <1>6, <1>t, <1>r DEF LaunchRefused, HealthFails, TaskShape
<1>7. CASE HealthPasses(a) \/ SetProduction(a) \/ ReclaimDrain(a)
  BY <1>7, <1>t, GotoGoes DEF HealthPasses, SetProduction, ReclaimDrain
<1>8. CASE Attach(a)
  <2> DEFINE t == [task[a] EXCEPT !.pc = Serving, !.c = None]
  <2>1. t.op = task[a].op /\ t.d = task[a].d
    BY <1>t DEF Task
  <2>2. Goto(a, "ready") \/ Become(a, t)
    BY <1>8 DEF Attach
  <2> HIDE DEF t
  <2> QED BY <2>1, <2>2, <1>b, <1>t, GotoGoes
<1>9. CASE PublishRead(a)
  <2> DEFINE t == [task[a] EXCEPT !.pc = "write", !.dom = verified]
  <2>1. t.op = task[a].op /\ t.d = task[a].d
    BY <1>t DEF Task
  <2>2. Become(a, t)
    BY <1>9 DEF PublishRead
  <2> HIDE DEF t
  <2> QED BY <2>1, <2>2, <1>b
<1>10. CASE PublishWrite(a)
  <2> DEFINE t == [task[a] EXCEPT !.pc = "point", !.dom = FALSE]
  <2>1. t.op = task[a].op /\ t.d = task[a].d
    BY <1>t DEF Task
  <2>2. Become(a, t) \/ Become(a, Rest("idle"))
    BY <1>10 DEF PublishWrite
  <2> HIDE DEF t
  <2> QED BY <2>1, <2>2, <1>b, <1>t, RestGoes, BecomeGoes
<1>11. CASE RereadProject(a)
  <2> DEFINE t == [task[a] EXCEPT !.pc = "reclaim", !.ptr = production]
  <2>1. t.op = task[a].op /\ t.d = task[a].d
    BY <1>t DEF Task
  <2>2. Become(a, t)
    BY <1>11 DEF RereadProject
  <2> HIDE DEF t
  <2> QED BY <2>1, <2>2, <1>b
<1>12. CASE ReclaimQuery(a)
  <2>1. PICK todo, pc : Become(a, [task[a] EXCEPT !.todo = todo, !.pc = pc, !.ptr = None])
    BY <1>12 DEF ReclaimQuery
  <2> DEFINE t == [task[a] EXCEPT !.todo = todo, !.pc = pc, !.ptr = None]
  <2>2. t.op = task[a].op /\ t.d = task[a].d
    BY <1>t DEF Task
  <2>3. Become(a, t)
    BY <2>1
  <2> HIDE DEF t
  <2> QED BY <2>2, <2>3, <1>b
<1>13. CASE ReclaimDetach(a)
  <2>1. PICK todo, pc : Become(a, [task[a] EXCEPT !.todo = todo, !.pc = pc])
    BY <1>13 DEF ReclaimDetach
  <2> DEFINE t == [task[a] EXCEPT !.todo = todo, !.pc = pc]
  <2>2. t.op = task[a].op /\ t.d = task[a].d
    BY <1>t DEF Task
  <2>3. Become(a, t)
    BY <2>1
  <2> HIDE DEF t
  <2> QED BY <2>2, <2>3, <1>b
<1>14. CASE PromotionDone(a)
  BY <1>14, <1>t, RestGoes, BecomeGoes DEF PromotionDone
<1> QED
  BY <1>3, <1>4, <1>5, <1>6, <1>7, <1>8, <1>9, <1>10, <1>11, <1>12, <1>13, <1>14
     DEF PromotionStep

LEMMA StartupGoes ==
    ASSUME Inv, NEW w \in Worker, StartWorker(w) \/ ReconcileStep(w)
    PROVE  /\ WorkGoesOn /\ UNCHANGED production
           /\ SameBuilds \/ rows' = Reclaimed
<1>t. TypeOK /\ task \in [Actor -> Task] /\ task[w] \in Task /\ w \in Actor
  BY DEF Inv, TypeOK, Actor
<1>1. UNCHANGED rows \/ (\E d, c : rows' = SetContainer(d, c)) \/ rows' = Reclaimed
  BY DEF StartWorker, ReconcileStep, ReconcileLook, ReconcileForget, ReconcileAbandoned
<1>2. UNCHANGED production
  BY DEF StartWorker, ReconcileStep, ReconcileLook, ReconcileForget, ReconcileAbandoned
<1>b. ASSUME NEW t, Become(w, t), t.op = "reconcile" PROVE WorkGoesOn
  BY <1>b, <1>t, BecomeGoes DEF Goes, Working
<1> SUFFICES WorkGoesOn
  BY <1>1, <1>2, <1>t, ContainerOnly
<1>3. CASE StartWorker(w)
  <2> DEFINE todo == {<<d, rows[d].container>> :
                        d \in {e \in Deployment : rows[e].container # None}}
             t == [Rest("look") EXCEPT !.op = "reconcile", !.todo = todo]
  <2>1. Begin(w, t)
    BY <1>3 DEF StartWorker
  <2>2. todo \subseteq Deployment \X Container
    BY <1>t DEF TypeOK, TableTypeOK, Row
  <2>3. t \in Task /\ t.op = "reconcile"
    <3> HIDE DEF todo
    <3> QED BY <2>2 DEF Rest, Task, Op, PC
  <2> HIDE DEF t
  <2> QED BY <2>1, <2>3, <1>t, BeginGoes DEF Goes, Working
<1>4. CASE ReconcileLook(w)
  <2>1. CASE Goto(w, "abandoned")
    BY <2>1, <1>t, GotoGoes
  <2>2. ASSUME NEW p \in task[w].todo,
               Become(w, IF IsRunning(p[2])
                         THEN [task[w] EXCEPT !.todo = @ \ {p}]
                         ELSE [task[w] EXCEPT !.pc = "forget", !.d = p[1]])
        PROVE  WorkGoesOn
    <3> DEFINE t == IF IsRunning(p[2])
                    THEN [task[w] EXCEPT !.todo = @ \ {p}]
                    ELSE [task[w] EXCEPT !.pc = "forget", !.d = p[1]]
    <3>1. Become(w, t) /\ t.op = "reconcile"
      BY <1>4, <2>2, <1>t DEF Task, ReconcileLook, At
    <3> HIDE DEF t
    <3> QED BY <3>1, <1>b
  <2> QED BY <1>4, <2>1, <2>2 DEF ReconcileLook
<1>5. CASE ReconcileForget(w)
  <2> DEFINE t == [task[w] EXCEPT !.pc = "look", !.d = None,
                      !.todo = {p \in @ : p[1] # task[w].d}]
  <2>1. Become(w, t) /\ task[w].op = "reconcile"
    BY <1>5 DEF ReconcileForget, At
  <2>2. t.op = "reconcile"
    BY <2>1, <1>t DEF Task
  <2> HIDE DEF t
  <2> QED BY <2>1, <2>2, <1>b
<1>6. CASE ReconcileAbandoned(w)
  BY <1>6, <1>t, RestGoes, BecomeGoes DEF ReconcileAbandoned
<1> QED BY <1>3, <1>4, <1>5, <1>6 DEF ReconcileStep

LEMMA EnvironmentGoes ==
    ASSUME Inv, Environment
    PROVE  WorkGoesOn /\ SameBuilds /\ UNCHANGED production
<1>t. TypeOK
  BY DEF Inv
<1>1. ASSUME NEW c \in Container, DrainEnds(c) \/ ContainerDies(c)
      PROVE  WorkGoesOn /\ SameBuilds /\ UNCHANGED production
  <2>1. Interfere /\ UNCHANGED <<rows, production>>
    BY <1>1 DEF DrainEnds, ContainerDies
  <2>2. \A b \in Actor : task'[b].op = task[b].op /\ task'[b].d = task[b].d
    BY <2>1, <1>t DEF Interfere, TypeOK, Task
  <2> QED BY <2>1, <2>2, <1>t, ContainerOnly DEF WorkGoesOn, Goes, Working
<1>2. ASSUME NEW a \in Actor, PromotionRaises(a) \/ Crash(a)
      PROVE  WorkGoesOn /\ SameBuilds /\ UNCHANGED production
  <2>1. UNCHANGED <<rows, production>>
    BY <1>2 DEF PromotionRaises, Crash
  <2>2. \E t \in {Raised(a), Off(a)} : Goes(task[a], t) /\ Become(a, t)
    BY <1>2, RaisedGoes, RestGoes DEF PromotionRaises, Crash, Off
  <2> QED BY <2>1, <2>2, <1>t, BecomeGoes, ContainerOnly
<1> QED BY <1>1, <1>2 DEF Environment

\* A request builds nothing, and promotes only if it is asked to.
LEMMA RequestGoes ==
    ASSUME Inv, NEW r \in Request, RequestDeploys(r) \/ RequestPromotes(r)
    PROVE  /\ UNCHANGED production
           /\ \A w \in Worker : Goes(task[w], task'[w])
           /\ "promote" \notin Asks => WorkGoesOn
           /\ \/ SameBuilds
              \/ \E d \in Deployment, ref \in Ref, trigger \in Trigger :
                    IsNextNumber(d) /\ rows' = Created(d, ref, trigger)
              \/ rows' = Superseded(task[r].d)
              \/ task[r].d \in Deployment /\ rows' = MarkedCancelled(task[r].d)
<1>t. TypeOK /\ task \in [Actor -> Task] /\ r \in Actor /\ r \notin Worker
      /\ TaskShape(r, task[r])
  BY RequestAssumption DEF Inv, TypeOK, Actor, Shape
<1>1. /\ UNCHANGED production
      /\ \/ UNCHANGED rows
         \/ \E d \in Deployment, ref \in Ref, trigger \in Trigger :
               IsNextNumber(d) /\ rows' = Created(d, ref, trigger)
         \/ rows' = Superseded(task[r].d)
         \/ task[r].op = "cancel" /\ rows' = MarkedCancelled(task[r].d)
  BY DEF RequestDeploys, QueueDeploy, Supersede, CancelRead, CancelWrite,
         RequestPromotes, RequestPromotion, ChangeDomains, RefreshTarget, At
<1>2. task[r].op = "cancel" => task[r].d \in Deployment
  BY <1>t DEF TaskShape
<1>s. UNCHANGED rows => SameBuilds
  BY <1>t, ContainerOnly
<1>b. ASSUME NEW t, Become(r, t), ~Working(t) PROVE WorkGoesOn
  BY <1>b, <1>t, BecomeGoes DEF Goes
<1>3. \/ WorkGoesOn
      \/ "promote" \in Asks /\ \E d \in Deployment : RequestPromotion(r, d)
  <2>1. ASSUME NEW d \in Deployment, NEW ref \in Ref, NEW trigger \in Trigger,
               QueueDeploy(r, d, ref, trigger)
        PROVE  WorkGoesOn
    <3> DEFINE t == [Rest("supersede") EXCEPT !.op = "queue", !.d = d]
    <3>1. ~Working(t) /\ ~Working(Rest("idle"))
      BY DEF Rest, Working
    <3>2. Become(r, t) \/ Become(r, Rest("idle"))
      BY <2>1 DEF QueueDeploy
    <3> HIDE DEF t
    <3> QED BY <3>1, <3>2, <1>b
  <2>2. ASSUME NEW d \in Deployment, CancelRead(r, d)
        PROVE  WorkGoesOn
    <3> DEFINE t == [Rest("cancel") EXCEPT !.op = "cancel", !.d = d]
    <3>1. ~Working(t)
      BY DEF Rest, Working
    <3>2. Become(r, t)
      BY <2>2 DEF CancelRead
    <3> HIDE DEF t
    <3> QED BY <3>1, <3>2, <1>b
  <2>3. CASE Supersede(r) \/ CancelWrite(r)
    BY <2>3, <1>t, RestGoes, BecomeGoes DEF Supersede, CancelWrite
  <2>4. CASE ChangeDomains(r)
    <3> DEFINE t == [Rest("target") EXCEPT !.op = "refresh"]
    <3>1. Begin(r, t)
      BY <2>4 DEF ChangeDomains
    <3>2. t \in Task /\ t.op = "refresh"
      BY ZenonT(40), <1>t DEF Rest, Task, Op, PC
    <3> HIDE DEF t
    <3> QED BY <3>1, <3>2, <1>t, BeginGoes DEF Goes, Working
  <2>5. CASE RefreshTarget(r)
    <3> DEFINE t == [task[r] EXCEPT !.pc = "domains", !.d = production]
    <3>1. task[r].op = "refresh" /\ (Become(r, t) \/ Become(r, Rest("idle")))
      BY <2>5 DEF RefreshTarget, At
    <3>2. ~Working(t) /\ ~Working(Rest("idle"))
      BY <3>1, <1>t DEF Rest, Working, Task
    <3> HIDE DEF t
    <3> QED BY <3>1, <3>2, <1>b
  <2> QED BY <2>1, <2>2, <2>3, <2>4, <2>5 DEF RequestDeploys, RequestPromotes
<1>4. ASSUME NEW d \in Deployment, RequestPromotion(r, d), NEW w \in Worker
      PROVE  task'[w].op = task[w].op /\ task'[w].d = task[w].d
  BY <1>4, <1>t DEF RequestPromotion, Begin, Task, Actor
<1>5. \A w \in Worker : Goes(task[w], task'[w])
  BY <1>3, <1>4 DEF WorkGoesOn, Goes, Working, Actor
<1> QED BY <1>1, <1>2, <1>3, <1>5, <1>s

LEMMA DeployGoes ==
    ASSUME Inv, NEW w \in Worker, DeployStep(w) \/ LoopSurvives(w)
    PROVE  UNCHANGED production /\ (WorkGoesOn \/ ClaimNext(w) \/ MarkReady(w))
<1>t. TypeOK /\ task \in [Actor -> Task] /\ w \in Actor
  BY DEF Inv, TypeOK, Actor
<1>1. UNCHANGED production
  BY DEF DeployStep, SweepAbandoned, ClaimNext, Checkout, Plan, Build, PhaseFails,
         MarkBuilt, MarkReady, MarkFailed, LoopSurvives
<1>2. \/ UNCHANGED task \/ ClaimNext(w) \/ MarkReady(w)
      \/ (\E pc : Goto(w, pc)) \/ Become(w, Rest("loop"))
  BY DEF DeployStep, SweepAbandoned, Checkout, Plan, Build, PhaseFails,
         MarkBuilt, MarkFailed, LoopSurvives
<1>3. UNCHANGED task => WorkGoesOn
  BY DEF WorkGoesOn, Goes
<1> QED BY <1>1, <1>2, <1>3, <1>t, GotoGoes, RestGoes, BecomeGoes

-----------------------------------------------------------------------------
(* What is abandoned was not deployed *)

\* What is recorded as abandoned is over and was never ready, and what is on
\* its way to be was not ready before.
Tells(r) ==
    /\ r.error = "abandoned" => r.status \in {"failed", "cancelled"} /\ ~r.readyAt
    /\ r.status = "deploying" => ~r.readyAt

\* A row no worker has in hand: the sweep has failed it, or is about to.
Lost(r) == r.error = "abandoned" \/ (r.late /\ r.status \in InFlight)

LostStep(r, s) ==
    /\ Tells(s)
    /\ Lost(s) => Lost(r)
    /\ r.error = "abandoned" => s.error = "abandoned"

LostSteps(rs) == \A d \in Deployment : LostStep(rows[d], rs[d])

NotInHand(d) == \A w \in Worker : ~Holds(w, task[w], d)

Told == \A d \in Deployment : Tells(rows[d])

LostInv ==
    /\ Inv /\ Told
    /\ \A d \in Deployment : Lost(rows[d]) => NotInHand(d)
    /\ \A w \in Worker : task[w].op = "promote" => rows[task[w].d].readyAt

LEMMA RowFacts ==
    ASSUME Inv, Told, NEW d \in Deployment
    PROVE  rows[d] \in Row /\ RowOK(rows[d]) /\ Tells(rows[d])
BY DEF Inv, Told, TypeOK, TableTypeOK, Rows

LEMMA SameLost ==
    ASSUME NEW r, Tells(r)
    PROVE  LostStep(r, r)
BY DEF LostStep

LEMMA SameBuildLost ==
    ASSUME Told, SameBuilds
    PROVE  LostSteps(rows')
BY DEF Told, SameBuilds, SameBuild, LostSteps, LostStep, Lost, Tells

\* Each statement of the table, but those of a worker about its own build.
LEMMA StatementsLost ==
    ASSUME Inv, Told
    PROVE  /\ \A d \in Deployment, ref \in Ref, trigger \in Trigger :
                 ~Exists(d) => LostSteps(Created(d, ref, trigger))
           /\ \A d \in Deployment, w \in Worker :
                 rows[d].status = "queued" => LostSteps(Claimed(d, w))
           /\ \A d \in Deployment :
                 /\ LostSteps(Heartbeat(d))
                 /\ LostSteps(MarkedCancelled(d))
                 /\ LeaseMatchesStatus(Built(rows[d])) => LostSteps(MarkedBuilt(d))
           /\ \A d : LostSteps(Superseded(d))
           /\ LostSteps(Reclaimed)
<1>t. rows \in [Deployment -> Row]
  BY DEF Inv, TypeOK, TableTypeOK
<1>o. ASSUME NEW d \in Deployment, NEW s, LostStep(rows[d], s),
             NEW rs, \A e \in Deployment : rs[e] = IF e = d THEN s ELSE rows[e]
      PROVE  LostSteps(rs)
  BY <1>o, SameLost DEF LostSteps, Told
<1>1. ASSUME NEW d \in Deployment, NEW ref \in Ref, NEW trigger \in Trigger, ~Exists(d)
      PROVE  LostSteps(Created(d, ref, trigger))
  <2> DEFINE s == [NoRow EXCEPT !.status = "queued", !.ref = ref, !.trigger = trigger]
  <2>1. LostStep(rows[d], s)
    BY <1>1, RowFacts DEF Exists, NoRow, LostStep, Lost, Tells, InFlight
  <2>2. \A e \in Deployment : Created(d, ref, trigger)[e] = IF e = d THEN s ELSE rows[e]
    BY <1>t DEF Created
  <2> HIDE DEF s
  <2> QED BY <2>1, <2>2, <1>o
<1>2. ASSUME NEW d \in Deployment, NEW w \in Worker, rows[d].status = "queued"
      PROVE  LostSteps(Claimed(d, w))
  <2> DEFINE s == [rows[d] EXCEPT !.status = "building", !.lease = w, !.late = FALSE]
  <2>1. LostStep(rows[d], s)
    BY <1>2, RowFacts DEF Row, LostStep, Lost, Tells
  <2>2. \A e \in Deployment : Claimed(d, w)[e] = IF e = d THEN s ELSE rows[e]
    BY <1>t DEF Claimed
  <2> HIDE DEF s
  <2> QED BY <2>1, <2>2, <1>o
<1>3. ASSUME NEW d \in Deployment
      PROVE  LostSteps(Heartbeat(d))
  <2> DEFINE s == [rows[d] EXCEPT !.late = FALSE]
  <2>1. LostStep(rows[d], s)
    BY RowFacts DEF Row, LostStep, Lost, Tells
  <2>2. \A e \in Deployment : Heartbeat(d)[e] = IF e = d THEN s ELSE rows[e]
    BY <1>t DEF Heartbeat
  <2> HIDE DEF s
  <2> QED BY <2>1, <2>2, <1>o
<1>4. ASSUME NEW d \in Deployment
      PROVE  LostSteps(MarkedCancelled(d))
  <2> DEFINE s == [rows[d] EXCEPT !.status = "cancelled", !.lease = None, !.late = FALSE]
  <2>1. LostStep(rows[d], s)
    BY RowFacts DEF Row, LostStep, Lost, Tells
  <2>2. \A e \in Deployment : MarkedCancelled(d)[e] = IF e = d THEN s ELSE rows[e]
    BY <1>t DEF MarkedCancelled
  <2> HIDE DEF s
  <2> QED BY <2>1, <2>2, <1>o
<1>5. ASSUME NEW d \in Deployment, LeaseMatchesStatus(Built(rows[d]))
      PROVE  LostSteps(MarkedBuilt(d))
  <2> DEFINE s == Built(rows[d])
  <2>1. s = [rows[d] EXCEPT !.status = "deploying", !.built = TRUE]
    BY DEF Built
  <2>2. rows[d].status \in InFlight
    BY <1>5, <2>1, RowFacts DEF LeaseMatchesStatus, RowOK, Row, InFlight
  <2>3. ~rows[d].readyAt
    BY <2>2, RowFacts DEF RowOK, Tells, InFlight
  <2>4. LostStep(rows[d], s)
    BY <2>1, <2>2, <2>3, RowFacts DEF Row, LostStep, Lost, Tells, InFlight
  <2>5. \A e \in Deployment : MarkedBuilt(d)[e] = IF e = d THEN s ELSE rows[e]
    BY <1>t DEF MarkedBuilt
  <2> HIDE DEF s
  <2> QED BY <2>4, <2>5, <1>o
<1>6. ASSUME NEW d, NEW e \in Deployment
      PROVE  LostStep(rows[e], Superseded(d)[e])
  <2>1. CASE e \in ReplacedBy(d)
    <3>1. /\ Superseded(d)[e] = [rows[e] EXCEPT !.status = "cancelled", !.error = "replaced"]
          /\ rows[e].status = "queued"
      BY <2>1 DEF Superseded, ReplacedBy
    <3> QED BY <3>1, RowFacts DEF Row, LostStep, Lost, Tells, InFlight
  <2>2. CASE e \notin ReplacedBy(d)
    BY <2>2, SameLost, RowFacts DEF Superseded
  <2> QED BY <2>1, <2>2
<1>7. ASSUME NEW e \in Deployment
      PROVE  LostStep(rows[e], Reclaimed[e])
  <2>1. CASE Abandoned(e)
    <3>1. Reclaimed[e] = [rows[e] EXCEPT !.status = "failed", !.error = "abandoned",
                                         !.lease = None, !.late = FALSE]
      BY <2>1 DEF Reclaimed
    <3>2. ~rows[e].readyAt
      BY <2>1, RowFacts DEF Abandoned, RowOK, Tells, InFlight
    <3> QED BY <2>1, <3>1, <3>2, RowFacts DEF Abandoned, Row, LostStep, Lost, Tells
  <2>2. CASE ~Abandoned(e)
    BY <2>2, SameLost, RowFacts DEF Reclaimed
  <2> QED BY <2>1, <2>2
<1> QED BY <1>1, <1>2, <1>3, <1>4, <1>5, <1>6, <1>7 DEF LostSteps

\* A step by which no worker takes a build in hand.
LEMMA LostKept ==
    ASSUME LostInv, Inv', Steps(rows'), LostSteps(rows'),
           \A w \in Worker : Goes(task[w], task'[w])
    PROVE  LostInv'
<1>1. Told'
  BY DEF Told, LostSteps, LostStep
<1>2. ASSUME NEW d \in Deployment, Lost(rows'[d]), NEW w \in Worker,
             Holds(w, task'[w], d)
      PROVE  FALSE
  BY <1>2 DEF LostInv, LostSteps, LostStep, NotInHand, Holds, Goes, Working
<1>3. ASSUME NEW w \in Worker, task'[w].op = "promote"
      PROVE  rows'[task'[w].d].readyAt
  <2>1. task[w].op = "promote" /\ task'[w].d = task[w].d
    BY <1>3 DEF Goes, Working
  <2>2. task[w].d \in Deployment /\ rows[task[w].d].readyAt
    BY <2>1 DEF LostInv, Inv, Shape, TaskShape, Actor
  <2> QED BY <2>1, <2>2, RowFacts DEF LostInv, Steps, RowStep, Harmless, RowOK
<1> QED BY <1>1, <1>2, <1>3 DEF LostInv, NotInHand

\* LostSteps is what the property says of a step.
LEMMA LostNext ==
    ASSUME ~Stalls, LostInv, [Next]_vars
    PROVE  /\ LostInv'
           /\ \A d \in Deployment :
                 rows[d].error = "abandoned" => rows'[d].error = "abandoned"
<1> DEFINE Goal == /\ LostInv'
                  /\ \A d \in Deployment :
                        rows[d].error = "abandoned" => rows'[d].error = "abandoned"
<1>i. Inv /\ Told /\ Inv' /\ Steps(rows') /\ TypeOK /\ task \in [Actor -> Task]
  BY NextKeeps DEF LostInv, Inv, TypeOK
<1>k. ASSUME LostSteps(rows'), \A w \in Worker : Goes(task[w], task'[w])
      PROVE  Goal
  BY <1>k, <1>i, LostKept DEF LostSteps, LostStep
<1>w. WorkGoesOn => \A w \in Worker : Goes(task[w], task'[w])
  BY DEF WorkGoesOn, Actor
<1>s. UNCHANGED rows => LostSteps(rows')
  BY <1>i, ContainerOnly, SameBuildLost
<1> SUFFICES Goal
  OBVIOUS
<1> HIDE DEF Goal
<1>1. CASE UNCHANGED vars
  BY <1>1, <1>k, <1>s DEF vars, promotionVars, Goes
<1>2. ASSUME NEW w \in Worker, PromotionStep(w) \/ StartWorker(w) \/ ReconcileStep(w)
      PROVE  Goal
  <2>1. w \in Actor
    BY DEF Actor
  <2>2. WorkGoesOn /\ (SameBuilds \/ rows' = Reclaimed)
    BY <1>2, <1>i, <2>1, PromotionGoes, StartupGoes
  <2> QED BY <2>2, <1>i, <1>k, <1>w, SameBuildLost, StatementsLost
<1>3. ASSUME NEW r \in Request, PromotionStep(r)
      PROVE  Goal
  <2>1. r \in Actor
    BY DEF Actor
  <2> QED BY <1>3, <1>i, <2>1, <1>k, <1>w, PromotionGoes, SameBuildLost
<1>4. ASSUME NEW r \in Request, RequestDeploys(r) \/ RequestPromotes(r)
      PROVE  Goal
  <2>1. LostSteps(rows')
    BY <1>4, <1>i, RequestGoes, SameBuildLost, StatementsLost DEF IsNextNumber
  <2> QED BY <1>4, <2>1, <1>i, <1>k, RequestGoes
<1>5. CASE Environment
  BY <1>5, <1>i, <1>k, <1>w, EnvironmentGoes, SameBuildLost
<1>6. ASSUME NEW w \in Worker, DeployStep(w) \/ LoopSurvives(w)
      PROVE  Goal
  <2>t. /\ w \in Actor /\ task[w] \in Task
        /\ task[w].op = "deploy" => task[w].d \in Deployment
    BY <1>i DEF Actor, Inv, Shape, TaskShape
  <2>h. task[w].op = "deploy" => ~Lost(rows[task[w].d])
    BY <2>t DEF LostInv, NotInHand, Holds
  <2>1. CASE ClaimNext(w)
    <3>1. PICK d \in Deployment :
             /\ rows[d].status = "queued" /\ rows' = Claimed(d, w)
             /\ Become(w, [Rest("checkout") EXCEPT !.op = "deploy", !.d = d])
      BY <2>1 DEF ClaimNext, Claimable
    <3> DEFINE t == [Rest("checkout") EXCEPT !.op = "deploy", !.d = d]
    <3>2. t.op = "deploy" /\ t.d = d
      BY DEF Rest
    <3>3. \A b \in Actor : task'[b] = IF b = w THEN t ELSE task[b]
      BY <3>1, <1>i DEF Become
    <3> HIDE DEF t
    <3>4. LostSteps(rows')
      BY <3>1, <1>i, StatementsLost
    <3>5. ~Lost(rows'[d])
      <4>1. rows[d] \in Row /\ rows[d].error # "abandoned"
        BY <3>1, <1>i, RowFacts DEF Tells
      <4> QED BY <3>1, <4>1, <1>i DEF Claimed, Lost, Row, TypeOK, TableTypeOK
    <3>6. \A e \in Deployment : Lost(rows'[e]) => NotInHand(e)'
      BY <3>2, <3>3, <3>4, <3>5
         DEF LostInv, LostSteps, LostStep, NotInHand, Holds, Actor
    <3>7. ASSUME NEW v \in Worker, task'[v].op = "promote"
          PROVE  rows'[task'[v].d].readyAt
      <4>1. task'[v] = task[v] /\ v \in Actor
        BY <3>2, <3>3, <3>7 DEF Actor
      <4>2. task[v].d \in Deployment /\ rows[task[v].d].readyAt
        BY <4>1, <3>7, <1>i DEF LostInv, Inv, Shape, TaskShape
      <4> QED BY <4>1, <4>2, <1>i, RowFacts DEF Steps, RowStep, Harmless, RowOK
    <3> QED BY <3>4, <3>6, <3>7, <1>i DEF Goal, LostInv, Told, LostSteps, LostStep
  <2>2. CASE MarkReady(w)
    <3> DEFINE d == task[w].d
    <3>1. /\ task[w].op = "deploy" /\ d \in Deployment
          /\ rows' = MarkedReady(d, task[w].c)
      BY <2>2, <2>t DEF MarkReady, At
    <3>2. /\ rows'[d].readyAt /\ rows'[d].status = "ready"
          /\ rows'[d].error = "none"
      BY <3>1, <1>i DEF MarkedReady, Row, TypeOK, TableTypeOK
    <3>3. \A e \in Deployment : e # d => rows'[e] = rows[e]
      BY <3>1, <1>i DEF MarkedReady, TypeOK, TableTypeOK
    <3>4. LostStep(rows[d], rows'[d])
      BY <3>1, <3>2, <2>h DEF LostStep, Lost, Tells, InFlight
    <3>5. LostSteps(rows')
      BY <3>3, <3>4, <1>i, SameLost DEF LostSteps, Told
    <3>6. ASSUME NEW b \in Actor, b # w
          PROVE  task'[b].op = task[b].op /\ task'[b].d = task[b].d
      BY <2>2, <3>6, <1>i DEF MarkReady, Begin, Task
    <3>7. Working(task'[w]) => task'[w].d = d
      BY <2>2, <2>t DEF MarkReady, Begin, Rest, Working
    <3> HIDE DEF d
    <3>8. ASSUME NEW e \in Deployment, Lost(rows'[e]), NEW v \in Worker,
                 Holds(v, task'[v], e)
          PROVE  FALSE
      <4>1. Lost(rows[e]) /\ v \in Actor
        BY <3>5, <3>8 DEF LostSteps, LostStep, Actor
      <4>2. CASE v = w
        BY <4>1, <4>2, <3>1, <3>7, <3>8, <2>h DEF Holds, Working, d
      <4>3. CASE v # w
        BY <4>1, <4>3, <3>6, <3>8 DEF Holds, LostInv, NotInHand
      <4> QED BY <4>2, <4>3
    <3>9. ASSUME NEW v \in Worker, task'[v].op = "promote"
          PROVE  rows'[task'[v].d].readyAt
      <4>1. CASE v = w
        BY <4>1, <3>2, <3>7, <3>9 DEF Working
      <4>2. CASE v # w
        <5>1. v \in Actor /\ task[v].op = "promote" /\ task'[v].d = task[v].d
          BY <4>2, <3>6, <3>9 DEF Actor
        <5>2. task[v].d \in Deployment /\ rows[task[v].d].readyAt
          BY <5>1, <1>i DEF LostInv, Inv, Shape, TaskShape
        <5> QED BY <5>1, <5>2, <1>i, RowFacts DEF Steps, RowStep, Harmless, RowOK
      <4> QED BY <4>1, <4>2
    <3> QED BY <3>5, <3>8, <3>9, <1>i DEF Goal, LostInv, Told, LostSteps, LostStep, NotInHand
  <2>3. CASE MarkFailed(w)
    <3> DEFINE d == task[w].d
    <3>1. task[w].op = "deploy" /\ d \in Deployment /\ rows' = MarkedFailed(d)
      BY <2>3, <2>t DEF MarkFailed, At
    <3>2. rows'[d].status = "failed" /\ rows'[d].error = "raised"
      BY <3>1, <1>i DEF MarkedFailed, Row, TypeOK, TableTypeOK
    <3>3. \A e \in Deployment : e # d => rows'[e] = rows[e]
      BY <3>1, <1>i DEF MarkedFailed, TypeOK, TableTypeOK
    <3>4. LostStep(rows[d], rows'[d])
      BY <3>1, <3>2, <2>h DEF LostStep, Lost, Tells, InFlight
    <3>5. LostSteps(rows')
      BY <3>3, <3>4, <1>i, SameLost DEF LostSteps, Told
    <3>6. WorkGoesOn
      BY <2>3, <1>i, <2>t, RestGoes, BecomeGoes DEF MarkFailed
    <3> QED BY <3>5, <3>6, <1>k, <1>w
  <2>4. CASE ~ClaimNext(w) /\ ~MarkReady(w) /\ ~MarkFailed(w)
    <3>1. WorkGoesOn
      BY <1>6, <2>4, <1>i, DeployGoes
    <3>2. \/ UNCHANGED rows \/ rows' = Reclaimed
          \/ task[w].op = "deploy" /\ rows' = Heartbeat(task[w].d)
          \/ /\ task[w].op = "deploy" /\ rows' = MarkedBuilt(task[w].d)
             /\ LeaseMatchesStatus(Built(rows[task[w].d]))
      BY <1>6, <2>4 DEF DeployStep, SweepAbandoned, Checkout, Plan, Build, PhaseFails,
                        MarkBuilt, LoopSurvives, At
    <3>3. LostSteps(rows')
      BY <3>2, <2>t, <1>i, <1>s, StatementsLost
    <3> QED BY <3>1, <3>3, <1>k, <1>w
  <2> QED BY <2>1, <2>2, <2>3, <2>4
<1>7. ASSUME NEW d \in Deployment, LeaseExpires(d)
      PROVE  Goal
  <2>1. /\ rows[d].status \in InFlight /\ rows' = [rows EXCEPT ![d].late = TRUE]
        /\ \A w \in Worker : ~(task[w].op = "deploy" /\ task[w].d = d)
        /\ UNCHANGED task
    BY <1>7 DEF LeaseExpires
  <2>2. /\ rows[d] \in Row /\ RowOK(rows[d]) /\ Tells(rows[d])
        /\ rows'[d] = [rows[d] EXCEPT !.late = TRUE]
    BY <2>1, <1>i, RowFacts DEF TypeOK, TableTypeOK
  <2>3. \A e \in Deployment : e # d => rows'[e] = rows[e]
    BY <2>1, <1>i DEF TypeOK, TableTypeOK
  <2>4. /\ Tells(rows'[d])
        /\ rows[d].error = "abandoned" => rows'[d].error = "abandoned"
    BY <2>2 DEF Tells, Row
  <2>5. ~rows[d].readyAt
    BY <2>1, <2>2 DEF RowOK, Tells, InFlight
  <2>6. NotInHand(d)
    BY <2>1, <2>5 DEF NotInHand, Holds, LostInv
  <2>7. \A e \in Deployment : rows'[e].readyAt = rows[e].readyAt
    BY <2>2, <2>3 DEF Row
  <2>8. ASSUME NEW w \in Worker, task'[w].op = "promote"
        PROVE  rows'[task'[w].d].readyAt
    BY <2>1, <2>7, <2>8, <1>i DEF LostInv, Inv, Shape, TaskShape, Actor
  <2>9. \A e \in Deployment : Lost(rows'[e]) => NotInHand(e)'
    BY <2>1, <2>3, <2>6 DEF NotInHand, LostInv
  <2> QED BY <2>3, <2>4, <2>8, <2>9, <1>i DEF Goal, LostInv, Told
<1> QED BY <1>1, <1>2, <1>3, <1>4, <1>5, <1>6, <1>7 DEF Next, WorkerStep

(* A deployment failed as abandoned keeps that record, never becomes ready and
   never serves, if no worker that lives outlives its lease: what the sweep
   takes away no worker has in hand, so nobody finishes it
   (reclaim_abandoned: "Nothing was deployed; try again"). *)
THEOREM AbandonedStaysAbandoned ==
    ASSUME ~Stalls
    PROVE  Spec => AbandonedWasNotDeployed
<1> DEFINE Step == \A d \in Deployment : rows[d].error = "abandoned" =>
                      /\ rows'[d].error = "abandoned" /\ ~rows'[d].readyAt
                      /\ production' # d /\ route' # d
<1>1. Init => LostInv
  <2> SUFFICES ASSUME Init PROVE LostInv
    OBVIOUS
  <2>1. \A d \in Deployment : rows[d] = NoRow
    BY DEF Init
  <2>2. \A a \in Actor : task[a].op = "none"
    BY DEF Init, Off, Rest
  <2> QED BY <2>1, <2>2, InitInv
          DEF LostInv, Told, Tells, Lost, NoRow, NotInHand, Holds, Actor
<1>2. LostInv /\ [Next]_vars => LostInv' /\ Step
  <2> SUFFICES ASSUME LostInv, [Next]_vars PROVE LostInv' /\ Step
    OBVIOUS
  <2>1. /\ LostInv'
        /\ \A d \in Deployment :
              rows[d].error = "abandoned" => rows'[d].error = "abandoned"
    BY LostNext
  <2>2. \A d \in Deployment : rows'[d].error = "abandoned" => ~rows'[d].readyAt
    BY <2>1 DEF LostInv, Told, Tells
  <2>3. \A d \in Deployment :
           production' = d \/ route' = d => rows'[d].readyAt
    BY <2>1, NumberAssumption DEF LostInv, Inv, ProductionWasReady
  <2> QED BY <2>1, <2>2, <2>3
<1> HIDE DEF Step
<1>3. Spec => [][Step]_vars
  BY <1>1, <1>2, PTL DEF Spec
<1> QED BY <1>3 DEF Step, AbandonedWasNotDeployed

-----------------------------------------------------------------------------
(* Deploys move production forward *)

NoneMade == \A d \in Deployment : rows[d].status = "none" => rows'[d].status = "none"

Made == \E d \in Deployment, ref \in Ref, trigger \in Trigger :
           IsNextNumber(d) /\ rows' = Created(d, ref, trigger)

\* What a step is to the queue, to those at work and to the pointer, when
\* nobody asks for a promotion.
LEMMA NextGoes ==
    ASSUME Inv, "promote" \notin Asks, [Next]_vars
    PROVE  /\ WorkGoesOn \/ \E w \in Worker : ClaimNext(w) \/ MarkReady(w)
           /\ NoneMade \/ (Made /\ WorkGoesOn /\ UNCHANGED production)
           /\ \/ UNCHANGED production
              \/ \E a \in Actor : At(a, "promote", "point") /\ production' = task[a].d
<1> DEFINE Point == \/ UNCHANGED production
                    \/ \E a \in Actor : /\ At(a, "promote", "point")
                                        /\ production' = task[a].d
           Goal == /\ WorkGoesOn \/ \E w \in Worker : ClaimNext(w) \/ MarkReady(w)
                   /\ NoneMade \/ (Made /\ WorkGoesOn /\ UNCHANGED production)
                   /\ Point
<1>t. TypeOK /\ rows \in [Deployment -> Row]
  BY DEF Inv, TypeOK, TableTypeOK
<1>s. SameBuilds => NoneMade
  BY DEF SameBuilds, SameBuild, NoneMade
<1>o. ASSUME NEW d, d \in Deployment => rows[d].status # "none",
             \A e \in Deployment : e # d => rows'[e] = rows[e]
      PROVE  NoneMade
  BY <1>o DEF NoneMade
<1>r. rows' = Reclaimed \/ (\E d : rows' = Superseded(d)) => NoneMade
  BY DEF NoneMade, Reclaimed, Abandoned, Superseded, ReplacedBy, InFlight
<1>w. ASSUME NEW a \in Actor, task[a].op = "cancel" \/ (a \in Worker /\ Working(task[a]))
      PROVE  task[a].d \in Deployment /\ rows[task[a].d].status # "none"
  BY <1>w DEF Inv, Shape, TaskShape, Tasks, TaskOK, Working
<1> SUFFICES Goal
  OBVIOUS
<1>1. CASE UNCHANGED vars
  BY <1>1 DEF vars, promotionVars, NoneMade, WorkGoesOn, Goes
<1>2. ASSUME NEW a \in Actor, PromotionStep(a)
      PROVE  Goal
  BY <1>2, <1>s, PromotionGoes
<1>3. ASSUME NEW w \in Worker, StartWorker(w) \/ ReconcileStep(w)
      PROVE  Goal
  BY <1>3, <1>s, <1>r, StartupGoes
<1>4. CASE Environment
  BY <1>4, <1>s, EnvironmentGoes
<1>5. ASSUME NEW r \in Request, RequestDeploys(r) \/ RequestPromotes(r)
      PROVE  Goal
  <2>1. WorkGoesOn /\ UNCHANGED production
    BY <1>5, RequestGoes
  <2>2. CASE SameBuilds \/ Made \/ rows' = Superseded(task[r].d)
    BY <2>1, <2>2, <1>s, <1>r
  <2>3. CASE CancelWrite(r)
    <3>1. /\ r \in Actor /\ task[r].op = "cancel"
          /\ rows' = MarkedCancelled(task[r].d)
      BY <2>3 DEF CancelWrite, At, Actor
    <3>2. NoneMade
      BY <3>1, <1>o, <1>w, <1>t DEF MarkedCancelled
    <3> QED BY <2>1, <3>2
  <2>4. CASE ~CancelWrite(r)
    <3>1. UNCHANGED rows \/ Made \/ rows' = Superseded(task[r].d)
      BY <1>5, <2>4 DEF RequestDeploys, QueueDeploy, Supersede, CancelRead,
           RequestPromotes, RequestPromotion, ChangeDomains, RefreshTarget, Made
    <3> QED BY <3>1, <2>2, <1>t, ContainerOnly
  <2> QED BY <2>3, <2>4
<1>6. ASSUME NEW w \in Worker, DeployStep(w) \/ LoopSurvives(w)
      PROVE  Goal
  <2>1. UNCHANGED production /\ (WorkGoesOn \/ ClaimNext(w) \/ MarkReady(w))
    BY <1>6, DeployGoes
  <2>2. CASE ClaimNext(w)
    <3>1. PICK d \in Deployment : rows[d].status = "queued" /\ rows' = Claimed(d, w)
      BY <2>2 DEF ClaimNext, Claimable
    <3>2. \A e \in Deployment : e # d => rows'[e] = rows[e]
      BY <3>1, <1>t DEF Claimed
    <3> QED BY <2>1, <3>1, <3>2, <1>o
  <2>3. CASE UNCHANGED rows \/ rows' = Reclaimed
    BY <2>1, <2>2, <2>3, <1>r, <1>s, <1>t, ContainerOnly
  <2>4. ASSUME task[w].op = "deploy",
               rows' \in {Heartbeat(task[w].d), MarkedBuilt(task[w].d),
                          MarkedReady(task[w].d, task[w].c), MarkedFailed(task[w].d)}
        PROVE  Goal
    <3>1. \A e \in Deployment : e # task[w].d => rows'[e] = rows[e]
      BY <2>4, <1>t DEF Heartbeat, MarkedBuilt, MarkedReady, MarkedFailed
    <3>2. rows[task[w].d].status # "none"
      BY <2>4, <1>w DEF Working, Actor
    <3> QED BY <2>1, <2>2, <3>1, <3>2, <1>o
  <2> QED BY <1>6, <2>2, <2>3, <2>4
          DEF DeployStep, SweepAbandoned, Checkout, Plan, Build, PhaseFails,
              MarkBuilt, MarkReady, MarkFailed, LoopSurvives, At
<1>7. ASSUME NEW d \in Deployment, LeaseExpires(d)
      PROVE  Goal
  <2>1. /\ rows[d].status # "none" /\ UNCHANGED <<production, task>>
        /\ \A e \in Deployment : e # d => rows'[e] = rows[e]
    BY <1>7, <1>t DEF LeaseExpires, InFlight
  <2> QED BY <2>1, <1>o DEF WorkGoesOn, Goes
<1> HIDE DEF Goal
<1> QED
  BY <1>1, <1>2, <1>3, <1>4, <1>5, <1>6, <1>7 DEF Next, WorkerStep, Actor

\* A build of production's branch that waits.
Waiting(e) == rows[e].status = "queued" /\ IsProductionRef(e)

\* A build of production's branch, or its promotion, in a worker's hands.
ForProduction(v) == Working(task[v]) /\ IsProductionRef(task[v].d)

ForwardInv ==
    /\ Inv
    /\ \A d, e \in Deployment : e < d /\ Exists(d) => Exists(e)
    /\ \A r \in Request : task[r].op # "promote"
    /\ \A v \in Worker : task[v].op = "promote" => IsProductionRef(task[v].d)
    /\ \A e \in Deployment : Waiting(e) =>
          /\ production # None => production < e
          /\ \A v \in Worker : ForProduction(v) => task[v].d < e
    /\ \A v \in Worker :
          ForProduction(v) /\ production # None => production <= task[v].d

LEMMA ForwardNext ==
    ASSUME NEW w, Worker = {w}, "promote" \notin Asks, ForwardInv, [Next]_vars
    PROVE  /\ ForwardInv'
           /\ production # None /\ production' # None => production' >= production
<1>i. /\ Inv /\ Inv' /\ TypeOK /\ TypeOK' /\ Rows /\ Steps(rows')
      /\ rows \in [Deployment -> Row] /\ task \in [Actor -> Task]
      /\ production \in Deployment \cup {None} /\ production' \in Deployment \cup {None}
      /\ w \in Actor
  BY NextKeeps DEF ForwardInv, Inv, TypeOK, TableTypeOK, Actor
<1>n. Deployment \subseteq Nat /\ None \notin Deployment
  BY NumberAssumption
<1>o. \A d, e \in Deployment : d <= d /\ (d < e => d <= e)
  BY <1>n
<1>h. \A d \in Deployment :
        /\ Exists(d) => Exists(d)' /\ rows'[d].ref = rows[d].ref
        /\ rows[d].status \notin {"none", "queued"}
              => rows'[d].status \notin {"none", "queued"}
  BY <1>i DEF Steps, RowStep, Harmless, Exists
<1>v. Working(task[w]) =>
         task[w].d \in Deployment /\ rows[task[w].d].status \notin {"none", "queued"}
  BY <1>i DEF Inv, Shape, TaskShape, Tasks, TaskOK, Working
<1>p. production # None => Exists(production)
  BY <1>i DEF Inv, ProductionWasReady, Rows, RowOK, Exists
<1>g. /\ WorkGoesOn \/ ClaimNext(w) \/ MarkReady(w)
      /\ NoneMade \/ (Made /\ WorkGoesOn /\ UNCHANGED production)
      /\ \/ UNCHANGED production
         \/ \E a \in Actor : At(a, "promote", "point") /\ production' = task[a].d
  BY <1>i, NextGoes
<1>1. \/ UNCHANGED production
      \/ At(w, "promote", "point") /\ production' = task[w].d /\ ForProduction(w)
  BY <1>g DEF ForwardInv, At, Actor, ForProduction, Working
<1>2. production # None /\ production' # None => production' >= production
  BY <1>1, <1>i, <1>n DEF ForwardInv
<1>3. ASSUME NEW d \in Deployment, NEW e \in Deployment, e < d, Exists(d)'
      PROVE  Exists(e)'
  <2>1. CASE NoneMade
    BY <2>1, <1>3, <1>h DEF ForwardInv, NoneMade, Exists
  <2>2. CASE Made
    <3>1. PICK m \in Deployment, ref \in Ref, trigger \in Trigger :
             IsNextNumber(m) /\ rows' = Created(m, ref, trigger)
      BY <2>2 DEF Made
    <3>2. d = m \/ Exists(d)
      BY <3>1, <1>3, <1>i DEF Created, Exists
    <3> QED BY <3>1, <3>2, <1>3, <1>h DEF IsNextNumber, ForwardInv
  <2> QED BY <2>1, <2>2, <1>g
<1>4. ASSUME NEW r \in Request PROVE task'[r].op # "promote"
  <2>1. r \in Actor /\ r # w
    BY RequestAssumption DEF Actor
  <2>2. CASE WorkGoesOn
    BY <2>1, <2>2 DEF WorkGoesOn, Goes, Working, ForwardInv
  <2>3. CASE ClaimNext(w) \/ MarkReady(w)
    <3>1. task'[r].op = task[r].op
      BY <2>1, <2>3, <1>i DEF ClaimNext, MarkReady, Become, Begin, Task
    <3> QED BY <3>1 DEF ForwardInv
  <2> QED BY <2>2, <2>3, <1>g
\* The worker goes on with what it has, claims, or has proven its build.
<1>5. \/ Working(task'[w]) => Working(task[w]) /\ task'[w].d = task[w].d
      \/ \E d \in Deployment : /\ Claimable(d) /\ rows' = Claimed(d, w)
                             /\ task'[w].op = "deploy" /\ task'[w].d = d
                             /\ UNCHANGED production
  <2>1. CASE WorkGoesOn
    BY <2>1, <1>i DEF WorkGoesOn, Goes
  <2>2. CASE ClaimNext(w)
    BY <2>2, <1>i DEF ClaimNext, Become, Rest
  <2>3. CASE MarkReady(w)
    BY <2>3, <1>i DEF MarkReady, At, Begin, Rest, Working
  <2> QED BY <2>1, <2>2, <2>3, <1>g
<1>q. \A d \in Deployment : Exists(d) => (IsProductionRef(d)' <=> IsProductionRef(d))
  BY <1>h DEF IsProductionRef
<1>6. task'[w].op = "promote" => rows'[task'[w].d].ref = ProductionBranch
  <2>1. CASE WorkGoesOn
    <3> SUFFICES ASSUME task'[w].op = "promote"
                 PROVE  rows'[task'[w].d].ref = ProductionBranch
      OBVIOUS
    <3>1. Working(task[w]) /\ task'[w].d = task[w].d /\ task[w].op = "promote"
      BY <2>1, <1>i DEF WorkGoesOn, Goes, Working
    <3>2. IsProductionRef(task[w].d)
      BY <3>1 DEF ForwardInv
    <3>3. task[w].d \in Deployment /\ Exists(task[w].d)
      BY <3>1, <1>v DEF Exists
    <3> QED BY <3>1, <3>2, <3>3, <1>h DEF IsProductionRef
  <2>2. CASE ClaimNext(w)
    BY <2>2, <1>i DEF ClaimNext, Become, Rest
  <2>3. CASE MarkReady(w)
    <3> DEFINE d == task[w].d
    <3>1. /\ task[w].op = "deploy"
          /\ task'[w].op = "promote" => IsProductionRef(d) /\ task'[w].d = d
      BY <2>3, <1>i DEF MarkReady, At, Begin, Rest
    <3>2. d \in Deployment /\ Exists(d)
      BY <3>1, <1>v DEF Working, Exists
    <3>3. IsProductionRef(d) => rows'[d].ref = ProductionBranch
      BY <3>2, <1>h DEF IsProductionRef
    <3> QED BY <3>1, <3>3 DEF IsProductionRef
  <2> QED BY <2>1, <2>2, <2>3, <1>g
\* What waits was waiting, or is new and so the greatest number of all.
<1>7. ASSUME NEW e \in Deployment, Waiting(e)'
      PROVE  \/ Waiting(e)
             \/ /\ \A d \in Deployment : Exists(d) => d < e
                /\ WorkGoesOn /\ UNCHANGED production
  <2>0. rows'[e].status = "queued" /\ rows'[e].ref = ProductionBranch
    BY <1>7 DEF Waiting, IsProductionRef
  <2>1. CASE Exists(e)
    BY <2>0, <2>1, <1>h DEF Waiting, IsProductionRef, Exists
  <2>2. CASE ~Exists(e)
    <3>1. Made /\ WorkGoesOn /\ UNCHANGED production
      BY <2>0, <2>2, <1>g DEF Exists, NoneMade
    <3>2. \A d \in Deployment : Exists(d) => d < e
      BY <2>2, <1>n DEF ForwardInv
    <3> QED BY <3>1, <3>2
  <2> QED BY <2>1, <2>2
<1>8. ASSUME NEW e \in Deployment, Waiting(e)'
      PROVE  /\ production' # None => production' < e
             /\ ForProduction(w)' => task'[w].d < e
  <2>1. CASE Waiting(e)
    <3>1. production' # None => production' < e
      BY <2>1, <1>1 DEF ForwardInv
    <3>2. ASSUME ForProduction(w)', Working(task[w]), task'[w].d = task[w].d
          PROVE  task'[w].d < e
      <4>1. ForProduction(w)
        BY <3>2, <1>h, <1>v DEF ForProduction, IsProductionRef, Exists
      <4> QED BY <2>1, <3>2, <4>1 DEF ForwardInv
    <3>3. ASSUME ForProduction(w)', NEW d \in Deployment, Claimable(d),
                 rows' = Claimed(d, w), task'[w].d = d
          PROVE  task'[w].d < e
      <4>1. rows'[d].status = "building" /\ rows'[d].ref = rows[d].ref
        BY <3>3, <1>i DEF Claimed, Row
      <4>2. IsProductionRef(d) /\ IsProductionRef(e) /\ ClaimFirst(d, e)
        BY <2>1, <3>3, <4>1 DEF ForProduction, IsProductionRef, Waiting, Claimable
      <4>3. d # e
        BY <4>1, <1>8 DEF Waiting
      <4> QED BY <3>3, <4>2, <4>3, <1>n DEF ClaimFirst
    <3>4. Working(task'[w]) \/ ~ForProduction(w)'
      BY DEF ForProduction
    <3> QED BY <3>1, <3>2, <3>3, <3>4, <1>5
  <2>2. CASE /\ \A d \in Deployment : Exists(d) => d < e
             /\ WorkGoesOn /\ UNCHANGED production
    <3>1. ForProduction(w)' => Working(task[w]) /\ task'[w].d = task[w].d
      BY <2>2, <1>i DEF ForProduction, WorkGoesOn, Goes
    <3> QED BY <2>2, <3>1, <1>p, <1>v, <1>i DEF Exists
  <2> QED BY <2>1, <2>2, <1>7, <1>8
<1>9. ASSUME ForProduction(w)', production' # None
      PROVE  production' <= task'[w].d
  <2>0. Working(task'[w]) /\ rows'[task'[w].d].ref = ProductionBranch
    BY <1>9 DEF ForProduction, IsProductionRef
  <2>1. CASE Working(task[w]) /\ task'[w].d = task[w].d
    <3>1. ForProduction(w)
      BY <2>0, <2>1, <1>h, <1>v DEF ForProduction, IsProductionRef, Exists
    <3>2. task[w].d <= task[w].d
      BY <2>1, <1>o, <1>v
    <3> QED BY <2>1, <3>1, <3>2, <1>1, <1>9 DEF ForwardInv
  <2>2. ASSUME NEW d \in Deployment, Claimable(d), rows' = Claimed(d, w), task'[w].d = d,
               UNCHANGED production
        PROVE  production' <= task'[w].d
    <3>1. rows[d].ref = ProductionBranch
      BY <2>0, <2>2, <1>i DEF Claimed, Row
    <3>2. production < d
      BY <2>2, <3>1, <1>9 DEF ForwardInv, Waiting, IsProductionRef, Claimable
    <3> QED BY <2>2, <3>2, <1>i, <1>o, <1>9
  <2> QED BY <2>0, <2>1, <2>2, <1>5
<1>10. task'[w].op = "promote" => IsProductionRef(task[w].d)'
  BY <1>6 DEF IsProductionRef
<1>11. ForwardInv'
  BY <1>3, <1>4, <1>8, <1>9, <1>10, <1>i DEF ForwardInv
<1> QED BY <1>2, <1>11

(* With one worker, and nobody asking for a promotion, production never goes
   back to an older deployment: claim_next takes the oldest build of
   production's branch, so what waits is newer than what is built, and what is
   built is newer than what serves. *)
THEOREM DeploysMoveForward ==
    ASSUME NEW w, Worker = {w}, "promote" \notin Asks
    PROVE  Spec => ProductionMovesForward
<1> DEFINE Step == production # None /\ production' # None => production' >= production
<1>1. Init => ForwardInv
  <2> SUFFICES ASSUME Init PROVE ForwardInv
    OBVIOUS
  <2>1. \A d \in Deployment : rows[d].status = "none"
    BY DEF Init, NoRow
  <2>2. \A a \in Actor : task[a].op = "none"
    BY DEF Init, Off, Rest
  <2> QED BY <2>1, <2>2, InitInv
          DEF ForwardInv, Exists, Waiting, ForProduction, Working, Actor
<1>2. ForwardInv /\ [Next]_vars => ForwardInv' /\ Step
  BY ForwardNext
<1> HIDE DEF Step
<1>3. Spec => [][Step]_vars
  BY <1>1, <1>2, PTL DEF Spec
<1> QED BY <1>3 DEF Step, ProductionMovesForward
=============================================================================
