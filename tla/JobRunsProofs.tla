--------------------------- MODULE JobRunsProofs ---------------------------
(***************************************************************************)
(* Proofs about module JobRuns, for every number of processes, schedules,  *)
(* workers, crashes and presses of "run now": the types; and, when no job  *)
(* may run for longer than a lease, that a run stays with the task that    *)
(* claimed it and ends once; and, when the retention is longer than the    *)
(* catch-up horizon, that a slot is started at most once.                  *)
(***************************************************************************)
EXTENDS JobRuns, TLAPS

-----------------------------------------------------------------------------
(* Types *)

LEMMA RowTypes ==
    ASSUME TypeOK
    PROVE  /\ NoRow \in Row
           /\ \A s \in Slot, st \in Status : Inserted(s, st) \in [Slot -> Row]
           /\ \A s \in Slot, w \in Worker : Claimed(s, w) \in [Slot -> Row]
           /\ \A s \in Slot, st \in Terminal : Finished(s, st) \in [Slot -> Row]
           /\ Reclaimed \in [Slot -> Row]
           /\ Kept \in [Slot -> Row]
           /\ \A p \in Process : Without(p) \in [Slot -> Row]
           /\ \A s \in Slot : [runs EXCEPT ![s].late = TRUE] \in [Slot -> Row]
<1>0. runs \in [Slot -> Row]
  BY DEF TypeOK
<1>1. \A st \in Status : [NoRow EXCEPT !.status = st] \in Row
  BY DEF NoRow, Row
<1>2. /\ NoRow \in Row
      /\ \A w \in Worker : [status |-> "running", by |-> w, late |-> FALSE] \in Row
  BY DEF NoRow, Row, Status
<1>3. Terminal \subseteq Status /\ "failed" \in Status
  BY DEF Status, Terminal
<1>4. \A s \in Slot, st \in Status : Inserted(s, st) \in [Slot -> Row]
  BY <1>0, <1>1 DEF Inserted
<1>5. \A s \in Slot, w \in Worker : Claimed(s, w) \in [Slot -> Row]
  BY <1>0, <1>2 DEF Claimed
<1>6. \A s \in Slot, st \in Terminal : Finished(s, st) \in [Slot -> Row]
  BY <1>0, <1>1, <1>3 DEF Finished
<1>7. Reclaimed \in [Slot -> Row]
  BY <1>0, <1>1, <1>3 DEF Reclaimed
<1>8. Kept \in [Slot -> Row] /\ \A p \in Process : Without(p) \in [Slot -> Row]
  BY <1>0, <1>2 DEF Kept, Without
<1>9. ASSUME NEW s \in Slot PROVE [runs EXCEPT ![s].late = TRUE] \in [Slot -> Row]
  BY <1>0 DEF Row
<1> QED BY <1>2, <1>4, <1>5, <1>6, <1>7, <1>8, <1>9

LEMMA LookType ==
    ASSUME TypeOK, NEW w \in Worker, NEW at \in Sweep, Look(w, at)
    PROVE  sweep' \in [Worker -> Sweep]
BY DEF TypeOK, Look

LEMMA AtType == \A pc \in {"top", "claim", "list"} : At(pc) \in Sweep
BY TimeAssumption DEF At, Sweep, Minute

LEMMA LoopStepType ==
    ASSUME TypeOK, NEW w \in Worker, LoopStep(w) \/ LoopRaises(w)
    PROVE  TypeOK'
<1>s. sweep[w] \in Sweep
  BY DEF TypeOK
<1>1. CASE SweepStart(w)
  <2> DEFINE at == [At("list") EXCEPT !.moment = now,
                                     !.todo = {p \in Process : process[p] = "on"}]
  <2>1. at \in Sweep
    BY AtType DEF TypeOK, Sweep, At
  <2>2. Look(w, at)
    BY <1>1 DEF SweepStart
  <2> HIDE DEF at
  <2>3. sweep' \in [Worker -> Sweep]
    BY <2>1, <2>2, LookType
  <2> QED BY <1>1, <2>3 DEF SweepStart, TypeOK
<1>2. CASE SweepLater(w) \/ NothingToClaim(w) \/ SweepEnds(w) \/ SweepRaises(w)
  <2>1. sweep' \in [Worker -> Sweep]
    BY <1>2, AtType, LookType
       DEF SweepLater, NothingToClaim, SweepEnds, SweepRaises
  <2> QED BY <1>2, <2>1
          DEF SweepLater, NothingToClaim, SweepEnds, SweepRaises, TypeOK
<1>3. ASSUME NEW p \in Process, SweepRead(w, p)
      PROVE  TypeOK'
  <2> DEFINE rest == [sweep[w] EXCEPT !.todo = @ \ {p}]
  <2>1. rest \in Sweep
    BY <1>s DEF Sweep
  <2>2. DueSlots(p, sweep[w].moment) \subseteq Slot
    BY ScheduleAssumption DEF DueSlots, Due, Slot
  <2>3. \A s \in Slot : [rest EXCEPT !.slot = s, !.serving = serving] \in Sweep
    BY <2>1 DEF Sweep, TypeOK
  <2>4. \/ Look(w, rest)
        \/ \E s \in Slot : Look(w, [rest EXCEPT !.slot = s, !.serving = serving])
    BY <1>3, <2>2 DEF SweepRead
  <2> HIDE DEF rest
  <2>5. sweep' \in [Worker -> Sweep]
    BY <2>1, <2>3, <2>4, LookType
  <2> QED BY <1>3, <2>5 DEF SweepRead, TypeOK
<1>4. CASE SweepClaim(w)
  <2> DEFINE at == [sweep[w] EXCEPT !.slot = None, !.serving = FALSE]
  <2>1. at \in Sweep
    BY <1>s DEF Sweep
  <2>2. Look(w, at)
    BY <1>4 DEF SweepClaim
  <2>3. sweep[w].slot \in Slot
    BY <1>4, <1>s DEF SweepClaim, Sweep
  <2>4. runs' \in [Slot -> Row]
    BY <1>4, <2>3, RowTypes DEF SweepClaim, Status, Terminal
  <2> HIDE DEF at
  <2>5. sweep' \in [Worker -> Sweep]
    BY <2>1, <2>2, LookType
  <2> QED BY <1>4, <2>4, <2>5 DEF SweepClaim, TypeOK
<1>5. CASE ClaimRun(w)
  <2>1. PICK s \in Slot :
           /\ runs' = Claimed(s, w)
           /\ tasks' = tasks \cup {[worker |-> w, slot |-> s, phase |-> "claimed",
                                    outcome |-> None]}
    BY <1>5 DEF ClaimRun
  <2>2. tasks' \subseteq Task
    BY <2>1 DEF TypeOK, Task
  <2>3. runs' \in [Slot -> Row]
    BY <2>1, RowTypes
  <2>4. sweep' \in [Worker -> Sweep]
    BY <1>5, AtType, LookType DEF ClaimRun
  <2> QED BY <1>5, <2>2, <2>3, <2>4 DEF ClaimRun, TypeOK
<1>6. CASE LoopRaises(w)
  <2>1. sweep' \in [Worker -> Sweep]
    BY <1>6, AtType, LookType DEF LoopRaises
  <2>2. faults' \in 0..MaxFaults
    BY <1>6, LimitAssumption DEF LoopRaises, Fault, TypeOK
  <2> QED BY <1>6, <2>1, <2>2 DEF LoopRaises, TypeOK
<1> QED BY <1>1, <1>2, <1>3, <1>4, <1>5, <1>6 DEF LoopStep, SweepStep

LEMMA AdvanceType ==
    ASSUME TypeOK, NEW t \in tasks,
           NEW phase \in {"start", "running", "finish"},
           NEW outcome \in Terminal \cup {None},
           Advance(t, phase, outcome)
    PROVE  tasks' \subseteq Task
<1>1. [t EXCEPT !.phase = phase, !.outcome = outcome] \in Task
  BY DEF TypeOK, Task
<1> QED BY <1>1 DEF Advance, TypeOK

\* A task that ends has an outcome to write.
Decided == \A t \in tasks : t.phase = "finish" => t.outcome \in Terminal

LEMMA JobStepType ==
    ASSUME TypeOK, Decided, NEW t \in tasks, JobStep(t) \/ JobFault(t)
    PROVE  TypeOK' /\ Decided'
<1>t. t \in Task /\ t.slot \in Slot /\ tasks \subseteq Task
  BY DEF TypeOK, Task
<1>o. {"succeeded", "failed", "timed_out", "skipped"} = Terminal
  BY DEF Terminal
<1>a. ASSUME NEW phase \in {"start", "running", "finish"},
             NEW outcome \in Terminal \cup {None},
             phase = "finish" => outcome \in Terminal,
             Advance(t, phase, outcome)
      PROVE  tasks' \subseteq Task /\ Decided'
  <2>1. tasks' \subseteq Task
    BY <1>a, AdvanceType
  <2>2. Decided'
    BY <1>a, <1>t DEF Decided, Advance, Task
  <2> QED BY <2>1, <2>2
<1>d. Drop(t) => tasks' \subseteq Task /\ Decided'
  BY <1>t DEF Drop, Decided
<1>1. CASE JobReads(t)
  <2>1. Advance(t, "start", None) \/ Advance(t, "finish", "skipped")
    BY <1>1 DEF JobReads
  <2>2. tasks' \subseteq Task /\ Decided'
    BY <2>1, <1>a, <1>o
  <2> QED BY <1>1, <2>2 DEF JobReads, TypeOK
<1>2. CASE JobHasNoProcess(t)
  BY <1>2, <1>d DEF JobHasNoProcess, TypeOK
<1>3. CASE JobStarts(t)
  <2>1. tasks' \subseteq Task /\ Decided'
    BY <1>3, <1>a DEF JobStarts
  <2>2. box' \in [Slot -> Box]
    BY <1>3, <1>t DEF JobStarts, TypeOK, Box
  <2> QED BY <1>3, <2>1, <2>2 DEF JobStarts, TypeOK
<1>4. CASE JobEnds(t) \/ JobTimesOut(t)
  <2>1. tasks' \subseteq Task /\ Decided'
    BY <1>4, <1>a, <1>o DEF JobEnds, JobTimesOut
  <2>2. box' \in [Slot -> Box]
    BY <1>4, <1>t DEF JobEnds, JobTimesOut, TypeOK, Box
  <2> QED BY <1>4, <2>1, <2>2 DEF JobEnds, JobTimesOut, TypeOK
<1>5. CASE JobErrs(t)
  <2>1. tasks' \subseteq Task /\ Decided'
    BY <1>5, <1>a, <1>o DEF JobErrs
  <2>2. faults' \in 0..MaxFaults
    BY <1>5, LimitAssumption DEF JobErrs, Fault, TypeOK
  <2> QED BY <1>5, <2>1, <2>2 DEF JobErrs, TypeOK
<1>6. CASE JobFinishes(t)
  <2>1. runs' \in [Slot -> Row]
    BY <1>6, <1>t, RowTypes DEF JobFinishes, Decided, TypeOK
  <2> QED BY <1>6, <2>1, <1>d DEF JobFinishes, TypeOK
<1>7. CASE JobDies(t)
  <2>1. faults' \in 0..MaxFaults
    BY <1>7, LimitAssumption DEF JobDies, Fault, TypeOK
  <2> QED BY <1>7, <2>1, <1>d DEF JobDies, TypeOK
<1> QED BY <1>1, <1>2, <1>3, <1>4, <1>5, <1>6, <1>7 DEF JobStep, JobFault

LEMMA OtherStepType ==
    ASSUME TypeOK,
           \/ \E w \in Worker : Reclaim(w) \/ DeleteOld(w) \/ Stop(w)
                                \/ Stopped(w) \/ Crash(w) \/ Restart(w)
           \/ \E p \in Process : OwnerStep(p)
           \/ RunNowClaim
           \/ \E s \in Slot : BoxExits(s) \/ LeaseExpires(s)
           \/ Tick
           \/ Promote
    PROVE  TypeOK'
<1>1. ASSUME NEW w \in Worker, Reclaim(w) \/ DeleteOld(w)
      PROVE  TypeOK'
  <2>1. runs' \in [Slot -> Row]
    BY <1>1, RowTypes DEF Reclaim, DeleteOld
  <2> QED BY <1>1, <2>1 DEF Reclaim, DeleteOld, TypeOK
<1>2. ASSUME NEW w \in Worker, Stop(w) \/ Stopped(w) \/ Crash(w) \/ Restart(w)
      PROVE  TypeOK'
  <2>1. worker' \in [Worker -> {"up", "stopping", "down"}]
    BY <1>2 DEF Stop, Stopped, Crash, Restart, TypeOK
  <2>2. sweep' \in [Worker -> Sweep]
    BY <1>2, AtType, LookType DEF Stop, Stopped, Crash, Restart, TypeOK
  <2>3. faults' \in 0..MaxFaults
    BY <1>2, LimitAssumption DEF Stop, Stopped, Crash, Restart, Fault, TypeOK
  <2>4. tasks' \subseteq Task
    BY <1>2 DEF Stop, Stopped, Crash, Restart, TypeOK
  <2> QED BY <1>2, <2>1, <2>2, <2>3, <2>4 DEF Stop, Stopped, Crash, Restart, TypeOK
<1>3. ASSUME NEW p \in Process, OwnerStep(p)
      PROVE  TypeOK'
  <2>1. request' \in Slot \cup {None}
    BY <1>3 DEF OwnerStep, RunNowRead, Toggle, Delete, TypeOK, Slot
  <2>2. process' \in [Process -> {"on", "off", "gone"}]
    BY <1>3 DEF OwnerStep, RunNowRead, Toggle, Delete, TypeOK
  <2>3. runs' \in [Slot -> Row]
    BY <1>3, RowTypes DEF OwnerStep, RunNowRead, Toggle, Delete, TypeOK
  <2> QED BY <1>3, <2>1, <2>2, <2>3 DEF OwnerStep, RunNowRead, Toggle, Delete, TypeOK
<1>4. CASE RunNowClaim
  <2>1. request \in Slot
    BY <1>4 DEF RunNowClaim, TypeOK
  <2>2. runs' \in [Slot -> Row]
    BY <1>4, <2>1, RowTypes DEF RunNowClaim, TypeOK, Status
  <2> QED BY <1>4, <2>2 DEF RunNowClaim, TypeOK
<1>5. ASSUME NEW s \in Slot, BoxExits(s) \/ LeaseExpires(s)
      PROVE  TypeOK'
  <2>1. runs' \in [Slot -> Row]
    BY <1>5, RowTypes DEF BoxExits, LeaseExpires, TypeOK
  <2>2. box' \in [Slot -> Box]
    BY <1>5 DEF BoxExits, LeaseExpires, TypeOK, Box
  <2> QED BY <1>5, <2>1, <2>2 DEF BoxExits, LeaseExpires, TypeOK
<1>6. CASE Tick \/ Promote
  <2>1. now' \in Minute
    BY <1>6, TimeAssumption DEF Tick, Promote, TypeOK, Minute
  <2>2. serving' \in BOOLEAN
    BY <1>6 DEF Tick, Promote, TypeOK
  <2> QED BY <1>6, <2>1, <2>2 DEF Tick, Promote, TypeOK
<1> QED BY <1>1, <1>2, <1>3, <1>4, <1>5, <1>6

LEMMA NextType ==
    ASSUME TypeOK, Decided, [Next]_vars
    PROVE  TypeOK' /\ Decided'
<1>1. ASSUME NEW t \in tasks, JobStep(t) \/ JobFault(t)
      PROVE  TypeOK' /\ Decided'
  BY <1>1, JobStepType
<1>2. ASSUME NEW w \in Worker, LoopStep(w) \/ LoopRaises(w)
      PROVE  TypeOK' /\ Decided'
  <2>1. TypeOK'
    BY <1>2, LoopStepType
  <2>2. \A t \in tasks' : t \in tasks \/ t.phase = "claimed"
    <3>1. CASE ClaimRun(w)
      <4>1. PICK s \in Slot :
              tasks' = tasks \cup {[worker |-> w, slot |-> s, phase |-> "claimed",
                                    outcome |-> None]}
        BY <3>1 DEF ClaimRun
      <4> QED BY <4>1
    <3>2. CASE ~ClaimRun(w)
      BY <1>2, <3>2
         DEF LoopStep, SweepStep, SweepStart, SweepLater, SweepRead, SweepClaim,
             SweepRaises, SweepEnds, NothingToClaim, LoopRaises
    <3> QED BY <3>1, <3>2
  <2>3. Decided'
    BY <2>2 DEF Decided
  <2> QED BY <2>1, <2>3
<1>3. CASE \/ \E w \in Worker : Reclaim(w) \/ DeleteOld(w) \/ Stop(w)
                                \/ Stopped(w) \/ Crash(w) \/ Restart(w)
           \/ \E p \in Process : OwnerStep(p)
           \/ RunNowClaim
           \/ \E s \in Slot : BoxExits(s) \/ LeaseExpires(s)
           \/ Tick
           \/ Promote
  <2>1. TypeOK'
    BY <1>3, OtherStepType
  <2>2. tasks' \subseteq tasks
    BY <1>3 DEF Reclaim, DeleteOld, Stop, Stopped, Crash, Restart, OwnerStep,
                RunNowRead, Toggle, Delete, RunNowClaim, BoxExits, LeaseExpires,
                Tick, Promote
  <2> QED BY <2>1, <2>2 DEF Decided
<1>4. CASE UNCHANGED vars
  BY <1>4 DEF vars, TypeOK, Decided
<1> QED BY <1>1, <1>2, <1>3, <1>4 DEF Next, LifeStep

LEMMA InitType == Init => TypeOK /\ Decided
<1> SUFFICES ASSUME Init
             PROVE  TypeOK /\ Decided
  OBVIOUS
<1>1. runs \in [Slot -> Row]
  BY DEF Init, NoRow, Row, Status
<1>2. sweep \in [Worker -> Sweep]
  BY AtType DEF Init
<1>3. box \in [Slot -> Box]
  BY DEF Init, Box
<1>4. now \in Minute /\ faults \in 0..MaxFaults
  BY TimeAssumption, LimitAssumption DEF Init, Minute
<1> QED BY <1>1, <1>2, <1>3, <1>4 DEF Init, TypeOK, Decided

\* The variables keep their types: what finish_run writes is a final status,
\* however the job went.
THEOREM JobRunsTypes == Spec => []TypeOK
<1>1. TypeOK /\ Decided /\ [Next]_vars => TypeOK' /\ Decided'
  BY NextType
<1>2. Spec => [](TypeOK /\ Decided)
  BY <1>1, InitType, PTL DEF Spec
<1> QED BY <1>2, PTL

-----------------------------------------------------------------------------
(* Who has a run *)

\* A deleted process has no rows.
Gone == \A s \in Slot : process[s[1]] = "gone" => runs[s] = NoRow

OneHolder == \A t, u \in tasks : t.slot = u.slot => t = u

Held(t) == [status |-> "running", by |-> t.worker, late |-> FALSE]

\* The row of a task is as the claim left it, or gone with its process.
Holding == \A t \in tasks : process[t.slot[1]] # "gone" => runs[t.slot] = Held(t)

HoldInv == TypeOK /\ Decided /\ Gone /\ OneHolder /\ Holding

\* What a step does to the table cannot be noticed by a task that lives on:
\* it changes no row a task holds and gives a deleted process none.
Unnoticed ==
    \A s \in Slot : \/ runs'[s] = runs[s]
                    \/ /\ \A t \in tasks' : t.slot # s
                       /\ process[s[1]] = "gone" => runs'[s] = NoRow

LEMMA UnnoticedKeeps ==
    ASSUME HoldInv, Unnoticed, process' = process, tasks' \subseteq tasks
    PROVE  Gone' /\ OneHolder' /\ Holding'
<1>1. \A t \in tasks : t.slot \in Slot
  BY DEF HoldInv, TypeOK, Task
<1>2. Gone'
  BY DEF HoldInv, Gone, Unnoticed
<1>3. OneHolder'
  BY DEF HoldInv, OneHolder
<1>4. Holding'
  BY <1>1 DEF HoldInv, Holding, Unnoticed, Held
<1> QED BY <1>2, <1>3, <1>4

LEMMA AdvanceKeeps ==
    ASSUME HoldInv, NEW t \in tasks, NEW phase, NEW outcome,
           Advance(t, phase, outcome), UNCHANGED <<process, runs>>
    PROVE  Gone' /\ OneHolder' /\ Holding'
<1> DEFINE v == [t EXCEPT !.phase = phase, !.outcome = outcome]
<1>1. t \in Task
  BY DEF HoldInv, TypeOK
<1>2. v.slot = t.slot /\ v.worker = t.worker
  BY <1>1 DEF Task
<1>3. tasks' = (tasks \ {t}) \cup {v}
  BY DEF Advance
<1> HIDE DEF v
<1>4. OneHolder'
  BY <1>2, <1>3 DEF HoldInv, OneHolder
<1>5. Holding'
  BY <1>2, <1>3 DEF HoldInv, Holding, Held
<1> QED BY <1>4, <1>5 DEF HoldInv, Gone

\* A row no task can hold.
LEMMA HeldIsRunning ==
    ASSUME HoldInv, NEW s \in Slot,
           runs[s].status # "running", process[s[1]] # "gone"
    PROVE  \A t \in tasks : t.slot # s
<1>1. SUFFICES ASSUME NEW t \in tasks, t.slot = s
               PROVE  FALSE
  OBVIOUS
<1>2. runs[s] = Held(t)
  BY <1>1 DEF HoldInv, Holding
<1>3. Held(t).status = "running"
  BY DEF Held
<1> QED BY <1>2, <1>3

LEMMA NoRowStatus == NoRow.status = "none"
BY DEF NoRow

LEMMA InsertUnnoticed ==
    ASSUME HoldInv, NEW s \in Slot, NEW status, process[s[1]] # "gone",
           runs' = Inserted(s, status), tasks' = tasks
    PROVE  Unnoticed
<1>1. runs \in [Slot -> Row]
  BY DEF HoldInv, TypeOK
<1>2. CASE Exists(s)
  BY <1>2 DEF Inserted, Unnoticed
<1>3. CASE ~Exists(s)
  <2>1. \A t \in tasks : t.slot # s
    BY <1>3, HeldIsRunning DEF Exists
  <2>2. \A x \in Slot : x # s => runs'[x] = runs[x]
    BY <1>1, <1>3 DEF Inserted
  <2> QED BY <2>1, <2>2 DEF Unnoticed
<1> QED BY <1>2, <1>3

LEMMA LoopStepHold ==
    ASSUME HoldInv, NEW w \in Worker, LoopStep(w) \/ LoopRaises(w)
    PROVE  Gone' /\ OneHolder' /\ Holding'
<1>1. CASE SweepClaim(w)
  <2>1. sweep[w].slot \in Slot /\ process[sweep[w].slot[1]] # "gone"
    BY <1>1 DEF SweepClaim, HoldInv, TypeOK, Sweep
  <2>2. Unnoticed
    BY <1>1, <2>1, InsertUnnoticed DEF SweepClaim
  <2> QED BY <1>1, <2>2, UnnoticedKeeps DEF SweepClaim
<1>2. CASE ClaimRun(w)
  <2>1. PICK s \in Slot :
           /\ ClaimFirst(s)
           /\ runs' = Claimed(s, w)
           /\ tasks' = tasks \cup {[worker |-> w, slot |-> s, phase |-> "claimed",
                                    outcome |-> None]}
    BY <1>2 DEF ClaimRun
  <2> DEFINE v == [worker |-> w, slot |-> s, phase |-> "claimed", outcome |-> None]
  <2>2. v.slot = s /\ v.worker = w /\ tasks' = tasks \cup {v}
    BY <2>1
  <2>3. process' = process /\ runs \in [Slot -> Row] /\ runs[s].status = "pending"
    BY <1>2, <2>1 DEF ClaimRun, ClaimFirst, HoldInv, TypeOK
  <2>4. process[s[1]] # "gone"
    BY <2>3 DEF HoldInv, Gone, NoRow
  <2>5. \A t \in tasks : t.slot # s /\ t.slot \in Slot
    BY <2>3, <2>4, HeldIsRunning DEF HoldInv, TypeOK, Task
  <2> HIDE DEF v
  <2>6. runs'[s] = Held(v)
    BY <2>1, <2>2, <2>3 DEF Claimed, Held
  <2>7. \A x \in Slot : x # s => runs'[x] = runs[x]
    BY <2>1, <2>3 DEF Claimed
  <2>8. OneHolder'
    BY <2>2, <2>5 DEF HoldInv, OneHolder
  <2>9. Holding'
    BY <2>2, <2>3, <2>5, <2>6, <2>7 DEF HoldInv, Holding, Held
  <2>10. Gone'
    BY <2>3, <2>4, <2>7 DEF HoldInv, Gone
  <2> QED BY <2>8, <2>9, <2>10
<1>3. CASE ~SweepClaim(w) /\ ~ClaimRun(w)
  BY <1>3 DEF LoopStep, SweepStep, SweepStart, SweepLater, SweepRead, SweepRaises,
              SweepEnds, NothingToClaim, LoopRaises, HoldInv, Gone, OneHolder, Holding
<1> QED BY <1>1, <1>2, <1>3

LEMMA JobStepHold ==
    ASSUME HoldInv, NEW t \in tasks, JobStep(t) \/ JobFault(t)
    PROVE  Gone' /\ OneHolder' /\ Holding'
<1>1. CASE JobReads(t) \/ JobStarts(t) \/ JobEnds(t) \/ JobTimesOut(t) \/ JobErrs(t)
  BY <1>1, AdvanceKeeps DEF JobReads, JobStarts, JobEnds, JobTimesOut, JobErrs
<1>2. CASE JobHasNoProcess(t) \/ JobDies(t)
  <2>1. Unnoticed /\ process' = process /\ tasks' \subseteq tasks
    BY <1>2 DEF JobHasNoProcess, JobDies, Drop, Unnoticed
  <2> QED BY <2>1, UnnoticedKeeps
<1>3. CASE JobFinishes(t)
  <2>1. runs \in [Slot -> Row] /\ t.slot \in Slot
    BY DEF HoldInv, TypeOK, Task
  <2>2. \A u \in tasks' : u.slot # t.slot
    BY <1>3 DEF JobFinishes, Drop, HoldInv, OneHolder
  <2>3. \A x \in Slot : x # t.slot => runs'[x] = runs[x]
    BY <1>3, <2>1 DEF JobFinishes, Finished
  <2>4. process[t.slot[1]] = "gone" => runs'[t.slot] = NoRow
    <3> SUFFICES ASSUME process[t.slot[1]] = "gone"
                 PROVE  runs'[t.slot] = NoRow
      OBVIOUS
    <3>1. runs[t.slot] = NoRow
      BY <2>1 DEF HoldInv, Gone
    <3>2. runs' = runs
      BY <1>3, <3>1, NoRowStatus DEF JobFinishes, Exists
    <3> QED BY <3>1, <3>2
  <2>5. Unnoticed
    BY <2>2, <2>3, <2>4 DEF Unnoticed
  <2> QED BY <1>3, <2>5, UnnoticedKeeps DEF JobFinishes, Drop
<1> QED BY <1>1, <1>2, <1>3 DEF JobStep, JobFault

LEMMA OtherStepHold ==
    ASSUME HoldInv, Slow = {},
           \/ \E w \in Worker : Reclaim(w) \/ DeleteOld(w) \/ Stop(w)
                                \/ Stopped(w) \/ Crash(w) \/ Restart(w)
           \/ \E p \in Process : OwnerStep(p)
           \/ RunNowClaim
           \/ \E s \in Slot : BoxExits(s) \/ LeaseExpires(s)
           \/ Tick
           \/ Promote
    PROVE  Gone' /\ OneHolder' /\ Holding'
<1>0. runs \in [Slot -> Row] /\ \A t \in tasks : t.slot \in Slot
  BY DEF HoldInv, TypeOK, Task
<1>1. ASSUME NEW w \in Worker, Reclaim(w)
      PROVE  Gone' /\ OneHolder' /\ Holding'
  <2>1. ASSUME NEW s \in Slot, Abandoned(s)
        PROVE  /\ \A t \in tasks : t.slot # s
               /\ process[s[1]] # "gone"
    <3>1. process[s[1]] # "gone"
      BY <2>1, NoRowStatus DEF Abandoned, HoldInv, Gone
    <3>2. ASSUME NEW t \in tasks, t.slot = s
          PROVE  FALSE
      <4>1. runs[s] = Held(t)
        BY <3>1, <3>2 DEF HoldInv, Holding
      <4>2. Held(t).late = FALSE
        BY DEF Held
      <4> QED BY <2>1, <4>1, <4>2 DEF Abandoned
    <3> QED BY <3>1, <3>2
  <2>2. Unnoticed
    BY <1>1, <2>1 DEF Reclaim, Reclaimed, Unnoticed
  <2> QED BY <1>1, <2>2, UnnoticedKeeps DEF Reclaim
<1>2. ASSUME NEW w \in Worker, DeleteOld(w)
      PROVE  Gone' /\ OneHolder' /\ Holding'
  <2>1. ASSUME NEW s \in Slot, Expired(s)
        PROVE  /\ \A t \in tasks : t.slot # s
               /\ process[s[1]] # "gone"
    <3>1. runs[s].status # "running" /\ runs[s].status # "none"
      BY <2>1 DEF Expired, Terminal
    <3>2. process[s[1]] # "gone"
      BY <3>1 DEF HoldInv, Gone, NoRow
    <3> QED BY <3>1, <3>2, HeldIsRunning
  <2>2. Unnoticed
    BY <1>2, <2>1 DEF DeleteOld, Kept, Unnoticed
  <2> QED BY <1>2, <2>2, UnnoticedKeeps DEF DeleteOld
<1>3. ASSUME NEW w \in Worker, Stop(w) \/ Stopped(w) \/ Crash(w) \/ Restart(w)
      PROVE  Gone' /\ OneHolder' /\ Holding'
  <2>1. Unnoticed /\ process' = process /\ tasks' \subseteq tasks
    BY <1>3 DEF Stop, Stopped, Crash, Restart, Unnoticed
  <2> QED BY <2>1, UnnoticedKeeps
<1>4. ASSUME NEW p \in Process, OwnerStep(p)
      PROVE  Gone' /\ OneHolder' /\ Holding'
  <2>1. CASE RunNowRead(p)
    BY <2>1 DEF RunNowRead, HoldInv, Gone, OneHolder, Holding
  <2>2. CASE Toggle(p)
    <3>1. \A q \in Process : process'[q] = "gone" <=> process[q] = "gone"
      BY <2>2 DEF Toggle, HoldInv, TypeOK
    <3>2. \A s \in Slot : s[1] \in Process
      BY DEF Slot
    <3> QED BY <1>0, <2>2, <3>1, <3>2
            DEF Toggle, HoldInv, Gone, OneHolder, Holding, Held
  <2>3. CASE Delete(p)
    <3>1. \A s \in Slot : s[1] \in Process
      BY DEF Slot
    <3>2. \A q \in Process : process'[q] = IF q = p THEN "gone" ELSE process[q]
      BY <2>3 DEF Delete, HoldInv, TypeOK
    <3>3. \A s \in Slot : runs'[s] = IF s[1] = p THEN NoRow ELSE runs[s]
      BY <2>3 DEF Delete, Without
    <3>4. tasks' = tasks
      BY <2>3 DEF Delete
    <3> QED BY <1>0, <3>1, <3>2, <3>3, <3>4
            DEF HoldInv, Gone, OneHolder, Holding, Held
  <2> QED BY <1>4, <2>1, <2>2, <2>3 DEF OwnerStep
<1>5. CASE RunNowClaim
  <2>1. request \in Slot
    BY <1>5 DEF RunNowClaim, HoldInv, TypeOK
  <2>2. Unnoticed
    BY <1>5, <2>1, InsertUnnoticed DEF RunNowClaim, Unnoticed
  <2> QED BY <1>5, <2>2, UnnoticedKeeps DEF RunNowClaim
<1>6. ASSUME NEW s \in Slot, BoxExits(s)
      PROVE  Gone' /\ OneHolder' /\ Holding'
  BY <1>6 DEF BoxExits, HoldInv, Gone, OneHolder, Holding
<1>7. ASSUME NEW s \in Slot, LeaseExpires(s)
      PROVE  Gone' /\ OneHolder' /\ Holding'
  <2>1. \A t \in tasks : t.slot # s
    BY <1>7 DEF LeaseExpires, Holders
  <2>2. process[s[1]] # "gone"
    BY <1>7 DEF LeaseExpires, HoldInv, Gone, NoRow
  <2>3. \A x \in Slot : x # s => runs'[x] = runs[x]
    BY <1>0, <1>7 DEF LeaseExpires
  <2>4. Unnoticed
    BY <1>7, <2>1, <2>2, <2>3 DEF LeaseExpires, Unnoticed
  <2> QED BY <1>7, <2>4, UnnoticedKeeps DEF LeaseExpires
<1>8. CASE Tick \/ Promote
  BY <1>8 DEF Tick, Promote, HoldInv, Gone, OneHolder, Holding
<1> QED BY <1>1, <1>2, <1>3, <1>4, <1>5, <1>6, <1>7, <1>8

\* While no job may run for longer than a lease, a step leaves every task its
\* row.
LEMMA HoldStep ==
    ASSUME HoldInv, Slow = {}, [Next]_vars
    PROVE  HoldInv'
<1>1. TypeOK' /\ Decided'
  BY NextType DEF HoldInv
<1>2. Gone' /\ OneHolder' /\ Holding'
  <2>1. CASE UNCHANGED vars
    BY <2>1 DEF vars, HoldInv, Gone, OneHolder, Holding
  <2>2. ASSUME NEW t \in tasks, JobStep(t) \/ JobFault(t)
        PROVE  Gone' /\ OneHolder' /\ Holding'
    BY <2>2, JobStepHold
  <2>3. ASSUME NEW w \in Worker, LoopStep(w) \/ LoopRaises(w)
        PROVE  Gone' /\ OneHolder' /\ Holding'
    BY <2>3, LoopStepHold
  <2>4. CASE \/ \E w \in Worker : Reclaim(w) \/ DeleteOld(w) \/ Stop(w)
                                  \/ Stopped(w) \/ Crash(w) \/ Restart(w)
             \/ \E p \in Process : OwnerStep(p)
             \/ RunNowClaim
             \/ \E s \in Slot : BoxExits(s) \/ LeaseExpires(s)
             \/ Tick
             \/ Promote
    BY <2>4, OtherStepHold
  <2> QED BY <2>1, <2>2, <2>3, <2>4 DEF Next, LifeStep
<1> QED BY <1>1, <1>2 DEF HoldInv

LEMMA HoldInit == Init => HoldInv
BY InitType DEF Init, HoldInv, Gone, OneHolder, Holding

LEMMA AlwaysHeld ==
    ASSUME Slow = {}
    PROVE  Spec => []HoldInv
<1>1. HoldInv /\ [Next]_vars => HoldInv'
  BY HoldStep
<1> QED BY <1>1, HoldInit, PTL DEF Spec

\* A run stays with the task that claimed it: no sweep, no other worker and
\* no press of "run now" takes it away while the task lives.
THEOREM RunsStayWithTheirTasks ==
    ASSUME Slow = {}
    PROVE  Spec => []TasksHoldTheirRuns
<1>1. HoldInv => TasksHoldTheirRuns
  <2> SUFFICES ASSUME HoldInv, NEW t \in tasks
               PROVE  /\ Holders(t.slot) = {t}
                      /\ runs[t.slot].status = "running" => runs[t.slot].by = t.worker
                      /\ process[t.slot[1]] # "gone" => runs[t.slot].status = "running"
    BY DEF TasksHoldTheirRuns
  <2>1. Holders(t.slot) = {t}
    BY DEF HoldInv, OneHolder, Holders
  <2>2. t.slot \in Slot
    BY DEF HoldInv, TypeOK, Task
  <2>3. CASE process[t.slot[1]] = "gone"
    <3>1. runs[t.slot] = NoRow
      BY <2>2, <2>3 DEF HoldInv, Gone
    <3> QED BY <2>1, <2>3, <3>1, NoRowStatus
  <2>4. CASE process[t.slot[1]] # "gone"
    <3>1. runs[t.slot] = Held(t)
      BY <2>4 DEF HoldInv, Holding
    <3>2. Held(t).status = "running" /\ Held(t).by = t.worker
      BY DEF Held
    <3> QED BY <2>1, <3>1, <3>2
  <2> QED BY <2>3, <2>4
<1> QED BY <1>1, AlwaysHeld, PTL

\* What a step does to a row that is over: nothing, or it deletes it.
EndsOnceStep ==
    \A s \in Slot : runs[s].status \in Terminal => runs'[s] \in {runs[s], NoRow}

LEMMA EndsOnceNext ==
    ASSUME HoldInv, Next
    PROVE  EndsOnceStep
<1> SUFFICES ASSUME NEW s \in Slot, runs[s].status \in Terminal
             PROVE  runs'[s] \in {runs[s], NoRow}
  BY DEF EndsOnceStep
<1>0. runs \in [Slot -> Row]
  BY DEF HoldInv, TypeOK
<1>1. /\ runs[s].status \notin {"none", "pending", "running"}
      /\ Exists(s)
  BY DEF Terminal, Exists
<1>2. process[s[1]] # "gone"
  BY <1>1, NoRowStatus DEF HoldInv, Gone
<1>3. \A t \in tasks : t.slot # s /\ t.slot \in Slot
  BY <1>1, <1>2, HeldIsRunning DEF HoldInv, TypeOK, Task
<1>4. \A x \in Slot : \A status : Inserted(x, status)[s] = runs[s]
  BY <1>0, <1>1 DEF Inserted
<1>5. ASSUME NEW w \in Worker, LoopStep(w) \/ LoopRaises(w)
      PROVE  runs'[s] = runs[s]
  <2>1. CASE SweepClaim(w)
    <3>1. sweep[w].slot \in Slot
      BY <2>1 DEF SweepClaim, HoldInv, TypeOK, Sweep
    <3> QED BY <2>1, <3>1, <1>4 DEF SweepClaim
  <2>2. CASE ClaimRun(w)
    BY <2>2, <1>0, <1>1 DEF ClaimRun, ClaimFirst, Claimed
  <2>3. CASE ~SweepClaim(w) /\ ~ClaimRun(w)
    BY <1>5, <2>3 DEF LoopStep, SweepStep, SweepStart, SweepLater, SweepRead,
                      SweepRaises, SweepEnds, NothingToClaim, LoopRaises
  <2> QED BY <2>1, <2>2, <2>3
<1>6. ASSUME NEW t \in tasks, JobStep(t) \/ JobFault(t)
      PROVE  runs'[s] = runs[s]
  <2>1. CASE JobFinishes(t)
    BY <2>1, <1>0, <1>3 DEF JobFinishes, Finished
  <2>2. CASE ~JobFinishes(t)
    BY <1>6, <2>2 DEF JobStep, JobFault, JobReads, JobHasNoProcess, JobStarts,
                      JobEnds, JobTimesOut, JobErrs, JobDies
  <2> QED BY <2>1, <2>2
<1>7. ASSUME NEW w \in Worker, Reclaim(w) \/ DeleteOld(w) \/ LifeStep(w)
      PROVE  runs'[s] \in {runs[s], NoRow}
  BY <1>1, <1>7 DEF Reclaim, Reclaimed, Abandoned, DeleteOld, Kept, LifeStep,
                    LoopRaises, Stop, Stopped, Crash, Restart
<1>8. ASSUME NEW p \in Process, OwnerStep(p)
      PROVE  runs'[s] \in {runs[s], NoRow}
  BY <1>8 DEF OwnerStep, RunNowRead, Toggle, Delete, Without
<1>9. CASE RunNowClaim
  <2>1. request \in Slot
    BY <1>9 DEF RunNowClaim, HoldInv, TypeOK
  <2> QED BY <1>9, <2>1, <1>4 DEF RunNowClaim
<1>10. ASSUME NEW x \in Slot, BoxExits(x) \/ LeaseExpires(x)
       PROVE  runs'[s] = runs[s]
  BY <1>0, <1>1, <1>10 DEF BoxExits, LeaseExpires
<1>11. CASE Tick \/ Promote
  BY <1>11 DEF Tick, Promote
<1> QED BY <1>5, <1>6, <1>7, <1>8, <1>9, <1>10, <1>11 DEF Next

\* What a run ended as is final: a run failed as abandoned is not finished
\* again by a worker that was only slow.
THEOREM RunsEndOnce ==
    ASSUME Slow = {}
    PROVE  Spec => EndsOnce
<1>1. HoldInv /\ [Next]_vars => [EndsOnceStep]_vars
  BY EndsOnceNext
<1>2. Spec => [][EndsOnceStep]_vars
  BY <1>1, AlwaysHeld, PTL DEF Spec
<1> QED BY <1>2 DEF EndsOnce, EndsOnceStep

-----------------------------------------------------------------------------
(* A slot is started once *)

\* The slot was claimed: a task has it, or its container was started.
Used(s) == box[s].starts # 0 \/ \E t \in tasks : t.slot = s

\* Older than every row the housekeeping keeps.
Past(s) == s[2] < now - Retention

\* A pending slot was never claimed, and one that was claimed and has no row
\* any more is too old to be due again, or its process is deleted.
SlotOnce(s) ==
    /\ box[s].starts <= 1
    /\ runs[s].status = "pending" => ~Used(s)
    /\ ~Exists(s) /\ Used(s) => process[s[1]] = "gone" \/ Past(s)

\* The container is started by a task that has not started it yet.
StartsFirst == \A t \in tasks : t.phase \in {"claimed", "start"} => box[t.slot].starts = 0

Slots == Gone /\ OneHolder /\ StartsFirst /\ \A s \in Slot : SlotOnce(s)

\* What a sweep or a request is about to insert is not older than the horizon.
SweepRecent(w) ==
    sweep[w].at = "list" =>
        /\ sweep[w].moment <= now /\ now <= sweep[w].moment + 1
        /\ sweep[w].slot # None => sweep[w].slot[2] >= sweep[w].moment - Horizon

Recent ==
    /\ \A w \in Worker : SweepRecent(w)
    /\ request # None => now <= request[2] + 1

OnceInv == TypeOK /\ Decided /\ Slots /\ Recent

\* A change to the table that makes nothing pending and forgets only what is
\* past.
Settling ==
    \A s \in Slot :
        \/ runs'[s] = runs[s]
        \/ runs'[s].status \in Terminal \cup {"running"} /\ process[s[1]] # "gone"
        \/ runs'[s] = NoRow /\ Past(s)

SameStarts == \A s \in Slot : box'[s].starts = box[s].starts

LEMMA SettlingKeeps ==
    ASSUME OnceInv, Settling, SameStarts, tasks' \subseteq tasks,
           process' = process, now' = now
    PROVE  Slots'
<1>1. \A t \in tasks : t.slot \in Slot
  BY DEF OnceInv, TypeOK, Task
<1>2. OneHolder'
  BY DEF OnceInv, Slots, OneHolder
<1>3. StartsFirst'
  BY <1>1 DEF OnceInv, Slots, StartsFirst, SameStarts
<1>4. Gone'
  BY DEF OnceInv, Slots, Gone, Settling
<1>5. ASSUME NEW s \in Slot
      PROVE  SlotOnce(s)'
  <2>1. SlotOnce(s)
    BY DEF OnceInv, Slots
  <2>2. Used(s)' => Used(s)
    BY DEF Used, SameStarts
  <2>3. Past(s)' <=> Past(s)
    BY DEF Past
  <2>4. CASE runs'[s] = runs[s]
    BY <2>1, <2>2, <2>3, <2>4 DEF SlotOnce, SameStarts, Exists
  <2>5. CASE runs'[s].status \in Terminal \cup {"running"}
    BY <2>1, <2>5 DEF SlotOnce, SameStarts, Exists, Terminal
  <2>6. CASE runs'[s] = NoRow /\ Past(s)
    BY <2>1, <2>3, <2>6, NoRowStatus DEF SlotOnce, SameStarts
  <2> QED BY <2>4, <2>5, <2>6 DEF Settling
<1> QED BY <1>2, <1>3, <1>4, <1>5 DEF Slots

LEMMA AdvanceOnce ==
    ASSUME OnceInv, NEW t \in tasks, NEW phase, NEW outcome,
           Advance(t, phase, outcome), UNCHANGED <<process, runs, now>>,
           \/ SameStarts /\ (phase = "start" => t.phase = "claimed")
           \/ /\ t.phase = "start" /\ phase = "running"
              /\ box'[t.slot].starts = box[t.slot].starts + 1
              /\ \A s \in Slot : s # t.slot => box'[s].starts = box[s].starts,
           phase # "claimed"
    PROVE  Slots'
<1> DEFINE v == [t EXCEPT !.phase = phase, !.outcome = outcome]
<1>1. t \in Task /\ t.slot \in Slot /\ \A u \in tasks : u.slot \in Slot
  BY DEF OnceInv, TypeOK, Task
<1>2. v.slot = t.slot /\ v.phase = phase
  BY <1>1 DEF Task
<1>3. tasks' = (tasks \ {t}) \cup {v}
  BY DEF Advance
<1> HIDE DEF v
<1>4. OneHolder'
  BY <1>2, <1>3 DEF OnceInv, Slots, OneHolder
<1>5. Gone'
  BY DEF OnceInv, Slots, Gone
<1>6. \A u \in tasks : u # t => u.slot # t.slot
  BY DEF OnceInv, Slots, OneHolder
<1>7. StartsFirst'
  BY <1>1, <1>2, <1>3, <1>6 DEF OnceInv, Slots, StartsFirst, SameStarts
<1>8. ASSUME NEW s \in Slot
      PROVE  SlotOnce(s)'
  <2>1. SlotOnce(s)
    BY DEF OnceInv, Slots
  <2>2. CASE s = t.slot
    <3>1. Used(s)
      BY <2>2 DEF Used
    <3>2. box'[s].starts <= 1
      BY <1>1, <2>1, <2>2 DEF OnceInv, Slots, StartsFirst, SlotOnce, SameStarts
    <3> QED BY <2>1, <3>1, <3>2 DEF SlotOnce, Exists, Past
  <2>3. CASE s # t.slot
    <3>1. box'[s].starts = box[s].starts
      BY <2>3 DEF SameStarts
    <3>2. Used(s)' => Used(s)
      BY <1>2, <1>3, <2>3, <3>1 DEF Used
    <3> QED BY <2>1, <3>1, <3>2 DEF SlotOnce, Exists, Past
  <2> QED BY <2>2, <2>3
<1> QED BY <1>4, <1>5, <1>7, <1>8 DEF Slots

\* What is inserted was never claimed: it is not past.
LEMMA InsertOnce ==
    ASSUME OnceInv, NEW s \in Slot, NEW status \in {"pending", "skipped"},
           process[s[1]] # "gone", ~Past(s),
           runs' = Inserted(s, status), UNCHANGED <<process, tasks, box, now>>
    PROVE  Slots'
<1>0. runs \in [Slot -> Row]
  BY DEF OnceInv, TypeOK
<1>1. CASE Exists(s)
  BY <1>1 DEF Inserted, OnceInv, Slots, Gone, OneHolder, StartsFirst, SlotOnce,
              Used, Past, Exists
<1>2. CASE ~Exists(s)
  <2>1. ~Used(s) /\ SlotOnce(s)
    BY <1>2 DEF OnceInv, Slots, SlotOnce
  <2>2. \A x \in Slot : x # s => runs'[x] = runs[x]
    BY <1>0, <1>2 DEF Inserted
  <2>3. ASSUME NEW x \in Slot PROVE SlotOnce(x)'
    <3>1. SlotOnce(x)
      BY DEF OnceInv, Slots
    <3>2. Used(x)' <=> Used(x)
      BY DEF Used
    <3>3. Past(x)' <=> Past(x)
      BY DEF Past
    <3>4. CASE x = s
      BY <2>1, <3>2, <3>4 DEF SlotOnce
    <3>5. CASE x # s
      BY <2>2, <3>1, <3>2, <3>3, <3>5 DEF SlotOnce, Exists
    <3> QED BY <3>4, <3>5
  <2>4. Gone'
    BY <2>2 DEF OnceInv, Slots, Gone
  <2> QED BY <2>3, <2>4 DEF OnceInv, Slots, OneHolder, StartsFirst
<1> QED BY <1>1, <1>2

\* Nothing that could be inserted now is past.
LEMMA RecentIsNotPast ==
    ASSUME OnceInv, Horizon < Retention, NEW s \in Slot,
           \/ request = s
           \/ \E w \in Worker : sweep[w].at = "list" /\ sweep[w].slot = s
    PROVE  ~Past(s)
<1>0. /\ now \in Int /\ s[2] \in Int /\ Horizon \in Int /\ Retention \in Int
      /\ s # None
  BY TimeAssumption, NoneAssumption DEF OnceInv, TypeOK, Minute, Slot
<1>1. CASE request = s
  <2>1. now <= s[2] + 1
    BY <1>0, <1>1 DEF OnceInv, Recent
  <2> QED BY <1>0, <2>1, TimeAssumption DEF Past
<1>2. ASSUME NEW w \in Worker, sweep[w].at = "list", sweep[w].slot = s
      PROVE  ~Past(s)
  <2>1. sweep[w].moment \in Int
    BY DEF OnceInv, TypeOK, Sweep, Minute
  <2>2. now <= sweep[w].moment + 1 /\ s[2] >= sweep[w].moment - Horizon
    BY <1>0, <1>2 DEF OnceInv, Recent, SweepRecent
  <2> QED BY <1>0, <2>1, <2>2 DEF Past
<1> QED BY <1>1, <1>2

LEMMA LookRecent ==
    ASSUME OnceInv, NEW w \in Worker, NEW at \in Sweep, Look(w, at),
           at.at = "list" =>
               /\ at.moment <= now /\ now <= at.moment + 1
               /\ at.slot # None => at.slot[2] >= at.moment - Horizon,
           UNCHANGED <<now, request>>
    PROVE  Recent'
<1>1. sweep \in [Worker -> Sweep]
  BY DEF OnceInv, TypeOK
<1>2. \A x \in Worker : sweep'[x] = IF x = w THEN at ELSE sweep[x]
  BY <1>1 DEF Look
<1>3. ASSUME NEW x \in Worker PROVE SweepRecent(x)'
  <2>1. CASE x = w
    BY <1>2, <2>1 DEF SweepRecent
  <2>2. CASE x # w
    <3>1. SweepRecent(x)
      BY DEF OnceInv, Recent
    <3> QED BY <1>2, <2>2, <3>1 DEF SweepRecent
  <2> QED BY <2>1, <2>2
<1> QED BY <1>3 DEF OnceInv, Recent

LEMMA LoopStepRecent ==
    ASSUME OnceInv, NEW w \in Worker, LoopStep(w) \/ LoopRaises(w)
    PROVE  Recent'
<1>t. /\ sweep[w] \in Sweep
      /\ now \in Minute
      /\ TypeOK
  BY DEF OnceInv, TypeOK
<1>a. \A pc \in {"top", "claim"} : At(pc).at # "list" /\ At(pc) \in Sweep
  BY AtType DEF At
<1>r. SweepRecent(w)
  BY DEF OnceInv, Recent
<1>1. CASE SweepStart(w)
  <2> DEFINE at == [At("list") EXCEPT !.moment = now,
                                     !.todo = {p \in Process : process[p] = "on"}]
  <2>1. at \in Sweep
    BY <1>t, AtType DEF Sweep, At
  <2>2. at.moment = now /\ at.slot = None
    BY DEF At
  <2>3. Look(w, at) /\ UNCHANGED <<now, request>>
    BY <1>1 DEF SweepStart
  <2> HIDE DEF at
  <2> QED BY <1>t, <2>1, <2>2, <2>3, LookRecent, TimeAssumption DEF Minute
<1>2. CASE SweepLater(w) \/ NothingToClaim(w) \/ SweepEnds(w) \/ SweepRaises(w)
           \/ ClaimRun(w) \/ LoopRaises(w)
  <2>1. /\ UNCHANGED <<now, request>>
        /\ Look(w, At("top")) \/ Look(w, At("claim"))
    BY <1>2 DEF SweepLater, NothingToClaim, SweepEnds, SweepRaises, ClaimRun,
                LoopRaises
  <2> QED BY <1>a, <2>1, LookRecent
<1>3. ASSUME NEW p \in Process, SweepRead(w, p)
      PROVE  Recent'
  <2> DEFINE rest == [sweep[w] EXCEPT !.todo = @ \ {p}]
  <2>1. /\ rest \in Sweep /\ rest.moment = sweep[w].moment
        /\ rest.slot = sweep[w].slot
    BY <1>t DEF Sweep
  <2>2. \A s \in DueSlots(p, sweep[w].moment) :
           s \in Slot /\ s[2] >= sweep[w].moment - Horizon
    BY ScheduleAssumption DEF DueSlots, Due, Slot
  <2>3. \A s \in Slot :
           LET at == [rest EXCEPT !.slot = s, !.serving = serving]
           IN  at \in Sweep /\ at.moment = rest.moment /\ at.slot = s
    BY <1>t, <2>1 DEF Sweep, TypeOK
  <2>4. /\ UNCHANGED <<now, request>>
        /\ sweep[w].at = "list"
        /\ \/ Look(w, rest)
           \/ \E s \in DueSlots(p, sweep[w].moment) :
                 Look(w, [rest EXCEPT !.slot = s, !.serving = serving])
    BY <1>3 DEF SweepRead
  <2> HIDE DEF rest
  <2>5. /\ sweep[w].moment <= now /\ now <= sweep[w].moment + 1
        /\ sweep[w].slot # None => sweep[w].slot[2] >= sweep[w].moment - Horizon
    BY <1>r, <2>4 DEF SweepRecent
  <2>6. CASE Look(w, rest)
    BY <2>1, <2>4, <2>5, <2>6, LookRecent
  <2>7. ASSUME NEW s \in DueSlots(p, sweep[w].moment),
               Look(w, [rest EXCEPT !.slot = s, !.serving = serving])
        PROVE  Recent'
    <3> DEFINE at == [rest EXCEPT !.slot = s, !.serving = serving]
    <3>1. at \in Sweep /\ at.moment = sweep[w].moment /\ at.slot = s
      BY <2>1, <2>2, <2>3
    <3>2. Look(w, at)
      BY <2>7
    <3> HIDE DEF at
    <3> QED BY <2>2, <2>4, <2>5, <3>1, <3>2, LookRecent
  <2> QED BY <2>4, <2>6, <2>7
<1>4. CASE SweepClaim(w)
  <2> DEFINE at == [sweep[w] EXCEPT !.slot = None, !.serving = FALSE]
  <2>1. at \in Sweep /\ at.moment = sweep[w].moment /\ at.slot = None
    BY <1>t DEF Sweep
  <2>2. Look(w, at) /\ UNCHANGED <<now, request>> /\ sweep[w].at = "list"
    BY <1>4 DEF SweepClaim
  <2> HIDE DEF at
  <2> QED BY <1>r, <2>1, <2>2, LookRecent DEF SweepRecent
<1> QED BY <1>1, <1>2, <1>3, <1>4 DEF LoopStep, SweepStep

LEMMA LoopStepOnce ==
    ASSUME OnceInv, Horizon < Retention,
           NEW w \in Worker, LoopStep(w) \/ LoopRaises(w)
    PROVE  Slots'
<1>1. CASE SweepClaim(w)
  <2>1. /\ sweep[w].slot \in Slot /\ process[sweep[w].slot[1]] # "gone"
        /\ sweep[w].at = "list"
    BY <1>1 DEF SweepClaim, OnceInv, TypeOK, Sweep
  <2>2. ~Past(sweep[w].slot)
    BY <2>1, RecentIsNotPast
  <2> QED BY <1>1, <2>1, <2>2, InsertOnce DEF SweepClaim
<1>2. CASE ClaimRun(w)
  <2>1. PICK s \in Slot :
           /\ ClaimFirst(s)
           /\ runs' = Claimed(s, w)
           /\ tasks' = tasks \cup {[worker |-> w, slot |-> s, phase |-> "claimed",
                                    outcome |-> None]}
    BY <1>2 DEF ClaimRun
  <2> DEFINE v == [worker |-> w, slot |-> s, phase |-> "claimed", outcome |-> None]
  <2>2. v.slot = s /\ tasks' = tasks \cup {v}
    BY <2>1
  <2>3. /\ UNCHANGED <<process, box, now>> /\ runs \in [Slot -> Row]
        /\ runs[s].status = "pending"
        /\ \A t \in tasks : t.slot \in Slot
    BY <1>2, <2>1 DEF ClaimRun, ClaimFirst, OnceInv, TypeOK, Task
  <2>4. process[s[1]] # "gone"
    BY <2>3, NoRowStatus DEF OnceInv, Slots, Gone
  <2>5. ~Used(s) /\ SlotOnce(s)
    BY <2>3 DEF OnceInv, Slots, SlotOnce
  <2> HIDE DEF v
  <2>6. runs'[s].status = "running"
    BY <2>1, <2>3 DEF Claimed
  <2>7. \A x \in Slot : x # s => runs'[x] = runs[x]
    BY <2>1, <2>3 DEF Claimed
  <2>8. OneHolder'
    BY <2>2, <2>5 DEF OnceInv, Slots, OneHolder, Used
  <2>9. StartsFirst'
    BY <2>2, <2>3, <2>5 DEF OnceInv, Slots, StartsFirst, Used
  <2>10. Gone'
    BY <2>3, <2>4, <2>7 DEF OnceInv, Slots, Gone
  <2>11. ASSUME NEW x \in Slot PROVE SlotOnce(x)'
    <3>1. CASE x = s
      BY <2>3, <2>5, <2>6, <3>1 DEF SlotOnce, Exists
    <3>2. CASE x # s
      <4>1. SlotOnce(x)
        BY DEF OnceInv, Slots
      <4>2. Used(x)' <=> Used(x)
        BY <2>2, <2>3, <3>2 DEF Used
      <4> QED BY <2>3, <2>7, <3>2, <4>1, <4>2 DEF SlotOnce, Exists, Past
    <3> QED BY <3>1, <3>2
  <2> QED BY <2>8, <2>9, <2>10, <2>11 DEF Slots
<1>3. CASE ~SweepClaim(w) /\ ~ClaimRun(w)
  BY <1>3, SettlingKeeps
     DEF LoopStep, SweepStep, SweepStart, SweepLater, SweepRead, SweepRaises,
         SweepEnds, NothingToClaim, LoopRaises, Settling, SameStarts
<1> QED BY <1>1, <1>2, <1>3

LEMMA JobStepOnce ==
    ASSUME OnceInv, NEW t \in tasks, JobStep(t) \/ JobFault(t)
    PROVE  Slots' /\ Recent'
<1>0. /\ t \in Task /\ t.slot \in Slot /\ box \in [Slot -> Box]
      /\ runs \in [Slot -> Row]
  BY DEF OnceInv, TypeOK, Task
<1>1. Recent'
  <2>1. UNCHANGED <<now, sweep, request>>
    BY DEF JobStep, JobFault, JobReads, JobHasNoProcess, JobStarts, JobEnds,
           JobTimesOut, JobFinishes, JobErrs, JobDies
  <2> QED BY <2>1 DEF OnceInv, Recent, SweepRecent
<1> SUFFICES Slots'
  BY <1>1
<1>2. CASE JobReads(t)
  BY <1>2, AdvanceOnce DEF JobReads, SameStarts
<1>3. CASE JobStarts(t)
  <2>1. box'[t.slot].starts = box[t.slot].starts + 1
    BY <1>0, <1>3 DEF JobStarts
  <2>2. \A s \in Slot : s # t.slot => box'[s].starts = box[s].starts
    BY <1>0, <1>3 DEF JobStarts
  <2> QED BY <1>3, <2>1, <2>2, AdvanceOnce DEF JobStarts
<1>4. CASE JobEnds(t) \/ JobTimesOut(t) \/ JobErrs(t)
  <2>1. SameStarts
    BY <1>0, <1>4 DEF JobEnds, JobTimesOut, JobErrs, SameStarts, Box
  <2> QED BY <1>4, <2>1, AdvanceOnce DEF JobEnds, JobTimesOut, JobErrs
<1>5. CASE JobHasNoProcess(t) \/ JobDies(t)
  BY <1>5, SettlingKeeps DEF JobHasNoProcess, JobDies, Drop, Settling, SameStarts
<1>6. CASE JobFinishes(t)
  <2>1. t.outcome \in Terminal
    BY <1>6 DEF JobFinishes, OnceInv, Decided
  <2>2. CASE Exists(t.slot)
    <3>1. process[t.slot[1]] # "gone"
      BY <1>0, <2>2, NoRowStatus DEF Exists, OnceInv, Slots, Gone
    <3>2. runs'[t.slot].status = t.outcome
      BY <1>0, <1>6, <2>2 DEF JobFinishes, Finished, NoRow
    <3>3. \A s \in Slot : s # t.slot => runs'[s] = runs[s]
      BY <1>0, <1>6, <2>2 DEF JobFinishes, Finished
    <3>4. Settling
      BY <2>1, <3>1, <3>2, <3>3 DEF Settling
    <3> QED BY <1>6, <3>4, SettlingKeeps DEF JobFinishes, Drop, SameStarts
  <2>3. CASE ~Exists(t.slot)
    BY <1>6, <2>3, SettlingKeeps DEF JobFinishes, Drop, Settling, SameStarts
  <2> QED BY <2>2, <2>3
<1> QED BY <1>2, <1>3, <1>4, <1>5, <1>6 DEF JobStep, JobFault

LEMMA OtherStepOnce ==
    ASSUME OnceInv, Horizon < Retention,
           \/ \E w \in Worker : Reclaim(w) \/ DeleteOld(w) \/ Stop(w)
                                \/ Stopped(w) \/ Crash(w) \/ Restart(w)
           \/ \E p \in Process : OwnerStep(p)
           \/ RunNowClaim
           \/ \E s \in Slot : BoxExits(s) \/ LeaseExpires(s)
           \/ Tick
           \/ Promote
    PROVE  Slots' /\ Recent'
<1>0. /\ runs \in [Slot -> Row] /\ box \in [Slot -> Box]
      /\ \A t \in tasks : t.slot \in Slot
  BY DEF OnceInv, TypeOK, Task
<1>f. UNCHANGED <<now, sweep, request>> => Recent'
  BY DEF OnceInv, Recent, SweepRecent
<1>g. \A s \in Slot : Exists(s) => process[s[1]] # "gone"
  BY NoRowStatus DEF OnceInv, Slots, Gone, Exists
<1>1. ASSUME NEW w \in Worker, Reclaim(w)
      PROVE  Slots' /\ Recent'
  <2>1. \A s \in Slot : Abandoned(s) => process[s[1]] # "gone"
    BY <1>g DEF Abandoned, Exists
  <2>2. [NoRow EXCEPT !.status = "failed"].status \in Terminal
    BY DEF NoRow, Terminal
  <2>3. Settling
    BY <1>1, <2>1, <2>2 DEF Reclaim, Reclaimed, Settling
  <2>4. Slots'
    BY <1>1, <2>3, SettlingKeeps DEF Reclaim, SameStarts
  <2> QED BY <1>1, <1>f, <2>4 DEF Reclaim
<1>2. ASSUME NEW w \in Worker, DeleteOld(w)
      PROVE  Slots' /\ Recent'
  <2>1. Settling
    BY <1>2 DEF DeleteOld, Kept, Expired, Past, Settling
  <2>2. Slots'
    BY <1>2, <2>1, SettlingKeeps DEF DeleteOld, SameStarts
  <2> QED BY <1>2, <1>f, <2>2 DEF DeleteOld
<1>3. ASSUME NEW w \in Worker, Stop(w) \/ Stopped(w) \/ Crash(w) \/ Restart(w)
      PROVE  Slots' /\ Recent'
  <2>1. /\ Settling /\ SameStarts /\ tasks' \subseteq tasks
        /\ UNCHANGED <<process, now, request>>
        /\ sweep' = sweep \/ Look(w, At("top"))
    BY <1>3 DEF Stop, Stopped, Crash, Restart, Settling, SameStarts
  <2>2. Slots'
    BY <2>1, SettlingKeeps
  <2>3. Recent'
    <3>1. At("top") \in Sweep /\ At("top").at # "list"
      BY AtType DEF At
    <3>2. CASE sweep' = sweep
      BY <1>f, <2>1, <3>2
    <3>3. CASE Look(w, At("top"))
      BY <2>1, <3>1, <3>3, LookRecent
    <3> QED BY <2>1, <3>2, <3>3
  <2> QED BY <2>2, <2>3
<1>4. ASSUME NEW p \in Process, OwnerStep(p)
      PROVE  Slots' /\ Recent'
  <2>0. \A s \in Slot : s[1] \in Process
    BY DEF Slot
  <2>1. CASE RunNowRead(p)
    <3>1. Slots'
      BY <2>1, SettlingKeeps DEF RunNowRead, Settling, SameStarts
    <3>2. request'[2] = now /\ UNCHANGED <<now, sweep>>
      BY <2>1 DEF RunNowRead
    <3>3. now \in Int
      BY TimeAssumption DEF OnceInv, TypeOK, Minute
    <3> QED BY <3>1, <3>2, <3>3 DEF OnceInv, Recent, SweepRecent
  <2>2. CASE Toggle(p)
    <3>1. \A q \in Process : process'[q] = "gone" <=> process[q] = "gone"
      BY <2>2 DEF Toggle, OnceInv, TypeOK
    <3>2. UNCHANGED <<now, runs, sweep, tasks, box, request>>
      BY <2>2 DEF Toggle
    <3>3. \A s \in Slot : SlotOnce(s)'
      BY <2>0, <3>1, <3>2 DEF OnceInv, Slots, SlotOnce, Used, Past, Exists
    <3>4. Slots'
      BY <2>0, <3>1, <3>2, <3>3 DEF OnceInv, Slots, Gone, OneHolder, StartsFirst
    <3> QED BY <1>f, <3>2, <3>4
  <2>3. CASE Delete(p)
    <3>1. \A q \in Process : process'[q] = IF q = p THEN "gone" ELSE process[q]
      BY <2>3 DEF Delete, OnceInv, TypeOK
    <3>2. \A s \in Slot : runs'[s] = IF s[1] = p THEN NoRow ELSE runs[s]
      BY <2>3 DEF Delete, Without
    <3>3. UNCHANGED <<now, sweep, tasks, box, request>>
      BY <2>3 DEF Delete
    <3>4. ASSUME NEW s \in Slot PROVE SlotOnce(s)'
      <4>1. SlotOnce(s) /\ s[1] \in Process
        BY <2>0 DEF OnceInv, Slots
      <4>2. Used(s)' <=> Used(s)
        BY <3>3 DEF Used
      <4>3. Past(s)' <=> Past(s)
        BY <3>3 DEF Past
      <4> QED BY <3>1, <3>2, <3>3, <4>1, <4>2, <4>3, NoRowStatus DEF SlotOnce, Exists
    <3>5. Gone'
      BY <2>0, <3>1, <3>2 DEF OnceInv, Slots, Gone
    <3>6. Slots'
      BY <3>3, <3>4, <3>5 DEF OnceInv, Slots, OneHolder, StartsFirst
    <3> QED BY <1>f, <3>3, <3>6
  <2> QED BY <1>4, <2>1, <2>2, <2>3 DEF OwnerStep
<1>5. CASE RunNowClaim
  <2>1. request \in Slot
    BY <1>5 DEF RunNowClaim, OnceInv, TypeOK
  <2>2. ~Past(request)
    BY <2>1, RecentIsNotPast
  <2>3. Slots'
    <3>1. CASE process[request[1]] = "gone"
      BY <1>5, <3>1, SettlingKeeps DEF RunNowClaim, Settling, SameStarts
    <3>2. CASE process[request[1]] # "gone"
      BY <1>5, <2>1, <2>2, <3>2, InsertOnce DEF RunNowClaim
    <3> QED BY <3>1, <3>2
  <2>4. Recent'
    BY <1>5 DEF RunNowClaim, OnceInv, Recent, SweepRecent
  <2> QED BY <2>3, <2>4
<1>6. ASSUME NEW s \in Slot, BoxExits(s)
      PROVE  Slots' /\ Recent'
  <2>1. SameStarts
    BY <1>0, <1>6 DEF BoxExits, SameStarts, Box
  <2>2. Slots'
    BY <1>6, <2>1, SettlingKeeps DEF BoxExits, Settling
  <2> QED BY <1>6, <1>f, <2>2 DEF BoxExits
<1>7. ASSUME NEW s \in Slot, LeaseExpires(s)
      PROVE  Slots' /\ Recent'
  <2>1. runs'[s].status = "running"
    BY <1>0, <1>7 DEF LeaseExpires, Row
  <2>2. \A x \in Slot : x # s => runs'[x] = runs[x]
    BY <1>0, <1>7 DEF LeaseExpires
  <2>3. process[s[1]] # "gone"
    BY <1>7, <1>g DEF LeaseExpires, Exists
  <2>4. Settling
    BY <2>1, <2>2, <2>3 DEF Settling
  <2>5. Slots'
    BY <1>7, <2>4, SettlingKeeps DEF LeaseExpires, SameStarts
  <2> QED BY <1>7, <1>f, <2>5 DEF LeaseExpires
<1>8. CASE Tick
  <2>1. /\ now' = now + 1 /\ now \in Int /\ Retention \in Int
        /\ UNCHANGED <<process, runs, sweep, tasks, box, request>>
    BY <1>8, TimeAssumption DEF Tick, OnceInv, TypeOK, Minute
  <2>2. \A s \in Slot : Past(s) => Past(s)'
    BY <2>1, TimeAssumption DEF Past, Slot, Minute
  <2>3. ASSUME NEW s \in Slot PROVE SlotOnce(s)'
    <3>1. SlotOnce(s)
      BY DEF OnceInv, Slots
    <3> QED BY <2>1, <2>2, <3>1 DEF SlotOnce, Used, Exists
  <2>4. Slots'
    BY <2>1, <2>3 DEF OnceInv, Slots, Gone, OneHolder, StartsFirst
  <2>5. ASSUME NEW w \in Worker PROVE SweepRecent(w)'
    <3>1. SweepRecent(w) /\ (sweep[w].at = "list" => sweep[w].moment = now)
      BY <1>8 DEF Tick, OnceInv, Recent
    <3> QED BY <2>1, <3>1 DEF SweepRecent
  <2>6. Recent'
    BY <1>8, <2>1, <2>5 DEF Tick, Recent
  <2> QED BY <2>4, <2>6
<1>9. CASE Promote
  BY <1>9, <1>f, SettlingKeeps DEF Promote, Settling, SameStarts
<1> QED BY <1>1, <1>2, <1>3, <1>4, <1>5, <1>6, <1>7, <1>8, <1>9

LEMMA OnceStep ==
    ASSUME OnceInv, Horizon < Retention, [Next]_vars
    PROVE  OnceInv'
<1>1. TypeOK' /\ Decided'
  BY NextType DEF OnceInv
<1>2. Slots' /\ Recent'
  <2>1. CASE UNCHANGED vars
    BY <2>1 DEF vars, OnceInv, Slots, Gone, OneHolder, StartsFirst, SlotOnce, Used,
                Past, Exists, Recent, SweepRecent
  <2>2. ASSUME NEW t \in tasks, JobStep(t) \/ JobFault(t)
        PROVE  Slots' /\ Recent'
    BY <2>2, JobStepOnce
  <2>3. ASSUME NEW w \in Worker, LoopStep(w) \/ LoopRaises(w)
        PROVE  Slots' /\ Recent'
    BY <2>3, LoopStepOnce, LoopStepRecent
  <2>4. CASE \/ \E w \in Worker : Reclaim(w) \/ DeleteOld(w) \/ Stop(w)
                                  \/ Stopped(w) \/ Crash(w) \/ Restart(w)
             \/ \E p \in Process : OwnerStep(p)
             \/ RunNowClaim
             \/ \E s \in Slot : BoxExits(s) \/ LeaseExpires(s)
             \/ Tick
             \/ Promote
    BY <2>4, OtherStepOnce
  <2> QED BY <2>1, <2>2, <2>3, <2>4 DEF Next, LifeStep
<1> QED BY <1>1, <1>2 DEF OnceInv

LEMMA OnceInit == Init => OnceInv
<1> SUFFICES ASSUME Init
             PROVE  OnceInv
  OBVIOUS
<1>1. \A s \in Slot : SlotOnce(s)
  BY NoRowStatus DEF Init, SlotOnce, Used, Exists
<1>2. Recent
  BY DEF Init, Recent, SweepRecent, At
<1> QED BY <1>1, <1>2, InitType
        DEF Init, OnceInv, Slots, Gone, OneHolder, StartsFirst

\* A slot's container is started at most once, if the retention is longer
\* than the catch-up horizon: however many workers sweep, crash and restart.
THEOREM SlotsRunOnce ==
    ASSUME Horizon < Retention
    PROVE  Spec => []ExactlyOnce
<1>1. OnceInv /\ [Next]_vars => OnceInv'
  BY OnceStep
<1>2. OnceInv => ExactlyOnce
  BY DEF OnceInv, Slots, SlotOnce, ExactlyOnce
<1> QED BY <1>1, <1>2, OnceInit, PTL DEF Spec
=============================================================================
