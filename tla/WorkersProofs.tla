--------------------------- MODULE WorkersProofs ---------------------------
(***************************************************************************)
(* Proofs about module Workers, for every number of operations, replicas,  *)
(* deployments and containers: the types, that a worker is drained before  *)
(* it goes, and that a promotion whose roll ran alone leaves exactly the   *)
(* workers it wanted, on its image.                                        *)
(*                                                                         *)
(* The inductive invariant has six parts: the types; what an operation has *)
(* in hand (Shape); that a name has one running container (OneNamed); that *)
(* an operation that counts as alone is the only one (Alone); that such an *)
(* operation has freed the names it starts next (Freed); and what a roll   *)
(* that is alone has done so far (Rolled).  A step of one operation needs  *)
(* an argument about that operation only: when it is active, any other     *)
(* that is alone is not.                                                   *)
(***************************************************************************)
EXTENDS Workers, FiniteSetTheorems, SequenceTheorems, TLAPS

-----------------------------------------------------------------------------
(* The invariant *)

\* What an operation has in hand, among the first n containers.
HandOK(state, n) ==
    /\ state.kind \in {"roll", "apply"} => state.image \in Deployment
    /\ state.half \in 0..n
    /\ state.kind \in {"idle", "delete"} => state.at # "work" /\ state.half = 0
    /\ state.at = "read" => state.left = {} /\ state.half = 0 /\ state.existing = {}

Shape ==
    /\ project = "new" => box = <<>> /\ Active = {}
    /\ \A o \in Op : HandOK(op[o], Len(box)) /\ (op[o].kind = "delete" => project = "deleted")

\* A name is one container's.
OneNamed ==
    \A b, c \in Box :
        /\ box[b].state = "running" /\ box[c].state = "running"
        /\ box[b].replica = box[c].replica
        => b = c

Alone == \A o \in Active : op[o].alone => Active = {o}

\* No worker has the name of a replica that is to start next.
FreedFor(state) ==
    state.kind # "idle" /\ state.alone =>
        \A r \in state.left \ state.existing : Named(r) = {}

Freed == \A o \in Op : FreedFor(op[o])

\* Of the replicas nobody wants only those still to drain are left; those
\* that were wanted and are not left to start run the image.
RolledFor(state) ==
    state.kind = "roll" /\ state.alone /\ state.at = "work" /\ project = "present" =>
        /\ state.left \subseteq state.wanted /\ state.extra \cap state.wanted = {}
        /\ \A r \in Replica \ (state.wanted \cup state.extra) : Named(r) = {}
        /\ \A r \in state.wanted \ state.left :
              Named(r) # {} /\ \A b \in Named(r) : box[b].image = state.image

Rolled == \A o \in Op : RolledFor(op[o])

Inv == TypeOK /\ Shape /\ OneNamed /\ Alone /\ Freed /\ Rolled

-----------------------------------------------------------------------------
(* Containers *)

LEMMA BoxTypes ==
    ASSUME TypeOK
    PROVE  /\ box \in [1..Len(box) -> BoxState] /\ Len(box) \in 0..MaxBoxes
           /\ Box = 1..Len(box)
           /\ \A b \in Box : box[b] \in BoxState
BY WorkersAssumption, LenProperties DEF TypeOK, Box

LEMMA GoneType ==
    ASSUME TypeOK, NEW b \in Box
    PROVE  Gone \in BoxState
<1>1. box[b] \in BoxState
  BY BoxTypes
<1>2. box[b].replica \in 0..MaxReplicas - 1 /\ box[b].image \in 1..MaxDeployments
  BY <1>1 DEF BoxState, Replica, Deployment
<1>3. 0 \in Replica /\ 1 \in Deployment
  BY <1>2, WorkersAssumption DEF Replica, Deployment
<1> QED BY <1>3 DEF Gone, BoxState

\* The containers there are change in place.
LEMMA BoxesChange ==
    ASSUME TypeOK, NEW f \in [Box -> BoxState]
    PROVE  f \in Seq(BoxState) /\ Len(f) = Len(box)
<1>1. f \in [1..Len(box) -> BoxState] /\ Len(box) \in Nat
  BY BoxTypes, WorkersAssumption
<1>2. f \in Seq(BoxState)
  BY <1>1, SeqDef
<1> QED BY <1>1, <1>2, LenProperties

LEMMA RemovedTypes ==
    ASSUME TypeOK, NEW B
    PROVE  /\ Removed(B) \in Seq(BoxState) /\ Len(Removed(B)) = Len(box)
           /\ \A b \in Box : Removed(B)[b] = IF b \in B THEN Gone ELSE box[b]
<1>1. Removed(B) \in [Box -> BoxState]
  BY BoxTypes, GoneType DEF Removed
<1>2. \A b \in Box : Removed(B)[b] = IF b \in B THEN Gone ELSE box[b]
  BY DEF Removed
<1> QED BY <1>1, <1>2, BoxesChange

\* Containers stop being workers that hold a name, none becomes one.
Retires ==
    /\ box' \in Seq(BoxState) /\ Len(box') = Len(box)
    /\ \A b \in Box : box'[b] = box[b] \/ box'[b].state # "running"

LEMMA RetiresNamed ==
    ASSUME TypeOK, Retires
    PROVE  /\ Len(box') <= MaxBoxes /\ (OneNamed => OneNamed')
           /\ \A r : Named(r)' \subseteq Named(r)
           /\ \A r : \A b \in Named(r)' : box'[b] = box[b]
           /\ \A r : \A b \in Named(r) : box'[b] = box[b] => b \in Named(r)'
<1>1. Box' = Box /\ Len(box') \in 0..MaxBoxes
  BY BoxTypes, LenProperties DEF Retires, Box
<1>2. \A b \in Box : box'[b].state = "running" => box'[b] = box[b]
  BY DEF Retires
<1> QED BY <1>1, <1>2, WorkersAssumption DEF OneNamed, Named

LEMMA RenamedRetires ==
    ASSUME TypeOK, NEW b \in Box, NEW state \in {"draining", "asked"},
           box' = [box EXCEPT ![b].state = state]
    PROVE  /\ Retires /\ box'[b].state = state
           /\ \A c \in Box \ {b} : box'[c] = box[c]
<1> DEFINE item == [box[b] EXCEPT !.state = state]
<1>1. box[b] \in BoxState
  BY BoxTypes
<1>2. item \in BoxState /\ item.state = state
  BY <1>1 DEF BoxState
<1>3. box' = [box EXCEPT ![b] = item] /\ box \in [Box -> BoxState]
  BY BoxTypes
<1> HIDE DEF item
<1>4. box' \in [Box -> BoxState] /\ \A c \in Box : box'[c] = IF c = b THEN item ELSE box[c]
  BY <1>2, <1>3
<1> QED BY <1>2, <1>4, BoxesChange DEF Retires

LEMMA RemovedRetires ==
    ASSUME TypeOK, NEW B, box' = Removed(B)
    PROVE  Retires
BY RemovedTypes DEF Retires, Gone

LEMMA SameRetires ==
    ASSUME TypeOK, UNCHANGED box
    PROVE  Retires
BY DEF Retires, TypeOK

-----------------------------------------------------------------------------
(* Operations *)

LEMMA IdleOK ==
    /\ TypeOK => Idle \in OpState
    /\ Idle.kind = "idle" /\ \A n \in Nat : HandOK(Idle, n)
BY WorkersAssumption DEF Idle, OpState, HandOK

LEMMA SetDoes ==
    ASSUME TypeOK, NEW o \in Op, NEW state \in OpState, Set(o, state)
    PROVE  /\ op' \in [Op -> OpState]
           /\ \A x \in Op : op'[x] = IF x = o THEN state ELSE op[x]
BY DEF TypeOK, Set

\* While an operation is active no other one is alone.
LEMMA OthersAreNotAlone ==
    ASSUME Alone, NEW o \in Active, NEW x \in Op \ {o}
    PROVE  op[x].kind = "idle" \/ ~op[x].alone
BY DEF Alone, Active

\* An operation goes on, or ends: only what it says of itself is to be shown.
LEMMA OpMoves ==
    ASSUME Inv, NEW o \in Op, op[o].kind # "idle", NEW state \in OpState, Set(o, state),
           state.kind = "idle" \/ (state.kind = op[o].kind /\ state.alone = op[o].alone),
           UNCHANGED <<project, production, process, orphans, asks>>, faults' \in 0..MaxFaults,
           box' \in Seq(BoxState), Len(box') <= MaxBoxes, Len(box') >= Len(box), OneNamed',
           HandOK(state, Len(box')),
           state.kind # "idle" /\ state.alone =>
              \A r \in state.left \ state.existing : Named(r)' = {},
           state.kind = "roll" /\ state.alone /\ state.at = "work" /\ project = "present" =>
              /\ state.left \subseteq state.wanted /\ state.extra \cap state.wanted = {}
              /\ \A r \in Replica \ (state.wanted \cup state.extra) : Named(r)' = {}
              /\ \A r \in state.wanted \ state.left :
                    Named(r)' # {} /\ \A b \in Named(r)' : box'[b].image = state.image
    PROVE  Inv'
<1>1. op' \in [Op -> OpState] /\ \A x \in Op : op'[x] = IF x = o THEN state ELSE op[x]
  BY SetDoes DEF Inv
<1>2. TypeOK'
  BY <1>1 DEF Inv, TypeOK
<1>3. o \in Active
  BY DEF Active
<1>4. \A x \in Op \ {o} : op[x].kind = "idle" \/ ~op[x].alone
  BY <1>3, OthersAreNotAlone DEF Inv
<1>5. Alone'
  <2>1. Active' \subseteq Active
    BY <1>1 DEF Active
  <2>2. \A x \in Active' : op'[x].alone => x = o
    BY <1>1, <1>4 DEF Active
  <2>3. op'[o].alone /\ o \in Active' => Active = {o}
    BY <1>1, <1>3 DEF Inv, Alone, Active
  <2> QED BY <2>1, <2>2, <2>3 DEF Alone
<1>6. Shape'
  <2>1. project # "new"
    BY <1>3 DEF Inv, Shape
  <2>2. \A x \in Op : HandOK(op[x], Len(box'))
    <3>1. Len(box) \in Nat /\ Len(box') \in Nat
      BY BoxTypes DEF Inv
    <3> QED BY <3>1 DEF Inv, Shape, HandOK
  <2>3. \A x \in Op : HandOK(op'[x], Len(box'))
    BY <1>1, <2>2
  <2>4. \A x \in Op : op'[x].kind = "delete" => project = "deleted"
    BY <1>1 DEF Inv, Shape
  <2> QED BY <2>1, <2>3, <2>4 DEF Shape
<1>7. Freed'
  BY <1>1, <1>4 DEF Freed, FreedFor
<1>8. Rolled'
  BY <1>1, <1>4 DEF Rolled, RolledFor
<1> QED BY <1>2, <1>5, <1>6, <1>7, <1>8 DEF Inv

\* An operation begins.
LEMMA OpBegins ==
    ASSUME Inv, NEW o \in Op, project = "present", NEW state \in OpState, Begin(o, state),
           state.kind # "idle", state.at = "read", state.left = {}, HandOK(state, 0),
           UNCHANGED <<box, orphans, faults>>,
           project' \in {"present", "deleted"},
           state.kind = "delete" => project' = "deleted",
           production' \in Deployment \cup {0},
           process' \in [replicas : 0..MaxReplicas, enabled : BOOLEAN]
    PROVE  Inv'
<1> DEFINE begun == [state EXCEPT !.alone = Active = {}]
           other(x) == [op[x] EXCEPT !.alone = @ /\ x \notin Active]
<1>1. /\ op[o].kind = "idle" /\ asks' \in 0..MaxAsks
      /\ op' = [x \in Op |-> IF x = o THEN begun ELSE other(x)]
  BY WorkersAssumption DEF Begin, Inv, TypeOK
<1>2. /\ begun \in OpState /\ HandOK(begun, 0)
      /\ begun.kind = state.kind /\ begun.at = "read" /\ begun.left = {}
      /\ begun.alone = (Active = {})
  BY DEF OpState, HandOK
<1>3. ASSUME NEW x \in Op
      PROVE  /\ other(x) \in OpState /\ other(x).kind = op[x].kind
             /\ (x \in Active => ~other(x).alone)
             /\ HandOK(other(x), Len(box))
  <2>1. op[x] \in OpState /\ HandOK(op[x], Len(box))
    BY DEF Inv, TypeOK, Shape
  <2> QED BY <2>1 DEF OpState, HandOK
<1> HIDE DEF begun, other
<1>4. op' \in [Op -> OpState] /\ \A x \in Op : op'[x] = IF x = o THEN begun ELSE other(x)
  BY <1>1, <1>2, <1>3
<1>5. TypeOK'
  BY <1>1, <1>4 DEF Inv, TypeOK
<1>6. Active' = Active \cup {o} /\ o \notin Active
  BY <1>1, <1>2, <1>3, <1>4 DEF Active
<1>7. ASSUME NEW x \in Op, x # o
      PROVE  op'[x].kind = "idle" \/ ~op'[x].alone
  BY <1>3, <1>4, <1>7 DEF Active
<1>8. Alone'
  BY <1>2, <1>4, <1>6, <1>7 DEF Alone, Active
<1>9. Shape'
  <2>1. HandOK(begun, Len(box))
    BY <1>2, BoxTypes DEF HandOK, Inv
  <2> QED BY <1>2, <1>3, <1>4, <2>1 DEF Inv, Shape
<1>10. Freed'
  BY <1>2, <1>4, <1>7 DEF Freed, FreedFor
<1>11. Rolled'
  BY <1>2, <1>4, <1>7 DEF Rolled, RolledFor
<1>12. OneNamed'
  BY DEF Inv, OneNamed, Box
<1> QED BY <1>5, <1>8, <1>9, <1>10, <1>11, <1>12 DEF Inv

\* What no operation does.
LEMMA OutsideMoves ==
    ASSUME Inv, UNCHANGED <<op, production>>, Retires,
           project' = project \/ (project = "new" /\ project' = "present"),
           process' \in [replicas : 0..MaxReplicas, enabled : BOOLEAN],
           orphans' \in (SUBSET ContainerName) \cup {None},
           asks' \in 0..MaxAsks, faults' \in 0..MaxFaults,
           project = "present" =>
              \A b \in Box : box[b].state = "running" => box'[b] = box[b]
    PROVE  Inv'
<1>1. /\ Len(box') <= MaxBoxes /\ OneNamed'
      /\ \A r : Named(r)' \subseteq Named(r)
      /\ \A r : \A b \in Named(r)' : box'[b] = box[b]
      /\ \A r : \A b \in Named(r) : box'[b] = box[b] => b \in Named(r)'
      /\ Len(box') = Len(box)
  BY RetiresNamed DEF Inv, Retires
<1>2. TypeOK'
  BY <1>1 DEF Inv, TypeOK, Retires
<1>3. Shape'
  <2>1. project = "new" => box' = <<>>
    BY <1>1, EmptySeq DEF Inv, Shape, Retires
  <2> QED BY <1>1, <2>1 DEF Inv, Shape, Active
<1>4. Alone' /\ Active' = Active
  BY DEF Inv, Alone, Active
<1>5. Freed'
  BY <1>1 DEF Inv, Freed, FreedFor
<1>6. Rolled'
  <2>1. CASE project = "present"
    <3>0. \A r : \A b \in Named(r) : b \in Box /\ box[b].state = "running"
      BY DEF Named
    <3>1. \A r : Named(r)' = Named(r)
      <4>1. \A r : \A b \in Named(r) : b \in Named(r)'
        BY <1>1, <2>1, <3>0
      <4>2. ASSUME NEW r PROVE Named(r)' = Named(r)
        <5>1. Named(r)' \subseteq Named(r) /\ Named(r) \subseteq Named(r)'
          BY <1>1, <4>1
        <5> QED BY <5>1
      <4> QED BY <4>2
    <3>2. UNCHANGED project
      BY <2>1
    <3> QED BY <1>1, <3>1, <3>2 DEF Inv, Rolled, RolledFor
  <2>2. CASE project = "new"
    <3>1. \A o \in Op : op[o].kind = "idle"
      BY <2>2 DEF Inv, Shape, Active
    <3> QED BY <3>1 DEF Rolled, RolledFor
  <2>3. CASE project \notin {"present", "new"}
    BY <2>3 DEF Rolled, RolledFor
  <2> QED BY <2>1, <2>2, <2>3
<1> QED BY <1>1, <1>2, <1>3, <1>4, <1>5, <1>6 DEF Inv

-----------------------------------------------------------------------------
(* The steps *)

LEMMA BeginningSteps ==
    ASSUME Inv, NEW o \in Op,
           Toggle(o) \/ Delete(o) \/ \E d \in Deployment : Promote(o, d)
    PROVE  Inv'
<1>0. TypeOK /\ Idle \in OpState /\ HandOK(Idle, 0)
  BY IdleOK DEF Inv
<1>s. ASSUME NEW kind \in {"roll", "apply", "delete"}, NEW image \in Deployment \cup {0},
             kind # "delete" => image \in Deployment
      PROVE  LET state == [Idle EXCEPT !.kind = kind, !.image = image]
             IN  /\ state \in OpState /\ HandOK(state, 0)
                 /\ state.kind = kind /\ state.at = "read" /\ state.left = {}
  BY <1>0, <1>s DEF Idle, OpState, HandOK
<1>1. ASSUME NEW d \in Deployment, Promote(o, d)
      PROVE  Inv'
  <2> DEFINE state == [Idle EXCEPT !.kind = "roll", !.image = d]
  <2>1. /\ state \in OpState /\ HandOK(state, 0)
        /\ state.kind = "roll" /\ state.at = "read" /\ state.left = {}
    BY <1>s
  <2>2. Begin(o, state)
    BY <1>1 DEF Promote
  <2> HIDE DEF state
  <2>3. /\ project' \in {"present", "deleted"} /\ production' \in Deployment \cup {0}
        /\ process' \in [replicas : 0..MaxReplicas, enabled : BOOLEAN]
    BY <1>0, <1>1 DEF Promote, TypeOK
  <2> QED BY <1>1, <2>1, <2>2, <2>3, OpBegins DEF Promote
<1>2. CASE Toggle(o)
  <2>1. process' \in [replicas : 0..MaxReplicas, enabled : BOOLEAN]
    BY <1>0, <1>2 DEF Toggle, TypeOK
  <2>2. CASE production = 0
    <3>1. asks' \in 0..MaxAsks
      BY <1>0, <1>2, <2>2, WorkersAssumption DEF Toggle, TypeOK
    <3> QED BY <1>0, <1>2, <2>1, <2>2, <3>1, SameRetires, OutsideMoves DEF Toggle, TypeOK
  <2>3. CASE production # 0
    <3> DEFINE state == [Idle EXCEPT !.kind = "apply", !.image = production]
    <3>1. production \in Deployment
      BY <1>0, <2>3 DEF TypeOK
    <3>2. /\ state \in OpState /\ HandOK(state, 0)
          /\ state.kind = "apply" /\ state.at = "read" /\ state.left = {}
      BY <1>s, <3>1
    <3>3. Begin(o, state)
      BY <1>2, <2>3 DEF Toggle
    <3> HIDE DEF state
    <3>4. project' \in {"present", "deleted"} /\ production' \in Deployment \cup {0}
      BY <1>0, <1>2 DEF Toggle, TypeOK
    <3> QED BY <1>2, <2>1, <3>2, <3>3, <3>4, OpBegins DEF Toggle
  <2> QED BY <2>2, <2>3
<1>3. CASE Delete(o)
  <2> DEFINE state == [Idle EXCEPT !.kind = "delete"]
  <2>1. /\ state \in OpState /\ HandOK(state, 0)
        /\ state.kind = "delete" /\ state.at = "read" /\ state.left = {}
    BY <1>0 DEF Idle, OpState, HandOK
  <2>2. Begin(o, state)
    BY <1>3 DEF Delete
  <2> HIDE DEF state
  <2>3. /\ project' = "deleted" /\ production' \in Deployment \cup {0}
        /\ process' \in [replicas : 0..MaxReplicas, enabled : BOOLEAN]
    BY <1>0, <1>3 DEF Delete, TypeOK
  <2> QED BY <1>3, <2>1, <2>2, <2>3, OpBegins DEF Delete
<1> QED BY <1>1, <1>2, <1>3

\* What every operation's step may count on.
LEMMA OpFacts ==
    ASSUME Inv, NEW o \in Op
    PROVE  /\ op[o] \in OpState /\ HandOK(op[o], Len(box)) /\ FreedFor(op[o]) /\ RolledFor(op[o])
           /\ Len(box) \in 0..MaxBoxes /\ Box = 1..Len(box) /\ box \in Seq(BoxState)
           /\ process \in [replicas : 0..MaxReplicas, enabled : BOOLEAN]
           /\ faults \in 0..MaxFaults /\ OneNamed /\ TypeOK
BY BoxTypes DEF Inv, TypeOK, Shape, Freed, Rolled

\* A step of an operation that touches no container.
LEMMA OpMovesOnly ==
    ASSUME Inv, NEW o \in Op, op[o].kind # "idle", NEW state \in OpState, Set(o, state),
           state.kind = "idle" \/ (state.kind = op[o].kind /\ state.alone = op[o].alone),
           UNCHANGED <<project, production, process, orphans, asks, box>>,
           faults' \in 0..MaxFaults,
           HandOK(state, Len(box)), FreedFor(state), RolledFor(state)
    PROVE  Inv'
<1>1. /\ box' \in Seq(BoxState) /\ Len(box') <= MaxBoxes /\ Len(box') >= Len(box)
      /\ Len(box') = Len(box)
  BY OpFacts
<1>2. OneNamed' /\ \A r : Named(r)' = Named(r)
  BY DEF Inv, OneNamed, Named, Box
<1> QED BY <1>1, <1>2, OpMoves DEF FreedFor, RolledFor

LEMMA ReadingSteps ==
    ASSUME Inv, NEW o \in Op,
           RollReads(o) \/ PauseReads(o) \/ ResumeReads(o) \/ DeleteLists(o)
    PROVE  Inv'
<1>f. /\ op[o] \in OpState /\ HandOK(op[o], Len(box))
      /\ Len(box) \in 0..MaxBoxes /\ Box = 1..Len(box)
      /\ process \in [replicas : 0..MaxReplicas, enabled : BOOLEAN]
      /\ faults \in 0..MaxFaults
  BY OpFacts
<1>w. Wanted \subseteq Replica /\ 0..process.replicas - 1 \subseteq Replica
  BY <1>f, WorkersAssumption DEF Wanted, Replica
<1>1. CASE RollReads(o)
  <2> DEFINE existing == {r \in Replica : Named(r) # {}}
             state == [op[o] EXCEPT !.at = "work", !.existing = existing, !.wanted = Wanted,
                                    !.extra = existing \ Wanted, !.left = Wanted]
  <2>1. /\ op[o].kind = "roll" /\ op[o].at = "read" /\ Set(o, state)
        /\ UNCHANGED <<project, production, process, box, orphans, asks, faults>>
    BY <1>1 DEF RollReads
  <2>2. existing \in SUBSET Replica
    OBVIOUS
  <2>3. existing \ Wanted \in SUBSET Replica /\ Wanted \in SUBSET Replica
    BY <1>w
  <2> HIDE DEF existing
  <2>4. /\ state \in OpState /\ state.kind = "roll" /\ state.alone = op[o].alone
        /\ state.at = "work" /\ state.half = op[o].half /\ state.image = op[o].image
        /\ state.left = Wanted /\ state.wanted = Wanted
        /\ state.extra = existing \ Wanted /\ state.existing = existing
    BY <1>f, <2>1, <2>2, <2>3 DEF OpState
  <2> HIDE DEF state
  <2>5. HandOK(state, Len(box))
    BY <1>f, <2>1, <2>4 DEF HandOK
  <2>6. FreedFor(state) /\ RolledFor(state)
    BY <1>w, <2>4 DEF FreedFor, RolledFor, existing
  <2> QED BY <1>f, <2>1, <2>4, <2>5, <2>6, OpMovesOnly
<1>2. CASE PauseReads(o)
  <2> DEFINE state == [op[o] EXCEPT !.at = "work", !.extra = 0..process.replicas - 1]
  <2>1. /\ op[o].kind = "apply" /\ op[o].at = "read" /\ Set(o, state)
        /\ UNCHANGED <<project, production, process, box, orphans, asks, faults>>
    BY <1>2 DEF PauseReads
  <2>2. /\ state \in OpState /\ state.kind = "apply" /\ state.alone = op[o].alone
        /\ state.at = "work" /\ state.half = op[o].half /\ state.image = op[o].image
        /\ state.left = op[o].left
    BY <1>f, <1>w, <2>1 DEF OpState
  <2> HIDE DEF state
  <2>3. HandOK(state, Len(box)) /\ FreedFor(state) /\ RolledFor(state)
    BY <1>f, <2>1, <2>2 DEF HandOK, FreedFor, RolledFor
  <2> QED BY <1>f, <2>1, <2>2, <2>3, OpMovesOnly
<1>3. CASE ResumeReads(o)
  <2> DEFINE left == {r \in 0..process.replicas - 1 : Named(r) = {}}
             state == [op[o] EXCEPT !.at = "work", !.left = left]
  <2>1. /\ op[o].kind = "apply" /\ op[o].at = "read" /\ Set(o, state)
        /\ UNCHANGED <<project, production, process, box, orphans, asks, faults>>
    BY <1>3 DEF ResumeReads
  <2>2. left \in SUBSET Replica /\ \A r \in left : Named(r) = {}
    BY <1>w
  <2> HIDE DEF left
  <2>3. /\ state \in OpState /\ state.kind = "apply" /\ state.alone = op[o].alone
        /\ state.at = "work" /\ state.half = op[o].half /\ state.image = op[o].image
        /\ state.left = left
    BY <1>f, <2>1, <2>2 DEF OpState
  <2> HIDE DEF state
  <2>4. HandOK(state, Len(box)) /\ FreedFor(state) /\ RolledFor(state)
    BY <1>f, <2>1, <2>2, <2>3 DEF HandOK, FreedFor, RolledFor
  <2> QED BY <1>f, <2>1, <2>3, <2>4, OpMovesOnly
<1>4. CASE DeleteLists(o)
  <2> DEFINE found == NamesOf(Left)
             state == [op[o] EXCEPT !.at = "remove", !.found = found]
  <2>1. /\ op[o].kind = "delete" /\ op[o].at = "read" /\ Set(o, state)
        /\ UNCHANGED <<project, production, process, box, orphans, asks, faults>>
    BY <1>4 DEF DeleteLists
  <2>2. found \in SUBSET ContainerName
    <3>1. \A b \in Box : NameOf(b) \in ContainerName
      BY <1>f, BoxTypes, WorkersAssumption DEF Inv, NameOf, ContainerName, BoxState
    <3> QED BY <3>1 DEF NamesOf, Left
  <2> HIDE DEF found
  <2>3. /\ state \in OpState /\ state.kind = "delete" /\ state.alone = op[o].alone
        /\ state.at = "remove" /\ state.half = op[o].half /\ state.left = op[o].left
    BY <1>f, <2>1, <2>2 DEF OpState
  <2> HIDE DEF state
  <2>4. HandOK(state, Len(box)) /\ FreedFor(state) /\ RolledFor(state)
    BY <1>f, <2>1, <2>3 DEF HandOK, FreedFor, RolledFor
  <2> QED BY <1>f, <2>1, <2>3, <2>4, OpMovesOnly
<1> QED BY <1>1, <1>2, <1>3, <1>4

\* A drain frees the name: its one container is renamed.
LEMMA DrainDoes ==
    ASSUME Inv, NEW o \in Op, NEW r \in Replica, NEW rest, Drain(o, r, rest),
           rest \in OpState
    PROVE  \E half \in 0..Len(box) \cup {rest.half} :
              /\ Set(o, [rest EXCEPT !.half = half])
              /\ Retires /\ Len(box') = Len(box)
              /\ Named(r)' = {}
              /\ \A x : x # r => Named(x)' = Named(x) /\ \A b \in Named(x) : box'[b] = box[b]
<1>f. Box = 1..Len(box) /\ TypeOK /\ OneNamed
  BY OpFacts
<1>1. CASE Named(r) = {}
  <2>1. Set(o, rest) /\ UNCHANGED box
    BY <1>1 DEF Drain
  <2>2. rest = [rest EXCEPT !.half = rest.half]
    BY DEF OpState
  <2>3. Set(o, [rest EXCEPT !.half = rest.half])
    BY <2>1, <2>2 DEF Set
  <2>4. Retires /\ \A x : Named(x)' = Named(x)
    BY <1>f, <2>1, SameRetires DEF Named, Box
  <2> QED BY <1>1, <2>1, <2>3, <2>4
<1>2. CASE Named(r) # {}
  <2>1. PICK b \in Named(r) : box' = Renamed(b) /\ Set(o, [rest EXCEPT !.half = b])
    BY <1>2 DEF Drain
  <2>2. b \in Box /\ box[b].state = "running" /\ box[b].replica = r
    BY DEF Named
  <2>3. /\ Retires /\ box'[b].state = "draining"
        /\ \A c \in Box \ {b} : box'[c] = box[c]
    BY <1>f, <2>1, <2>2, RenamedRetires DEF Renamed
  <2>4. Box' = Box /\ Len(box') = Len(box)
    BY <1>f, <2>3, LenProperties DEF Retires, Box
  <2>5. Named(r)' = {}
    BY <1>f, <2>2, <2>3, <2>4 DEF Named, OneNamed
  <2>6. ASSUME NEW x, x # r
        PROVE  Named(x)' = Named(x) /\ \A c \in Named(x) : box'[c] = box[c]
    BY <2>2, <2>3, <2>4, <2>6 DEF Named
  <2> QED BY <1>f, <2>1, <2>2, <2>3, <2>4, <2>5, <2>6
<1> QED BY <1>1, <1>2

LEMMA DrainingSteps ==
    ASSUME Inv, NEW o \in Op, NEW r \in Replica, DrainsExtra(o, r) \/ DrainsReplaced(o, r)
    PROVE  Inv'
<1>f. /\ op[o] \in OpState /\ HandOK(op[o], Len(box)) /\ FreedFor(op[o]) /\ RolledFor(op[o])
      /\ Len(box) \in 0..MaxBoxes /\ TypeOK /\ faults \in 0..MaxFaults
      /\ MaxBoxes \in Nat
  BY OpFacts, WorkersAssumption
<1>1. PICK extra \in SUBSET op[o].extra, existing \in SUBSET op[o].existing :
         /\ op[o].at = "work" /\ op[o].half = 0
         /\ UNCHANGED <<project, production, process, orphans, asks, faults>>
         /\ Drain(o, r, [op[o] EXCEPT !.extra = extra, !.existing = existing])
         /\ \/ extra = op[o].extra \ {r} /\ existing = op[o].existing /\ r \in op[o].extra
            \/ extra = op[o].extra /\ existing = op[o].existing \ {r} /\ r \in op[o].left
  <2>1. CASE DrainsExtra(o, r)
    <3>1. [op[o] EXCEPT !.extra = @ \ {r}]
             = [op[o] EXCEPT !.extra = op[o].extra \ {r}, !.existing = op[o].existing]
      BY <1>f DEF OpState
    <3>2. Drain(o, r, [op[o] EXCEPT !.extra = op[o].extra \ {r}, !.existing = op[o].existing])
      BY <2>1, <3>1 DEF DrainsExtra
    <3> QED BY <2>1, <3>2 DEF DrainsExtra
  <2>2. CASE DrainsReplaced(o, r)
    <3>1. [op[o] EXCEPT !.existing = @ \ {r}]
             = [op[o] EXCEPT !.extra = op[o].extra, !.existing = op[o].existing \ {r}]
      BY <1>f DEF OpState
    <3>2. Drain(o, r, [op[o] EXCEPT !.extra = op[o].extra, !.existing = op[o].existing \ {r}])
      BY <2>2, <3>1 DEF DrainsReplaced
    <3> QED BY <2>2, <3>2 DEF DrainsReplaced
  <2> QED BY <2>1, <2>2
<1> DEFINE rest == [op[o] EXCEPT !.extra = extra, !.existing = existing]
<1>2. /\ rest \in OpState /\ rest.half = 0 /\ rest.kind = op[o].kind /\ rest.at = "work"
      /\ rest.alone = op[o].alone /\ rest.left = op[o].left /\ rest.wanted = op[o].wanted
      /\ rest.image = op[o].image /\ rest.extra = extra /\ rest.existing = existing
  BY <1>f, <1>1 DEF OpState
<1> HIDE DEF rest
<1>3. PICK half \in 0..Len(box) \cup {rest.half} :
         /\ Set(o, [rest EXCEPT !.half = half])
         /\ Retires /\ Len(box') = Len(box)
         /\ Named(r)' = {}
         /\ \A x : x # r => Named(x)' = Named(x) /\ \A b \in Named(x) : box'[b] = box[b]
  BY <1>1, <1>2, DrainDoes DEF rest
<1> DEFINE state == [rest EXCEPT !.half = half]
<1>4. /\ state \in OpState /\ state.kind = op[o].kind /\ state.at = "work"
      /\ state.half \in 0..Len(box)
      /\ state.alone = op[o].alone /\ state.left = op[o].left /\ state.wanted = op[o].wanted
      /\ state.image = op[o].image /\ state.extra = extra /\ state.existing = existing
  BY <1>f, <1>2 DEF OpState
<1>5. Set(o, state)
  BY <1>3
<1> HIDE DEF state
<1>6. op[o].kind # "idle" /\ HandOK(state, Len(box))
  BY <1>f, <1>1, <1>4 DEF HandOK
<1>7. state.alone => \A x \in state.left \ state.existing : Named(x)' = {}
  BY <1>1, <1>3, <1>4, <1>6, <1>f DEF FreedFor
<1>8. state.kind = "roll" /\ state.alone /\ state.at = "work" /\ project = "present" =>
         /\ state.left \subseteq state.wanted /\ state.extra \cap state.wanted = {}
         /\ \A x \in Replica \ (state.wanted \cup state.extra) : Named(x)' = {}
         /\ \A x \in state.wanted \ state.left :
               Named(x)' # {} /\ \A b \in Named(x)' : box'[b].image = state.image
  <2> SUFFICES ASSUME state.kind = "roll", state.alone, project = "present"
               PROVE  /\ state.left \subseteq state.wanted /\ state.extra \cap state.wanted = {}
                      /\ \A x \in Replica \ (state.wanted \cup state.extra) : Named(x)' = {}
                      /\ \A x \in state.wanted \ state.left :
                            Named(x)' # {} /\ \A b \in Named(x)' : box'[b].image = state.image
    OBVIOUS
  <2>1. /\ op[o].left \subseteq op[o].wanted /\ op[o].extra \cap op[o].wanted = {}
        /\ \A x \in Replica \ (op[o].wanted \cup op[o].extra) : Named(x) = {}
        /\ \A x \in op[o].wanted \ op[o].left :
              Named(x) # {} /\ \A b \in Named(x) : box[b].image = op[o].image
    BY <1>1, <1>4, <1>f DEF RolledFor
  <2>2. state.left \subseteq state.wanted /\ state.extra \cap state.wanted = {}
    BY <1>4, <2>1
  <2>3. \A x \in Replica \ (state.wanted \cup state.extra) : Named(x)' = {}
    BY <1>1, <1>3, <1>4, <2>1
  <2>4. ASSUME NEW x \in state.wanted \ state.left
        PROVE  Named(x)' # {} /\ \A b \in Named(x)' : box'[b].image = state.image
    <3>1. x # r
      BY <1>1, <1>4, <2>1, <2>4
    <3> QED BY <1>3, <1>4, <2>1, <2>4, <3>1
  <2> QED BY <2>2, <2>3, <2>4
<1>9. Len(box') <= MaxBoxes /\ Len(box') >= Len(box) /\ OneNamed' /\ box' \in Seq(BoxState)
  BY <1>3, <1>f, RetiresNamed DEF Inv, Retires
<1>10. HandOK(state, Len(box'))
  BY <1>3, <1>6
<1> QED BY <1>1, <1>4, <1>5, <1>6, <1>7, <1>8, <1>9, <1>10, <1>f, OpMoves

\* run_worker takes the name over: what it starts is the only one that has it.
LEMMA StartDoes ==
    ASSUME Inv, NEW o \in Op, NEW r \in Replica, op[o].image \in Deployment, Len(box) < MaxBoxes,
           box' = Append(Removed(Named(r)), Started(r, op[o].image))
    PROVE  /\ box' \in Seq(BoxState) /\ Len(box') = Len(box) + 1
           /\ Named(r)' = {Len(box) + 1} /\ box'[Len(box) + 1].image = op[o].image
           /\ \A x : x # r => Named(x)' = Named(x) /\ \A b \in Named(x) : box'[b] = box[b]
           /\ \A b \in Box : box'[b] = IF b \in Named(r) THEN Gone ELSE box[b]
           /\ OneNamed'
<1> DEFINE rest == Removed(Named(r))
           new == Started(r, op[o].image)
           n == Len(box) + 1
<1>f. Box = 1..Len(box) /\ TypeOK /\ OneNamed /\ Len(box) \in Nat
  BY OpFacts, WorkersAssumption
<1>1. /\ rest \in Seq(BoxState) /\ Len(rest) = Len(box)
      /\ \A b \in Box : rest[b] = IF b \in Named(r) THEN Gone ELSE box[b]
  BY <1>f, RemovedTypes
<1>2. new \in BoxState /\ new.replica = r /\ new.state = "running" /\ new.image = op[o].image
  BY DEF Started, BoxState
<1>3. box' = Append(rest, new)
  OBVIOUS
<1> HIDE DEF rest, new
<1>4. /\ box' \in Seq(BoxState) /\ Len(box') = n /\ box'[n] = new
      /\ \A b \in 1..Len(box) : box'[b] = rest[b]
  BY <1>1, <1>2, <1>3, AppendProperties
<1>5. Box' = 1..n /\ n \notin Box /\ Box' = Box \cup {n}
  BY <1>4, <1>f, LenProperties DEF Box
<1>6. \A b \in Box : box'[b] = IF b \in Named(r) THEN Gone ELSE box[b]
  BY <1>1, <1>4, <1>f
<1>7. Gone.state = "gone"
  BY DEF Gone
<1> HIDE DEF n
<1>8. \A b \in Box : box[b].state = "running" /\ box[b].replica = r => b \in Named(r)
  BY DEF Named
<1>9. Named(r)' = {n}
  <2>1. n \in Named(r)'
    BY <1>2, <1>4, <1>5 DEF Named
  <2>2. ASSUME NEW b \in Named(r)', b # n PROVE FALSE
    <3>1. b \in Box /\ box'[b].state = "running" /\ box'[b].replica = r
      BY <1>5, <2>2 DEF Named
    <3>2. CASE b \in Named(r)
      BY <1>6, <1>7, <3>1, <3>2
    <3>3. CASE b \notin Named(r)
      BY <1>6, <1>8, <3>1, <3>3
    <3> QED BY <3>2, <3>3
  <2> QED BY <2>1, <2>2
<1>10. ASSUME NEW x, x # r
       PROVE  Named(x)' = Named(x) /\ \A b \in Named(x) : box'[b] = box[b]
  <2>1. \A b \in Named(x) : b \in Box /\ b \notin Named(r) /\ box'[b] = box[b]
    BY <1>6, <1>10 DEF Named
  <2>2. \A b \in Box' : box'[b].state = "running" /\ box'[b].replica = x => b \in Named(x)
    BY <1>2, <1>4, <1>5, <1>6, <1>7, <1>10 DEF Named
  <2>3. \A b \in Named(x) : b \in Named(x)'
    BY <1>5, <2>1 DEF Named
  <2>4. Named(x)' \subseteq Named(x)
    BY <2>2 DEF Named
  <2> QED BY <2>1, <2>3, <2>4
<1>11. OneNamed'
  <2> SUFFICES ASSUME NEW b \in Box', NEW c \in Box',
                      box'[b].state = "running", box'[c].state = "running",
                      box'[b].replica = box'[c].replica
               PROVE  b = c
    BY DEF OneNamed
  <2>1. CASE box'[b].replica = r
    <3>1. b \in Named(r)' /\ c \in Named(r)'
      BY <2>1 DEF Named
    <3> QED BY <1>9, <3>1
  <2>2. CASE box'[b].replica # r
    <3>1. b \in Box /\ c \in Box /\ box'[b] = box[b] /\ box'[c] = box[c]
      BY <1>2, <1>4, <1>5, <1>6, <1>7, <2>2
    <3> QED BY <1>f, <3>1 DEF OneNamed
  <2> QED BY <2>1, <2>2
<1> QED BY <1>2, <1>4, <1>6, <1>9, <1>10, <1>11 DEF n

LEMMA StartingSteps ==
    ASSUME Inv, NEW o \in Op, NEW r \in Replica, Starts(o, r)
    PROVE  Inv'
<1>f. /\ op[o] \in OpState /\ HandOK(op[o], Len(box)) /\ FreedFor(op[o]) /\ RolledFor(op[o])
      /\ Len(box) \in Nat /\ faults \in 0..MaxFaults /\ MaxBoxes \in Nat
  BY OpFacts, WorkersAssumption
<1> DEFINE state == [op[o] EXCEPT !.left = @ \ {r}]
<1>1. /\ op[o].at = "work" /\ op[o].half = 0 /\ op[o].extra = {}
      /\ r \in op[o].left /\ r \notin op[o].existing /\ Len(box) < MaxBoxes
      /\ box' = Append(Removed(Named(r)), Started(r, op[o].image))
      /\ Set(o, state)
      /\ UNCHANGED <<project, production, process, orphans, asks, faults>>
  BY DEF Starts
<1>2. /\ state \in OpState /\ state.kind = op[o].kind /\ state.at = "work" /\ state.half = 0
      /\ state.alone = op[o].alone /\ state.left = op[o].left \ {r}
      /\ state.wanted = op[o].wanted /\ state.image = op[o].image
      /\ state.extra = {} /\ state.existing = op[o].existing
  BY <1>f, <1>1 DEF OpState
<1> HIDE DEF state
<1>3. op[o].kind \in {"roll", "apply"} /\ op[o].image \in Deployment
  BY <1>f, <1>1 DEF HandOK, OpState
<1>4. /\ box' \in Seq(BoxState) /\ Len(box') = Len(box) + 1
      /\ Named(r)' = {Len(box) + 1} /\ box'[Len(box) + 1].image = op[o].image
      /\ \A x : x # r => Named(x)' = Named(x) /\ \A b \in Named(x) : box'[b] = box[b]
      /\ OneNamed'
  BY <1>1, <1>3, StartDoes
<1>5. HandOK(state, Len(box'))
  BY <1>f, <1>1, <1>2, <1>3, <1>4 DEF HandOK
<1>6. state.alone => \A x \in state.left \ state.existing : Named(x)' = {}
  BY <1>f, <1>2, <1>3, <1>4 DEF FreedFor
<1>7. state.kind = "roll" /\ state.alone /\ state.at = "work" /\ project = "present" =>
         /\ state.left \subseteq state.wanted /\ state.extra \cap state.wanted = {}
         /\ \A x \in Replica \ (state.wanted \cup state.extra) : Named(x)' = {}
         /\ \A x \in state.wanted \ state.left :
               Named(x)' # {} /\ \A b \in Named(x)' : box'[b].image = state.image
  <2> SUFFICES ASSUME state.kind = "roll", state.alone, project = "present"
               PROVE  /\ state.left \subseteq state.wanted /\ state.extra \cap state.wanted = {}
                      /\ \A x \in Replica \ (state.wanted \cup state.extra) : Named(x)' = {}
                      /\ \A x \in state.wanted \ state.left :
                            Named(x)' # {} /\ \A b \in Named(x)' : box'[b].image = state.image
    OBVIOUS
  <2>1. /\ op[o].left \subseteq op[o].wanted
        /\ \A x \in Replica \ (op[o].wanted \cup op[o].extra) : Named(x) = {}
        /\ \A x \in op[o].wanted \ op[o].left :
              Named(x) # {} /\ \A b \in Named(x) : box[b].image = op[o].image
    BY <1>1, <1>2, <1>f DEF RolledFor
  <2>2. \A x \in Replica \ (state.wanted \cup state.extra) : Named(x)' = {}
    BY <1>1, <1>2, <1>4, <2>1
  <2>3. ASSUME NEW x \in state.wanted \ state.left
        PROVE  Named(x)' # {} /\ \A b \in Named(x)' : box'[b].image = state.image
    <3>1. CASE x = r
      BY <1>2, <1>4, <3>1
    <3>2. CASE x # r
      BY <1>2, <1>4, <2>1, <2>3, <3>2
    <3> QED BY <3>1, <3>2
  <2> QED BY <1>2, <2>1, <2>2, <2>3
<1>8. Len(box') <= MaxBoxes /\ Len(box') >= Len(box)
  BY <1>1, <1>4, <1>f
<1> QED BY <1>1, <1>2, <1>3, <1>4, <1>5, <1>6, <1>7, <1>8, <1>f, OpMoves

LEMMA SignallingSteps ==
    ASSUME Inv, NEW o \in Op, DrainSignals(o)
    PROVE  Inv' /\ Retires
<1>f. /\ op[o] \in OpState /\ HandOK(op[o], Len(box)) /\ FreedFor(op[o]) /\ RolledFor(op[o])
      /\ Len(box) \in Nat /\ Box = 1..Len(box) /\ faults \in 0..MaxFaults /\ TypeOK
      /\ box \in Seq(BoxState)
  BY OpFacts, WorkersAssumption
<1> DEFINE b == op[o].half
           state == [op[o] EXCEPT !.half = 0]
<1>1. /\ b # 0 /\ Set(o, state)
      /\ box' = IF box[b].state = "draining" THEN [box EXCEPT ![b].state = "asked"] ELSE box
      /\ UNCHANGED <<project, production, process, orphans, asks, faults>>
  BY DEF DrainSignals
<1>2. b \in Box /\ op[o].kind # "idle" /\ op[o].at # "read"
  BY <1>f, <1>1 DEF HandOK
<1>3. /\ state \in OpState /\ state.kind = op[o].kind /\ state.at = op[o].at /\ state.half = 0
      /\ state.alone = op[o].alone /\ state.left = op[o].left
      /\ state.wanted = op[o].wanted /\ state.image = op[o].image
      /\ state.extra = op[o].extra /\ state.existing = op[o].existing
  BY SMTT(20), <1>f, WorkersAssumption DEF OpState
<1> HIDE DEF state, b
<1>4. Retires /\ \A c \in Box : box[c].state = "running" => box'[c] = box[c]
  <2>1. CASE box[b].state = "draining"
    BY <1>f, <1>1, <1>2, <2>1, RenamedRetires
  <2>2. CASE box[b].state # "draining"
    BY <1>f, <1>1, <2>2, SameRetires
  <2> QED BY <2>1, <2>2
<1>5. /\ Len(box') <= MaxBoxes /\ OneNamed' /\ Len(box') = Len(box) /\ box' \in Seq(BoxState)
      /\ \A r : \A c \in Named(r)' : box'[c] = box[c]
  BY <1>4, <1>f, RetiresNamed DEF Inv, Retires
<1>6. \A r : Named(r)' = Named(r)
  <2>1. \A r : Named(r)' \subseteq Named(r)
    BY <1>4, <1>f, RetiresNamed
  <2>2. \A r : \A c \in Named(r) : box'[c] = box[c] => c \in Named(r)'
    BY <1>4, <1>f, RetiresNamed
  <2> QED BY <1>4, <2>1, <2>2 DEF Named
<1>7. HandOK(state, Len(box'))
  BY <1>f, <1>2, <1>3, <1>5 DEF HandOK
<1>8. state.kind # "idle" /\ state.alone =>
         \A r \in state.left \ state.existing : Named(r)' = {}
  BY <1>f, <1>3, <1>6 DEF FreedFor
<1>9. state.kind = "roll" /\ state.alone /\ state.at = "work" /\ project = "present" =>
         /\ state.left \subseteq state.wanted /\ state.extra \cap state.wanted = {}
         /\ \A x \in Replica \ (state.wanted \cup state.extra) : Named(x)' = {}
         /\ \A x \in state.wanted \ state.left :
               Named(x)' # {} /\ \A c \in Named(x)' : box'[c].image = state.image
  BY <1>f, <1>3, <1>5, <1>6 DEF RolledFor
<1>10. Inv'
  BY <1>1, <1>2, <1>3, <1>5, <1>7, <1>8, <1>9, <1>f, OpMoves
<1> QED BY <1>4, <1>10

\* An operation ends, or dies halfway.
LEMMA EndingSteps ==
    ASSUME Inv, NEW o \in Op, Ends(o) \/ Stops(o)
    PROVE  Inv'
<1>f. /\ op[o] \in OpState /\ HandOK(op[o], Len(box)) /\ Len(box) \in Nat
      /\ faults \in 0..MaxFaults /\ TypeOK
  BY OpFacts, WorkersAssumption
<1>1. /\ op[o].kind # "idle" /\ Set(o, Idle)
      /\ UNCHANGED <<project, production, process, box, orphans, asks>>
      /\ faults' \in 0..MaxFaults
  BY <1>f, WorkersAssumption DEF Ends, Stops, HandOK
<1>2. Idle \in OpState /\ Idle.kind = "idle" /\ HandOK(Idle, Len(box))
  BY <1>f, IdleOK
<1>3. FreedFor(Idle) /\ RolledFor(Idle)
  BY <1>2 DEF FreedFor, RolledFor
<1> QED BY <1>1, <1>2, <1>3, OpMovesOnly

LEMMA RemovingSteps ==
    ASSUME Inv, NEW o \in Op, DeleteRemoves(o)
    PROVE  Inv' /\ Retires /\ project = "deleted"
<1>f. /\ op[o] \in OpState /\ HandOK(op[o], Len(box)) /\ FreedFor(op[o])
      /\ Len(box) \in Nat /\ faults \in 0..MaxFaults /\ TypeOK
  BY OpFacts, WorkersAssumption
<1>1. /\ op[o].kind = "delete" /\ op[o].at = "remove"
      /\ UNCHANGED <<project, production, process, orphans, asks, faults>>
  BY DEF DeleteRemoves
<1>2. project = "deleted"
  BY <1>1 DEF Inv, Shape
<1>3. CASE op[o].found = {}
  <2>1. Set(o, Idle) /\ UNCHANGED box
    BY <1>3 DEF DeleteRemoves
  <2>2. Idle \in OpState /\ Idle.kind = "idle" /\ HandOK(Idle, Len(box))
    BY <1>f, IdleOK
  <2>3. FreedFor(Idle) /\ RolledFor(Idle)
    BY <2>2 DEF FreedFor, RolledFor
  <2>4. Inv'
    BY <1>1, <1>f, <2>1, <2>2, <2>3, OpMovesOnly
  <2> QED BY <1>2, <1>f, <2>1, <2>4, SameRetires
<1>4. CASE op[o].found # {}
  <2>1. PICK n : box' = Removed(Holding({n})) /\ Set(o, [op[o] EXCEPT !.found = @ \ {n}])
    BY <1>4 DEF DeleteRemoves
  <2> DEFINE state == [op[o] EXCEPT !.found = @ \ {n}]
  <2>2. /\ state \in OpState /\ state.kind = "delete" /\ state.at = "remove"
        /\ state.half = op[o].half /\ state.alone = op[o].alone
        /\ state.left = op[o].left /\ state.existing = op[o].existing
    BY <1>f, <1>1 DEF OpState
  <2>3. Set(o, state)
    BY <2>1
  <2> HIDE DEF state
  <2>4. Retires
    BY <1>f, <2>1, RemovedRetires
  <2>5. /\ Len(box') <= MaxBoxes /\ OneNamed' /\ Len(box') = Len(box) /\ box' \in Seq(BoxState)
        /\ \A r : Named(r)' \subseteq Named(r)
    BY <1>f, <2>4, RetiresNamed DEF Inv, Retires
  <2>6. HandOK(state, Len(box'))
    BY <1>f, <1>1, <2>2, <2>5 DEF HandOK
  <2>7. state.kind # "idle" /\ state.alone =>
           \A r \in state.left \ state.existing : Named(r)' = {}
    BY <1>f, <1>1, <2>2, <2>5 DEF FreedFor
  <2>8. Inv'
    BY <1>1, <1>f, <2>2, <2>3, <2>5, <2>6, <2>7, OpMoves
  <2> QED BY <1>2, <2>4, <2>8
<1> QED BY <1>3, <1>4

\* Names of one container or several are container names.
LEMMA NamesAreNames ==
    ASSUME TypeOK, NEW B \in SUBSET Box
    PROVE  NamesOf(B) \in SUBSET ContainerName
<1>1. \A b \in Box : NameOf(b) \in ContainerName
  BY BoxTypes, WorkersAssumption DEF NameOf, ContainerName, BoxState
<1> QED BY <1>1 DEF NamesOf

LEMMA OutsideSteps ==
    ASSUME Inv,
           \/ CreateProject \/ \E n \in 0..MaxReplicas : SetReplicas(n)
           \/ OrphansList \/ OrphansRemove \/ \E b \in Box : SweepDraining(b)
    PROVE  /\ Inv' /\ Retires
           /\ project = "deleted"
              \/ \A b \in Box : box[b].state = "running" => box'[b] = box[b]
<1>f. /\ TypeOK /\ process \in [replicas : 0..MaxReplicas, enabled : BOOLEAN]
      /\ orphans \in (SUBSET ContainerName) \cup {None} /\ asks \in 0..MaxAsks
      /\ faults \in 0..MaxFaults
  BY DEF Inv, TypeOK
<1>1. CASE CreateProject
  <2>1. Retires
    BY <1>f, <1>1, SameRetires DEF CreateProject
  <2> QED BY <1>f, <1>1, <2>1, OutsideMoves DEF CreateProject
<1>2. ASSUME NEW n \in 0..MaxReplicas, SetReplicas(n)
      PROVE  Inv' /\ Retires /\ UNCHANGED box
  <2>1. Retires
    BY <1>f, <1>2, SameRetires DEF SetReplicas
  <2>2. process' \in [replicas : 0..MaxReplicas, enabled : BOOLEAN] /\ asks' \in 0..MaxAsks
    BY <1>f, <1>2, WorkersAssumption DEF SetReplicas
  <2> QED BY <1>f, <1>2, <2>1, <2>2, OutsideMoves DEF SetReplicas
<1>3. CASE OrphansList
  <2>1. Retires
    BY <1>f, <1>3, SameRetires DEF OrphansList
  <2>2. orphans' \in SUBSET ContainerName
    BY <1>f, <1>3, NamesAreNames DEF OrphansList, Left
  <2> QED BY <1>f, <1>3, <2>1, <2>2, OutsideMoves DEF OrphansList
<1>4. CASE OrphansRemove
  <2>1. Retires /\ orphans' = None
    BY <1>f, <1>4, RemovedRetires DEF OrphansRemove
  <2>2. project = "deleted" \/ \A b \in Box : box[b].state = "running" => box'[b] = box[b]
    <3>1. CASE project = "present"
      <4>1. Holding(Orphaned) = {}
        BY <3>1 DEF Orphaned, Holding
      <4> QED BY <1>f, <1>4, <4>1, RemovedTypes DEF OrphansRemove
    <3>2. CASE project = "new"
      BY <3>2, EmptySeq DEF Inv, Shape, Box
    <3> QED BY <1>f, <3>1, <3>2 DEF TypeOK
  <2>3. UNCHANGED <<project, production, process, op, asks, faults>>
    BY <1>4 DEF OrphansRemove
  <2>4. project = "present" =>
           \A b \in Box : box[b].state = "running" => box'[b] = box[b]
    BY <2>2
  <2>5. Inv'
    BY <1>f, <2>1, <2>3, <2>4, OutsideMoves
  <2> QED BY <2>1, <2>2, <2>5
<1>5. ASSUME NEW b \in Box, SweepDraining(b)
      PROVE  Inv' /\ Retires /\ \A c \in Box : box[c].state = "running" => box'[c] = box[c]
  <2>1. Retires
    BY <1>f, <1>5, RemovedRetires DEF SweepDraining
  <2>2. \A c \in Box : box[c].state = "running" => box'[c] = box[c]
    BY <1>f, <1>5, RemovedTypes DEF SweepDraining, Swept
  <2> QED BY <1>f, <1>5, <2>1, <2>2, OutsideMoves DEF SweepDraining
<1> QED BY <1>1, <1>2, <1>3, <1>4, <1>5 DEF CreateProject, OrphansList

-----------------------------------------------------------------------------
(* The invariant holds *)

LEMMA InvInit ==
    ASSUME Init
    PROVE  Inv
<1>1. /\ project = "new" /\ production = 0 /\ box = <<>> /\ op = [o \in Op |-> Idle]
      /\ orphans = None /\ asks = 0 /\ faults = 0
      /\ process = [replicas |-> MaxReplicas, enabled |-> TRUE]
  BY DEF Init
<1>2. Idle \in OpState /\ HandOK(Idle, 0) /\ Idle.kind = "idle" /\ Len(box) = 0 /\ Box = {}
  BY <1>1, WorkersAssumption DEF Idle, OpState, HandOK, Box
<1>3. TypeOK
  <2>1. op \in [Op -> OpState]
    BY <1>1, <1>2
  <2>2. process \in [replicas : 0..MaxReplicas, enabled : BOOLEAN]
    BY <1>1, WorkersAssumption
  <2>3. box \in Seq(BoxState) /\ Len(box) <= MaxBoxes
    BY <1>1, <1>2, WorkersAssumption
  <2>4. asks \in 0..MaxAsks /\ faults \in 0..MaxFaults
    BY <1>1, WorkersAssumption
  <2> QED BY <1>1, <2>1, <2>2, <2>3, <2>4 DEF TypeOK
<1>4. \A o \in Op : op[o] = Idle
  BY <1>1
<1>5. Active = {}
  BY <1>2, <1>4 DEF Active
<1> QED BY <1>1, <1>2, <1>3, <1>4, <1>5
        DEF Inv, Shape, OneNamed, Alone, Freed, FreedFor, Rolled, RolledFor

LEMMA InvStep ==
    ASSUME Inv, [Next]_vars
    PROVE  Inv'
<1>1. CASE UNCHANGED vars
  <2>1. TypeOK /\ Retires
    BY <1>1, SameRetires DEF Inv, vars
  <2> QED BY <1>1, <2>1, OutsideMoves DEF Inv, TypeOK, vars
<1>2. ASSUME NEW o \in Op, OpStep(o)
      PROVE  Inv'
  BY <1>2, ReadingSteps, DrainingSteps, StartingSteps, SignallingSteps, EndingSteps, RemovingSteps
     DEF OpStep
<1> QED BY <1>1, <1>2, BeginningSteps, EndingSteps, OutsideSteps DEF Next

LEMMA InvHolds == Spec => []Inv
BY InvInit, InvStep, PTL DEF Spec

\* Every variable keeps its type, in every behaviour.
THEOREM WorkersTypes == Spec => []TypeOK
<1>1. Inv => TypeOK
  BY DEF Inv
<1> QED BY <1>1, InvHolds, PTL

-----------------------------------------------------------------------------
(* A worker is drained before it goes *)

\* A drain renames a container or does nothing.
LEMMA DrainsKeep ==
    ASSUME Inv, NEW o \in Op, NEW r \in Replica, DrainsExtra(o, r) \/ DrainsReplaced(o, r),
           NEW b \in Box, box[b].state = "running"
    PROVE  box'[b].state # "gone"
<1>1. UNCHANGED box \/ \E c \in Named(r) : box' = Renamed(c)
  BY DEF DrainsExtra, DrainsReplaced, Drain
<1>2. ASSUME NEW c \in Named(r), box' = Renamed(c)
      PROVE  box'[b].state # "gone"
  <2>1. box'[c].state = "draining" /\ \A x \in Box \ {c} : box'[x] = box[x]
    BY <1>2, RenamedRetires DEF Inv, Named, Renamed
  <2> QED BY <2>1
<1> QED BY <1>1, <1>2

LEMMA SignalsKeep ==
    ASSUME Inv, NEW o \in Op, DrainSignals(o), NEW b \in Box, box[b].state = "running"
    PROVE  box'[b].state # "gone"
<1> DEFINE h == op[o].half
<1>1. /\ h # 0
      /\ box' = IF box[h].state = "draining" THEN [box EXCEPT ![h].state = "asked"] ELSE box
  BY DEF DrainSignals
<1>2. HandOK(op[o], Len(box)) /\ Box = 1..Len(box) /\ Len(box) \in Nat
  BY OpFacts, WorkersAssumption
<1>3. h \in Box
  BY <1>1, <1>2 DEF HandOK
<1> HIDE DEF h
<1>4. CASE box[h].state = "draining"
  <2>1. \A x \in Box \ {h} : box'[x] = box[x]
    BY <1>1, <1>3, <1>4, RenamedRetires DEF Inv
  <2> QED BY <1>4, <2>1
<1>5. CASE box[h].state # "draining"
  BY <1>1, <1>5
<1> QED BY <1>4, <1>5

\* What a start finds under the name is a worker only when operations overlap.
LEMMA StartsKeep ==
    ASSUME Inv, NEW o \in Op, NEW r \in Replica, Starts(o, r),
           NEW b \in Box, box[b].state = "running", box'[b].state = "gone"
    PROVE  o \in Active /\ ~op[o].alone
<1>1. /\ op[o].at = "work" /\ r \in op[o].left \ op[o].existing /\ Len(box) < MaxBoxes
      /\ box' = Append(Removed(Named(r)), Started(r, op[o].image))
  BY DEF Starts
<1>2. op[o] \in OpState /\ HandOK(op[o], Len(box)) /\ FreedFor(op[o])
  BY OpFacts
<1>3. op[o].kind \in {"roll", "apply"} /\ op[o].image \in Deployment
  BY <1>1, <1>2 DEF HandOK, OpState
<1>4. b \in Named(r)
  BY <1>1, <1>3, StartDoes
<1> QED BY <1>1, <1>2, <1>3, <1>4 DEF FreedFor, Active

LEMMA GraceStep ==
    ASSUME Inv, [Next]_vars, NEW b \in Box, box[b].state = "running", box'[b].state = "gone"
    PROVE  project = "deleted" \/ \E o \in Active : ~op[o].alone
<1>1. CASE UNCHANGED vars
  BY <1>1 DEF vars
<1>2. ASSUME NEW o \in Op, OpStep(o)
      PROVE  project = "deleted" \/ \E x \in Active : ~op[x].alone
  <2>1. CASE RollReads(o) \/ PauseReads(o) \/ ResumeReads(o) \/ Ends(o) \/ DeleteLists(o)
    BY <2>1 DEF RollReads, PauseReads, ResumeReads, Ends, DeleteLists
  <2>2. CASE \E r \in Replica : DrainsExtra(o, r) \/ DrainsReplaced(o, r)
    BY <2>2, DrainsKeep
  <2>3. CASE \E r \in Replica : Starts(o, r)
    BY <2>3, StartsKeep
  <2>4. CASE DrainSignals(o)
    BY <2>4, SignalsKeep
  <2>5. CASE DeleteRemoves(o)
    BY <2>5, RemovingSteps
  <2> QED BY <1>2, <2>1, <2>2, <2>3, <2>4, <2>5 DEF OpStep
<1>3. ASSUME NEW o \in Op, Toggle(o) \/ Delete(o) \/ Stops(o) \/ \E d \in Deployment : Promote(o, d)
      PROVE  UNCHANGED box
  BY <1>3 DEF Toggle, Delete, Stops, Promote
<1>4. CASE \/ CreateProject \/ \E n \in 0..MaxReplicas : SetReplicas(n)
           \/ OrphansList \/ OrphansRemove \/ \E c \in Box : SweepDraining(c)
  BY <1>4, OutsideSteps
<1> QED BY <1>1, <1>2, <1>3, <1>4 DEF Next

\* A worker is not cut off: in every behaviour, while its project exists and
\* operations do not overlap, no container goes that was not drained first.
THEOREM WorkersFullGrace == Spec => FullGrace
<1>1. ASSUME Inv, [Next]_vars
      PROVE  [\A b \in Box :
                 box[b].state = "running" /\ box'[b].state = "gone" =>
                    project = "deleted" \/ \E o \in Active : ~op[o].alone]_vars
  BY <1>1, GraceStep
<1> QED BY <1>1, InvHolds, PTL DEF Spec, FullGrace

-----------------------------------------------------------------------------
(* A roll that was alone leaves what it wanted *)

LEMMA ConvergesStep ==
    ASSUME Inv, NEW o \in Op, op[o].kind = "roll", op[o].alone, op[o].at = "work", Ends(o),
           project = "present", NEW r \in Replica
    PROVE  /\ Cardinality(Named(r)) = IF r \in op[o].wanted THEN 1 ELSE 0
           /\ \A b \in Named(r) : box[b].image = op[o].image
<1>1. op[o].extra = {} /\ op[o].left = {}
  BY DEF Ends
<1>2. RolledFor(op[o]) /\ OneNamed
  BY OpFacts
<1>3. CASE r \in op[o].wanted
  <2>1. Named(r) # {} /\ \A b \in Named(r) : box[b].image = op[o].image
    BY <1>1, <1>2, <1>3 DEF RolledFor
  <2>2. PICK b : b \in Named(r)
    BY <2>1
  <2>3. Named(r) = {b}
    BY <1>2, <2>2 DEF Named, OneNamed
  <2>4. Cardinality(Named(r)) = 1
    BY <2>3, FS_Singleton
  <2> QED BY <1>3, <2>1, <2>4
<1>4. CASE r \notin op[o].wanted
  <2>1. Named(r) = {}
    BY <1>1, <1>2, <1>4 DEF RolledFor
  <2> QED BY <1>4, <2>1, FS_EmptySet
<1> QED BY <1>3, <1>4

\* A promotion whose roll ran alone leaves, in every behaviour, one container
\* for every replica the process had, on its image, and no other worker.
THEOREM WorkersRollConverges == Spec => RollConverges
<1>1. ASSUME Inv, [Next]_vars
      PROVE  [\A o \in Op :
                 /\ op[o].kind = "roll" /\ op[o].alone /\ op[o].at = "work"
                 /\ Ends(o) /\ project = "present"
                 => \A r \in Replica :
                       /\ Cardinality(Named(r)) = IF r \in op[o].wanted THEN 1 ELSE 0
                       /\ \A b \in Named(r) : box[b].image = op[o].image]_vars
  BY <1>1, ConvergesStep
<1> QED BY <1>1, InvHolds, PTL DEF Spec, RollConverges
=============================================================================
