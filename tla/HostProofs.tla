----------------------------- MODULE HostProofs -----------------------------
(***************************************************************************)
(* Proofs about module Host, for every number of deployments, commits,     *)
(* domains' records and requests, every calendar and schedule, and every   *)
(* checkout with every settings.                                           *)
(*                                                                         *)
(* The six components share nothing, so each has an inductive invariant of *)
(* its own: EnvInv, DnsInv, ImagesInv, SchedulesInv and PlanInv here, and  *)
(* AppInv in module GitHubProofs.  Schedules and Plans hardly move; their  *)
(* theorems are about what their functions give: the two searches of a     *)
(* calendar find the latest and the earliest minute that matches, and each *)
(* framework's plan has the tools its commands call.                       *)
(***************************************************************************)
EXTENDS Host, GitHubProofs, FiniteSetTheorems, WellFoundedInduction, TLAPS

-----------------------------------------------------------------------------
(* Environments: what collect returns *)

\* The last of the rows that cover the target, in the order they are applied.
LEMMA CollectedIs ==
    ASSUME NEW t \in Target, NEW injected
    PROVE  Collected(t, injected) =
              IF t \in scopes THEN t ELSE IF "all" \in scopes THEN "all" ELSE injected
<1> DEFINE After(i, before) ==
              IF Applied[i] \in scopes /\ Covers(Applied[i], t) THEN Applied[i] ELSE before
           v1 == After(1, injected)
           v2 == After(2, v1)
           v3 == After(3, v2)
           f == [i \in 0..3 |-> IF i = 0 THEN injected ELSE IF i = 1 THEN v1
                                ELSE IF i = 2 THEN v2 ELSE v3]
           IsValue(g) == g = [i \in 0 .. 3 |->
                                IF i = 0 THEN injected
                                ELSE IF Applied[i] \in scopes /\ Covers(Applied[i], t)
                                THEN Applied[i] ELSE g[i - 1]]
           value == CHOOSE g : IsValue(g)
<1>1. IsValue(f)
  <2> DEFINE h == [i \in 0 .. 3 |->
                      IF i = 0 THEN injected
                      ELSE IF Applied[i] \in scopes /\ Covers(Applied[i], t)
                      THEN Applied[i] ELSE f[i - 1]]
  <2> HIDE DEF v1, v2, v3
  <2>1. f[0] = injected /\ f[1] = v1 /\ f[2] = v2 /\ f[3] = v3
    OBVIOUS
  <2>2. h[0] = injected /\ h[1] = v1 /\ h[2] = v2 /\ h[3] = v3
    BY <2>1 DEF v1, v2, v3
  <2>3. \A i \in 0..3 : f[i] = h[i]
    <3>1. \A i \in 0..3 : i = 0 \/ i = 1 \/ i = 2 \/ i = 3
      OBVIOUS
    <3> QED BY <2>1, <2>2, <3>1
  <2> QED BY <2>3
<1>2. IsValue(value)
  BY <1>1
<1>3. Collected(t, injected) = value[3]
  BY DEF Collected
<1> HIDE DEF value
<1>4. value[0] = injected /\ value[1] = After(1, value[0]) /\ value[2] = After(2, value[1])
      /\ value[3] = After(3, value[2])
  BY <1>2
<1>5. Applied[1] = "all" /\ Applied[2] = "production" /\ Applied[3] = "preview"
  BY DEF Applied
<1>6. t = "production" \/ t = "preview"
  BY DEF Target
<1> QED BY <1>3, <1>4, <1>5, <1>6 DEF Covers

LEMMA ScopesWin == ScopedWins
BY CollectedIs DEF ScopedWins

-----------------------------------------------------------------------------
(* Environments: the invariant *)

\* What the deployment being built was given is what its image has, although
\* deployments of one commit share that image; only production is promoted by
\* its own deploy.
BuilderOK ==
    builder # Nobody =>
        /\ builder.at = "built" /\ target[builder.d] = "preview" =>
              bundle[commit[builder.d]] # "production"
        /\ builder.at = "promote" => target[builder.d] = "production"

EnvInv == EnvironmentsTypeOK /\ BuilderOK /\ PreviewIsolated

LEMMA EnvFacts ==
    ASSUME EnvInv
    PROVE  /\ target \in [Release -> Target] /\ commit \in [Release -> Commit]
           /\ bundle \in [Commit -> Source] /\ unit \in [Release -> Unit \cup {Nobody}]
           /\ ready \subseteq Release /\ asked \subseteq Release /\ scopes \subseteq Scope
           /\ redis \in BOOLEAN /\ volumes \in BOOLEAN
           /\ edits \in 0 .. MaxEdits /\ MaxEdits \in Nat
           /\ live \in Release \cup {Nobody}
           /\ (builder # Nobody => builder \in [d : Release, at : {"built", "promote"}])
BY EnvironmentsAssumption DEF EnvInv, EnvironmentsTypeOK

\* What a preview is given has nothing of production in it.
LEMMA Given ==
    ASSUME EnvInv, NEW t \in Target, NEW injected \in {"none", Injected(t)}
    PROVE  /\ Collected(t, injected) \in Source
           /\ t = "preview" => Collected(t, injected) \notin {"production", "redis"}
BY CollectedIs, EnvFacts DEF Injected, Source, Scope, Target

LEMMA ContainerIs ==
    ASSUME EnvInv, NEW d \in Release, NEW t \in Target
    PROVE  /\ ContainerFor(d, t) \in Unit
           /\ ContainerFor(d, t).bundle = bundle[commit[d]]
           /\ t = "preview" => /\ ContainerFor(d, t).env \notin {"production", "redis"}
                               /\ ~ContainerFor(d, t).mounts
<1>1. Collected(t, Injected(t)) \in Source
      /\ (t = "preview" => Collected(t, Injected(t)) \notin {"production", "redis"})
  BY Given
<1>2. Mounts(t) \in BOOLEAN /\ (t = "preview" => ~Mounts(t))
  BY EnvFacts DEF Mounts
<1>3. bundle[commit[d]] \in Source
  BY EnvFacts
<1> QED BY <1>1, <1>2, <1>3 DEF ContainerFor, Unit

LEMMA EditsStep ==
    ASSUME EnvInv, Edits, scopes' \subseteq Scope, redis' \in BOOLEAN, volumes' \in BOOLEAN
    PROVE  EnvInv'
<1>1. /\ edits < MaxEdits /\ edits' = edits + 1
      /\ UNCHANGED <<target, commit, bundle, builder, ready, unit, live, asked>>
  BY DEF Edits
<1>2. edits' \in 0 .. MaxEdits
  BY <1>1, EnvFacts
<1> QED BY <1>1, <1>2 DEF EnvInv, EnvironmentsTypeOK, BuilderOK, PreviewIsolated

LEMMA BuildsForStep ==
    ASSUME EnvInv, NEW d \in Release, BuildsFor(d)
    PROVE  EnvInv'
<1> DEFINE value == Collected(target[d], "none")
<1>1. /\ bundle' = [bundle EXCEPT ![commit[d]] = value]
      /\ builder' = [d |-> d, at |-> "built"]
      /\ UNCHANGED <<target, commit, configured, ready, unit, live, asked>>
  BY DEF BuildsFor
<1>2. value \in Source /\ (target[d] = "preview" => value # "production")
  BY Given, EnvFacts
<1> HIDE DEF value
<1>3. bundle' \in [Commit -> Source] /\ bundle'[commit[d]] = value
  BY <1>1, <1>2, EnvFacts
<1>4. EnvironmentsTypeOK'
  BY <1>1, <1>3 DEF EnvInv, EnvironmentsTypeOK, configured
<1>5. BuilderOK'
  BY <1>1, <1>2, <1>3 DEF BuilderOK
<1>6. PreviewIsolated'
  BY <1>1 DEF EnvInv, PreviewIsolated
<1> QED BY <1>4, <1>5, <1>6 DEF EnvInv

LEMMA StartsUnitStep ==
    ASSUME EnvInv, StartsUnit
    PROVE  EnvInv'
<1> DEFINE d == builder.d
           box == ContainerFor(d, target[d])
<1>1. /\ builder # Nobody /\ builder.at = "built" /\ unit' = [unit EXCEPT ![d] = box]
      /\ ready' = ready \cup {d}
      /\ builder' = IF target[d] = "production" THEN [d |-> d, at |-> "promote"] ELSE Nobody
      /\ UNCHANGED <<target, commit, configured, bundle, live, asked>>
  BY DEF StartsUnit
<1>2. d \in Release /\ target[d] \in Target
  BY <1>1, EnvFacts
<1>3. /\ box \in Unit /\ box.bundle = bundle[commit[d]]
      /\ target[d] = "preview" => box.env \notin {"production", "redis"} /\ ~box.mounts
  BY <1>2, ContainerIs
<1>4. target[d] = "preview" => box.bundle # "production"
  BY <1>1, <1>3 DEF EnvInv, BuilderOK
<1> HIDE DEF d, box
<1>5. unit' \in [Release -> Unit \cup {Nobody}] /\ ready' \subseteq Release
  BY <1>1, <1>2, <1>3, EnvFacts
<1>6. builder' = Nobody \/ builder' \in [d : Release, at : {"built", "promote"}]
  BY <1>1, <1>2
<1>7. EnvironmentsTypeOK'
  BY <1>1, <1>5, <1>6 DEF EnvInv, EnvironmentsTypeOK, configured
<1>8. BuilderOK'
  BY <1>1 DEF BuilderOK
<1>9. PreviewIsolated'
  <2> SUFFICES ASSUME NEW e \in Release, target[e] = "preview", e \notin asked,
                      unit'[e] # Nobody
               PROVE  /\ unit'[e].env \notin {"production", "redis"} /\ ~unit'[e].mounts
                      /\ unit'[e].bundle # "production"
    BY <1>1 DEF PreviewIsolated
  <2>1. CASE e = d
    BY <1>1, <1>2, <1>3, <1>4, <2>1, EnvFacts
  <2>2. CASE e # d
    BY <1>1, <1>2, <2>2, EnvFacts DEF EnvInv, PreviewIsolated
  <2> QED BY <2>1, <2>2
<1> QED BY <1>7, <1>8, <1>9 DEF EnvInv

\* Production moves to d, which was deployed there or asked for.
LEMMA GoesLiveStep ==
    ASSUME EnvInv, NEW d \in Release, NEW gone \in SUBSET (Release \ {d}),
           GoesLiveWith(d, gone),
           asked' \in SUBSET Release, asked \subseteq asked',
           d \in asked' \/ target[d] = "production",
           builder' \in {builder, Nobody}
    PROVE  EnvInv'
<1> DEFINE box == ContainerFor(d, "production")
<1>1. /\ live' = d
      /\ unit' = [e \in Release |-> IF e = d /\ unit[d] = Nobody THEN box
                                    ELSE IF e \in gone THEN Nobody ELSE unit[e]]
      /\ UNCHANGED <<target, commit, configured, bundle, ready>>
  BY DEF GoesLiveWith
<1>2. box \in Unit
  BY ContainerIs DEF Target
<1> HIDE DEF box
<1>3. unit' \in [Release -> Unit \cup {Nobody}]
  BY <1>1, <1>2, EnvFacts
<1>4. EnvironmentsTypeOK'
  BY <1>1, <1>3 DEF EnvInv, EnvironmentsTypeOK, configured
<1>5. BuilderOK'
  BY <1>1 DEF EnvInv, BuilderOK
<1>6. PreviewIsolated'
  <2> SUFFICES ASSUME NEW e \in Release, target[e] = "preview", e \notin asked',
                      unit'[e] # Nobody
               PROVE  /\ unit'[e].env \notin {"production", "redis"} /\ ~unit'[e].mounts
                      /\ unit'[e].bundle # "production"
    BY <1>1 DEF PreviewIsolated
  <2>1. e # d /\ e \notin asked
    OBVIOUS
  <2>2. unit'[e] = unit[e]
    BY <1>1, <2>1
  <2> QED BY <2>1, <2>2 DEF EnvInv, PreviewIsolated
<1> QED BY <1>4, <1>5, <1>6 DEF EnvInv

LEMMA EnvironmentsStep ==
    ASSUME EnvInv, EnvironmentsNext
    PROVE  EnvInv'
<1>1. ASSUME NEW s \in Scope, SetsVariable(s) \/ UnsetsVariable(s)
      PROVE  EnvInv'
  <2>1. Edits /\ UNCHANGED <<redis, volumes>> /\ scopes' \in SUBSET (scopes \cup {s})
    BY <1>1 DEF SetsVariable, UnsetsVariable
  <2> QED BY <2>1, EnvFacts, EditsStep
<1>2. CASE Configures
  <2>1. Edits /\ UNCHANGED scopes /\ redis' \in {redis, ~redis} /\ volumes' \in {volumes, ~volumes}
    BY <1>2 DEF Configures
  <2> QED BY <2>1, EnvFacts, EditsStep
<1>3. CASE DeployFails
  <2>1. /\ builder' = Nobody /\ ready' \subseteq ready
        /\ UNCHANGED <<target, commit, configured, bundle, unit, live, asked>>
    BY <1>3 DEF DeployFails
  <2> QED BY <2>1 DEF EnvInv, EnvironmentsTypeOK, BuilderOK, PreviewIsolated, configured
<1>4. CASE PromotesBuilt
  <2> DEFINE d == builder.d
  <2>1. PICK gone \in SUBSET (Release \ {d}) : GoesLiveWith(d, gone)
    BY <1>4 DEF PromotesBuilt
  <2>2. d \in Release /\ target[d] = "production" /\ builder' = Nobody /\ asked' = asked
    BY <1>4, EnvFacts DEF PromotesBuilt, EnvInv, BuilderOK
  <2> HIDE DEF d
  <2> QED BY <2>1, <2>2, EnvFacts, GoesLiveStep
<1>5. ASSUME NEW d \in Release, PromotesByHand(d)
      PROVE  EnvInv'
  <2>1. PICK gone \in SUBSET (Release \ {d}) : GoesLiveWith(d, gone)
    BY <1>5 DEF PromotesByHand
  <2>2. asked' = asked \cup {d} /\ builder' = builder
    BY <1>5 DEF PromotesByHand
  <2> QED BY <2>1, <2>2, EnvFacts, GoesLiveStep
<1>6. ASSUME NEW d \in Release, UnitGoes(d)
      PROVE  EnvInv'
  <2>1. /\ unit' = [unit EXCEPT ![d] = Nobody]
        /\ UNCHANGED <<target, commit, configured, bundle, builder, ready, live, asked>>
    BY <1>6 DEF UnitGoes
  <2>2. /\ unit' \in [Release -> Unit \cup {Nobody}]
        /\ \A e \in Release : unit'[e] # Nobody => unit'[e] = unit[e]
    BY <2>1, EnvFacts
  <2> QED BY <2>1, <2>2 DEF EnvInv, EnvironmentsTypeOK, BuilderOK, PreviewIsolated, configured
<1> QED BY <1>1, <1>2, <1>3, <1>4, <1>5, <1>6, StartsUnitStep, BuildsForStep
        DEF EnvironmentsNext

LEMMA EnvironmentsStart ==
    ASSUME EnvironmentsInit
    PROVE  EnvInv
<1>1. bundle \in [Commit -> Source] /\ unit \in [Release -> Unit \cup {Nobody}]
  BY DEF EnvironmentsInit, Source
<1>2. edits \in 0 .. MaxEdits
  BY EnvironmentsAssumption DEF EnvironmentsInit
<1>3. EnvironmentsTypeOK
  BY <1>1, <1>2 DEF EnvironmentsInit, EnvironmentsTypeOK
<1>4. BuilderOK /\ PreviewIsolated
  BY DEF EnvironmentsInit, BuilderOK, PreviewIsolated
<1> QED BY <1>3, <1>4 DEF EnvInv
-----------------------------------------------------------------------------
(* The domain and its records: the invariant *)

\* The record i is in the hands of a request in state r.
Holds(r, i) ==
    \/ r.at \in {"create", "unroute", "undo", "delete"} /\ i \in r.own
    \/ r.at = "delete" /\ i = r.id

\* While no request failed and no two overlapped, r is the one that is not at
\* rest: who verifies has a row to verify, who removes has the records of the
\* row, and each record of DeployPro's is the row's or the request's; a route
\* without a row is about to go, and stays gone while records are deleted.
Alone(r, records, row, on) ==
    /\ r.at \in {"look", "create", "verify", "mark"} => row # Nothing
    /\ r.at = "remove" => row # Nothing /\ row.records = r.own
    /\ \A i \in RecordId :
          records[i] # Nothing /\ records[i].by = "us" =>
              /\ Holds(r, i) \/ (row # Nothing /\ i \in row.records)
              /\ r.at = "create" => i \in r.own
    /\ r.at \in {"undo", "delete"} => ~on
    /\ row = Nothing /\ on => r.at \in {"unroute", "refresh"}
    /\ r.at \in {"unroute", "undo", "delete"} => row = Nothing \/ ~row.verified

Tidy ==
    \E r \in Visit :
        /\ \A v \in Visitor : visit[v].at # "idle" =>
              visit[v] = r /\ \A w \in Visitor \ {v} : visit[w].at = "idle"
        /\ (\A v \in Visitor : visit[v].at = "idle") => r = NoVisit
        /\ Alone(r, zone, domain, routed)

AtRest == \A v \in Visitor : visit[v].at = "idle" => visit[v] = NoVisit

DnsInv == DnsTypeOK /\ AtRest /\ DeletesItsOwn /\ (~upset => Tidy)

LEMMA DnsFacts ==
    ASSUME DnsInv
    PROVE  /\ zone \in [RecordId -> Record \cup {Nothing}] /\ visit \in [Visitor -> Visit]
           /\ domain \in DomainRow \cup {Nothing} /\ (domain # Nothing => domain \in DomainRow)
           /\ made \in 0 .. MaxRecords /\ adds \in 0 .. MaxAdds
           /\ routed \in BOOLEAN /\ upset \in BOOLEAN
           /\ MaxRecords \in Nat /\ MaxAdds \in Nat
           /\ Nothing \notin Record /\ Nothing \notin DomainRow
           /\ \A v \in Visitor : visit[v].at = "idle" <=> visit[v] = NoVisit
BY DnsAssumption, NothingAssumption DEF DnsInv, DnsTypeOK, AtRest, NoVisit

LEMMA NoVisitIs ==
    NoVisit \in Visit /\ NoVisit.at = "idle" /\ NoVisit.own = {} /\ NoVisit.row = 0
BY DnsAssumption DEF NoVisit, Visit

\* The request that is not at rest, or none.
LEMMA TheOne ==
    ASSUME DnsInv, ~upset, NEW v \in Visitor,
           \A w \in Visitor \ {v} : visit[v].at = "idle" => visit[w].at = "idle"
    PROVE  /\ Alone(visit[v], zone, domain, routed)
           /\ \A w \in Visitor \ {v} : visit[w].at = "idle"
<1>1. PICK r \in Visit :
        /\ \A x \in Visitor : visit[x].at # "idle" =>
              visit[x] = r /\ \A w \in Visitor \ {x} : visit[w].at = "idle"
        /\ (\A x \in Visitor : visit[x].at = "idle") => r = NoVisit
        /\ Alone(r, zone, domain, routed)
  BY DEF DnsInv, Tidy
<1>2. CASE visit[v].at # "idle"
  BY <1>1, <1>2
<1>3. CASE visit[v].at = "idle"
  <2>1. \A x \in Visitor : visit[x].at = "idle"
    BY <1>3
  <2>2. visit[v] = NoVisit
    BY <1>3, DnsFacts
  <2> QED BY <1>1, <2>1, <2>2
<1> QED BY <1>2, <1>3

\* Request v goes on to state r.
LEMMA VisitMoves ==
    ASSUME DnsInv, NEW v \in Visitor, NEW r \in Visit,
           visit' = [visit EXCEPT ![v] = r],
           r.at = "idle" => r = NoVisit,
           r.at = "delete" => r.saw.by = "us",
           zone' \in [RecordId -> Record \cup {Nothing}], made' \in 0 .. MaxRecords,
           domain' \in DomainRow \cup {Nothing}, adds' \in 0 .. MaxAdds,
           routed' \in BOOLEAN, upset' \in BOOLEAN, upset => upset',
           ~upset' => /\ Alone(r, zone', domain', routed')
                      /\ \A w \in Visitor \ {v} : visit[w].at = "idle"
    PROVE  DnsInv'
<1>1. /\ visit' \in [Visitor -> Visit]
      /\ \A w \in Visitor : visit'[w] = IF w = v THEN r ELSE visit[w]
  BY DnsFacts
<1>2. DnsTypeOK'
  BY <1>1 DEF DnsTypeOK
<1>3. AtRest'
  BY <1>1 DEF DnsInv, AtRest
<1>4. DeletesItsOwn'
  BY <1>1 DEF DnsInv, DeletesItsOwn
<1>5. ASSUME ~upset'
      PROVE  Tidy'
  <2>1. /\ \A x \in Visitor : visit'[x].at # "idle" =>
              visit'[x] = r /\ \A w \in Visitor \ {x} : visit'[w].at = "idle"
        /\ (\A x \in Visitor : visit'[x].at = "idle") => r = NoVisit
    BY <1>1, <1>5
  <2> QED BY <1>5, <2>1 DEF Tidy
<1> QED BY <1>2, <1>3, <1>4, <1>5 DEF DnsInv

\* A request that is not at rest goes on, and changes no record of the zone.
LEMMA Going ==
    ASSUME DnsInv, NEW v \in Visitor, visit[v].at # "idle", NEW r \in Visit,
           visit' = [visit EXCEPT ![v] = r],
           r.at = "idle" => r = NoVisit,
           r.at = "delete" => r.saw.by = "us",
           UNCHANGED <<zone, made, adds>>,
           domain' \in DomainRow \cup {Nothing}, routed' \in BOOLEAN,
           upset' \in BOOLEAN, upset => upset',
           ~upset' /\ Alone(visit[v], zone, domain, routed) => Alone(r, zone, domain', routed')
    PROVE  DnsInv'
<1>1. ~upset => /\ Alone(visit[v], zone, domain, routed)
                /\ \A w \in Visitor \ {v} : visit[w].at = "idle"
  BY TheOne
<1>2. /\ zone' \in [RecordId -> Record \cup {Nothing}] /\ made' \in 0 .. MaxRecords
      /\ adds' \in 0 .. MaxAdds /\ zone' = zone
  BY DnsFacts
<1>3. ~upset' => /\ Alone(r, zone', domain', routed')
                 /\ \A w \in Visitor \ {v} : visit[w].at = "idle"
  BY <1>1, <1>2
<1> QED BY <1>2, <1>3, VisitMoves

\* The step another one only names.
LEMMA StepsToIs ==
    ASSUME DnsInv, NEW v \in Visitor, NEW at \in {"verify", "mark", "refresh", "unroute", "undo"}
    PROVE  LET r == [visit[v] EXCEPT !.at = at]
           IN  /\ r \in Visit /\ r.at = at /\ r.own = visit[v].own /\ r.row = visit[v].row
               /\ r.id = visit[v].id
               /\ StepsTo(v, at) => visit' = [visit EXCEPT ![v] = r]
<1>1. visit[v] \in Visit /\ visit \in [Visitor -> Visit]
  BY DnsFacts
<1> QED BY <1>1 DEF Visit, StepsTo

\* A request starts, which is no overlap only when all others are at rest.
LEMMA StartsStep ==
    ASSUME DnsInv, NEW v \in Visitor, NEW at \in {"look", "verify", "remove"},
           NEW row \in 0 .. MaxAdds, NEW own \in SUBSET RecordId,
           Starts(v, at, row, own),
           UNCHANGED <<zone, made, routed>>,
           domain' \in DomainRow, adds' \in 0 .. MaxAdds,
           at = "remove" => domain'.records = own,
           domain # Nothing => domain' = domain
    PROVE  DnsInv'
<1> DEFINE mid1 == [NoVisit EXCEPT !.at = at]
           mid2 == [mid1 EXCEPT !.row = row]
           r == [mid2 EXCEPT !.own = own]
<1>1. /\ visit[v] = NoVisit /\ visit' = [visit EXCEPT ![v] = r]
      /\ upset' = (upset \/ \E o \in Visitor : visit[o] # NoVisit)
  BY DEF Starts
<1>2. r \in Visit /\ r.at = at /\ r.own = own
  <2>1. mid1 \in Visit /\ mid1.at = at
    BY NoVisitIs DEF Visit
  <2> HIDE DEF mid1
  <2>2. mid2 \in Visit /\ mid2.at = at
    BY <2>1 DEF Visit
  <2> HIDE DEF mid2
  <2> QED BY <2>2 DEF Visit
<1> HIDE DEF r
<1>3. /\ zone' \in [RecordId -> Record \cup {Nothing}] /\ made' \in 0 .. MaxRecords
      /\ domain' \in DomainRow \cup {Nothing} /\ routed' \in BOOLEAN /\ upset' \in BOOLEAN
      /\ domain' # Nothing
  BY <1>1, DnsFacts
<1>4. ASSUME ~upset'
      PROVE  /\ Alone(r, zone', domain', routed')
             /\ \A w \in Visitor \ {v} : visit[w].at = "idle"
  <2>1. ~upset /\ \A w \in Visitor : visit[w].at = "idle"
    BY <1>1, <1>4, NoVisitIs
  <2>2. Alone(NoVisit, zone, domain, routed)
    BY <1>1, <2>1, TheOne
  <2>3. \A i \in RecordId : zone[i] # Nothing /\ zone[i].by = "us" =>
            domain # Nothing /\ i \in domain.records
    BY <2>2, NoVisitIs DEF Alone, Holds
  <2>4. \A i \in RecordId : zone'[i] # Nothing /\ zone'[i].by = "us" =>
            domain' # Nothing /\ i \in domain'.records
    BY <2>3
  <2> QED BY <1>2, <1>3, <2>1, <2>4 DEF Alone
<1> QED BY <1>1, <1>2, <1>3, <1>4, VisitMoves

LEMMA AddsStep ==
    ASSUME DnsInv, NEW v \in Visitor, Adds(v)
    PROVE  DnsInv'
<1> DEFINE new == [id |-> adds', verified |-> FALSE, records |-> {}]
<1>1. /\ domain = Nothing /\ adds < MaxAdds /\ adds' = adds + 1 /\ domain' = new
      /\ UNCHANGED <<zone, made, routed>>
      /\ Starts(v, "look", adds', {}) \/ UNCHANGED <<visit, upset>>
  BY DEF Adds
<1>2. adds' \in 1 .. MaxAdds /\ adds' \in 0 .. MaxAdds
  BY <1>1, DnsFacts
<1>3. new \in DomainRow /\ new.verified = FALSE
  BY <1>2 DEF DomainRow
<1> HIDE DEF new
<1>4. domain' \in DomainRow /\ domain' # Nothing
  BY <1>1, <1>3, DnsFacts
<1>5. CASE Starts(v, "look", adds', {})
  BY <1>1, <1>2, <1>4, <1>5, StartsStep
<1>6. CASE UNCHANGED <<visit, upset>>
  <2>1. DnsTypeOK' /\ AtRest' /\ DeletesItsOwn'
    BY <1>1, <1>2, <1>4, <1>6 DEF DnsInv, DnsTypeOK, AtRest, DeletesItsOwn, Visit
  <2>2. ASSUME ~upset
        PROVE  Tidy'
    <3>1. PICK r \in Visit :
            /\ \A x \in Visitor : visit[x].at # "idle" =>
                  visit[x] = r /\ \A w \in Visitor \ {x} : visit[w].at = "idle"
            /\ (\A x \in Visitor : visit[x].at = "idle") => r = NoVisit
            /\ Alone(r, zone, domain, routed)
      BY <2>2 DEF DnsInv, Tidy
    <3>2. Alone(r, zone', domain', routed')
      BY <1>1, <1>3, <1>4, <3>1 DEF Alone
    <3> QED BY <1>6, <3>1, <3>2 DEF Tidy
  <2> QED BY <1>6, <2>1, <2>2 DEF DnsInv
<1> QED BY <1>1, <1>5, <1>6

LEMMA BeginningSteps ==
    ASSUME DnsInv, NEW v \in Visitor, AsksAgain(v) \/ RemoveReads(v)
    PROVE  DnsInv'
<1>1. /\ domain # Nothing /\ domain' = domain /\ UNCHANGED <<zone, made, adds, routed>>
      /\ domain' \in DomainRow /\ adds' \in 0 .. MaxAdds
  BY DnsFacts DEF AsksAgain, RemoveReads
<1>2. domain.id \in 0 .. MaxAdds /\ domain.records \in SUBSET RecordId
  BY <1>1 DEF DomainRow
<1>3. CASE AsksAgain(v)
  <2>1. PICK at \in {"look", "verify"} : Starts(v, at, domain.id, {})
    BY <1>3 DEF AsksAgain
  <2> QED BY <1>1, <1>2, <2>1, StartsStep
<1>4. CASE RemoveReads(v)
  <2>1. Starts(v, "remove", domain.id, domain.records)
    BY <1>4 DEF RemoveReads
  <2> QED BY <1>1, <1>2, <2>1, StartsStep
<1> QED BY <1>3, <1>4

\* A request comes to its end.
LEMMA Ending ==
    ASSUME DnsInv, NEW v \in Visitor, visit[v].at # "idle", Idles(v),
           UNCHANGED <<zone, made, domain, adds>>,
           routed' \in BOOLEAN, upset' \in BOOLEAN, upset => upset',
           ~upset' /\ Alone(visit[v], zone, domain, routed) =>
              /\ \A i \in RecordId : zone[i] # Nothing /\ zone[i].by = "us" =>
                    domain # Nothing /\ i \in domain.records
              /\ domain = Nothing => ~routed'
    PROVE  DnsInv'
<1>1. visit' = [visit EXCEPT ![v] = NoVisit] /\ NoVisit \in Visit /\ NoVisit.at = "idle"
  BY NoVisitIs DEF Idles
<1>2. domain' \in DomainRow \cup {Nothing} /\ domain' = domain
  BY DnsFacts
<1>3. ~upset' /\ Alone(visit[v], zone, domain, routed) =>
         Alone(NoVisit, zone, domain', routed')
  BY <1>1, <1>2 DEF Alone
<1> QED BY <1>1, <1>2, <1>3, Going

LEMMA EndingSteps ==
    ASSUME DnsInv, NEW v \in Visitor,
           \/ ByHand(v) \/ CreateFails(v) \/ EndsEarly(v)
           \/ (Looks(v) /\ Idles(v)) \/ (Verifies(v) /\ Idles(v))
    PROVE  DnsInv'
<1>f. routed \in BOOLEAN /\ upset \in BOOLEAN
  BY DnsFacts
<1>1. Idles(v) /\ UNCHANGED <<zone, made, domain, adds, routed>>
  BY DEF ByHand, CreateFails, EndsEarly, Looks, Verifies
<1>2. visit[v].at # "idle"
  BY DnsFacts DEF ByHand, CreateFails, EndsEarly, Looks, Verifies
<1>3. CASE EndsEarly(v)
  <2>1. upset' = TRUE
    BY <1>3 DEF EndsEarly
  <2> QED BY <1>f, <1>1, <1>2, <2>1, Ending
<1>4. CASE ByHand(v) \/ Looks(v) \/ Verifies(v)
  <2>1. upset' = upset /\ visit[v].at \in {"look", "verify"}
    BY <1>4 DEF ByHand, Looks, Verifies
  <2>2. Alone(visit[v], zone, domain, routed) =>
          /\ domain # Nothing
          /\ \A i \in RecordId : zone[i] # Nothing /\ zone[i].by = "us" => i \in domain.records
    BY <2>1 DEF Alone, Holds
  <2> QED BY <1>f, <1>1, <1>2, <2>1, <2>2, Ending
<1>5. CASE CreateFails(v)
  <2>1. upset' = (upset \/ visit[v].own # {}) /\ visit[v].at = "create"
    BY <1>5 DEF CreateFails
  <2>2. ~upset' => visit[v].own = {}
    BY <2>1
  <2>3. ~upset' /\ Alone(visit[v], zone, domain, routed) =>
          /\ domain # Nothing
          /\ \A i \in RecordId : zone[i] # Nothing /\ zone[i].by = "us" => i \in domain.records
    BY <2>1, <2>2 DEF Alone, Holds
  <2> QED BY <1>f, <1>1, <1>2, <2>1, <2>3, Ending
<1> QED BY <1>3, <1>4, <1>5

\* A request whose row is there to look at, make records for or verify.
LEMMA MakingSteps ==
    ASSUME DnsInv, NEW v \in Visitor,
           Looks(v) \/ Verifies(v) \/ Marks(v) \/ Saves(v)
    PROVE  DnsInv'
<1>f. /\ routed \in BOOLEAN /\ upset \in BOOLEAN /\ domain \in DomainRow \cup {Nothing}
      /\ (domain # Nothing => domain \in DomainRow) /\ Nothing \notin DomainRow
      /\ visit[v] \in Visit /\ visit \in [Visitor -> Visit]
  BY DnsFacts
<1>1. CASE Idles(v) /\ (Looks(v) \/ Verifies(v))
  BY <1>1, EndingSteps
<1>2. CASE (Looks(v) /\ StepsTo(v, "verify")) \/ (Verifies(v) /\ StepsTo(v, "mark"))
  <2>1. PICK at \in {"verify", "mark", "refresh", "unroute", "undo"} :
           StepsTo(v, at) /\ at \in {"verify", "mark"}
    BY <1>2
  <2> DEFINE r == [visit[v] EXCEPT !.at = at]
  <2>2. r \in Visit /\ r.at = at /\ visit' = [visit EXCEPT ![v] = r]
    BY <2>1, StepsToIs
  <2> HIDE DEF r
  <2>3. /\ visit[v].at \in {"look", "verify"}
        /\ UNCHANGED <<zone, made, domain, adds, routed, upset>>
    BY <1>2 DEF Looks, Verifies
  <2>4. Alone(visit[v], zone, domain, routed) => Alone(r, zone, domain', routed')
    BY <2>1, <2>2, <2>3 DEF Alone, Holds
  <2>5. r.at \notin {"idle", "delete"} /\ visit[v].at # "idle"
    BY <2>1, <2>2, <2>3
  <2> QED BY <1>f, <2>2, <2>3, <2>4, <2>5, Going
<1>3. CASE Looks(v) /\ There = {} /\ visit' = [visit EXCEPT ![v].at = "create", ![v].todo = Addresses]
  <2> DEFINE mid == [visit[v] EXCEPT !.at = "create"]
             r == [mid EXCEPT !.todo = Addresses]
  <2>1. r \in Visit /\ r.at = "create"
    BY <1>f DEF Visit
  <2>2. visit' = [visit EXCEPT ![v] = r]
    BY <1>3, <1>f
  <2> HIDE DEF r
  <2>3. visit[v].at = "look" /\ UNCHANGED <<zone, made, domain, adds, routed, upset>>
    BY <1>3 DEF Looks
  <2>4. \A i \in RecordId : zone[i] = Nothing
    BY <1>3 DEF There
  <2>5. Alone(visit[v], zone, domain, routed) => Alone(r, zone, domain', routed')
    BY <2>1, <2>3, <2>4 DEF Alone
  <2> QED BY <1>f, <2>1, <2>2, <2>3, <2>5, Going
<1>4. CASE Marks(v)
  <2>1. visit[v].at = "mark" /\ UNCHANGED <<zone, made, adds, routed, upset>>
    BY <1>4 DEF Marks
  <2>2. CASE RowIsThere(v)
    <3> DEFINE r == [visit[v] EXCEPT !.at = "refresh"]
               new == [domain EXCEPT !.verified = TRUE]
    <3>1. StepsTo(v, "refresh") /\ domain' = new /\ domain # Nothing
      BY <1>4, <2>2 DEF Marks, RowIsThere
    <3>2. r \in Visit /\ r.at = "refresh" /\ visit' = [visit EXCEPT ![v] = r]
      BY <3>1, StepsToIs
    <3> HIDE DEF r
    <3>3. new \in DomainRow /\ new.records = domain.records
      BY <1>f, <3>1 DEF DomainRow
    <3> HIDE DEF new
    <3>4. domain' \in DomainRow \cup {Nothing} /\ domain' # Nothing
          /\ domain'.records = domain.records
      BY <1>f, <3>1, <3>3
    <3>5. Alone(visit[v], zone, domain, routed) => Alone(r, zone, domain', routed')
      BY <2>1, <3>2, <3>4 DEF Alone, Holds
    <3> QED BY <1>f, <2>1, <3>2, <3>4, <3>5, Going
  <2>3. CASE ~RowIsThere(v)
    <3>1. Idles(v) /\ UNCHANGED domain
      BY <1>4, <2>3 DEF Marks
    <3>2. Alone(visit[v], zone, domain, routed) =>
            /\ domain # Nothing
            /\ \A i \in RecordId : zone[i] # Nothing /\ zone[i].by = "us" => i \in domain.records
      BY <2>1 DEF Alone, Holds
    <3> QED BY <1>f, <2>1, <3>1, <3>2, Ending
  <2> QED BY <2>2, <2>3
<1>5. CASE Saves(v)
  <2>1. visit[v].at = "create" /\ UNCHANGED <<zone, made, adds, routed>>
    BY <1>5 DEF Saves
  <2>2. CASE RowIsThere(v)
    <3> DEFINE mid == [visit[v] EXCEPT !.at = "verify"]
               r == [mid EXCEPT !.own = {}]
               new == [domain EXCEPT !.records = visit[v].own]
    <3>1. /\ visit' = [visit EXCEPT ![v].at = "verify", ![v].own = {}]
          /\ domain' = new /\ domain # Nothing /\ upset' = upset
      BY <1>5, <2>2 DEF Saves, RowIsThere
    <3>2. r \in Visit /\ r.at = "verify"
      BY <1>f DEF Visit
    <3>3. visit' = [visit EXCEPT ![v] = r]
      BY <1>f, <3>1
    <3> HIDE DEF r
    <3>4. new \in DomainRow /\ new.records = visit[v].own
      BY <1>f, <3>1 DEF DomainRow, Visit
    <3> HIDE DEF new
    <3>5. domain' \in DomainRow \cup {Nothing} /\ domain' # Nothing
          /\ domain'.records = visit[v].own
      BY <1>f, <3>1, <3>4
    <3>6. Alone(visit[v], zone, domain, routed) => Alone(r, zone, domain', routed')
      BY <2>1, <3>2, <3>5 DEF Alone
    <3> QED BY <1>f, <2>1, <3>1, <3>2, <3>3, <3>5, <3>6, Going
  <2>3. CASE ~RowIsThere(v)
    <3>1. Idles(v) /\ UNCHANGED domain /\ upset' = TRUE
      BY <1>5, <2>3 DEF Saves
    <3> QED BY <1>f, <2>1, <3>1, Ending
  <2> QED BY <2>2, <2>3
<1> QED BY <1>1, <1>2, <1>3, <1>4, <1>5 DEF Looks, Verifies

LEMMA CreatesStep ==
    ASSUME DnsInv, NEW v \in Visitor, Creates(v)
    PROVE  DnsInv'
<1>f. /\ zone \in [RecordId -> Record \cup {Nothing}] /\ visit[v] \in Visit
      /\ visit \in [Visitor -> Visit]
  BY DnsFacts
<1>1. PICK a \in visit[v].todo :
        /\ visit[v].at = "create" /\ made < MaxRecords /\ made' = made + 1
        /\ zone' = [zone EXCEPT ![made'] = [by |-> "us", says |-> a]]
        /\ visit' = [visit EXCEPT ![v].todo = @ \ {a}, ![v].own = @ \cup {made'}]
        /\ UNCHANGED <<domain, adds, routed, upset>>
  BY DEF Creates
<1> DEFINE new == [by |-> "us", says |-> a]
           mid == [visit[v] EXCEPT !.todo = visit[v].todo \ {a}]
           r == [mid EXCEPT !.own = visit[v].own \cup {made'}]
<1>2. made' \in RecordId /\ made' \in 0 .. MaxRecords
  BY <1>1, DnsFacts DEF RecordId
<1>3. new \in Record
  BY <1>1, <1>f DEF Record, Visit
<1>4. r \in Visit /\ r.at = "create" /\ r.own = visit[v].own \cup {made'}
  BY <1>1, <1>2, <1>f DEF Visit
<1>5. visit' = [visit EXCEPT ![v] = r]
  BY <1>1, <1>f DEF Visit
<1> HIDE DEF new, r
<1>6. /\ zone' \in [RecordId -> Record \cup {Nothing}]
      /\ \A i \in RecordId : zone'[i] = IF i = made' THEN new ELSE zone[i]
  BY <1>1, <1>2, <1>3, <1>f DEF new
<1>7. /\ domain' \in DomainRow \cup {Nothing} /\ adds' \in 0 .. MaxAdds
      /\ routed' \in BOOLEAN /\ upset' \in BOOLEAN /\ upset' = upset
  BY <1>1, DnsFacts
<1>8. ASSUME ~upset'
      PROVE  /\ Alone(r, zone', domain', routed')
             /\ \A w \in Visitor \ {v} : visit[w].at = "idle"
  <2>1. /\ Alone(visit[v], zone, domain, routed)
        /\ \A w \in Visitor \ {v} : visit[w].at = "idle"
    BY <1>1, <1>7, <1>8, TheOne
  <2>2. \A i \in RecordId : zone'[i] # Nothing /\ zone'[i].by = "us" => i \in r.own
    BY <1>1, <1>4, <1>6, <2>1 DEF Alone
  <2>3. Alone(r, zone', domain', routed')
    BY <1>1, <1>4, <2>1, <2>2 DEF Alone, Holds
  <2> QED BY <2>1, <2>3
<1> QED BY <1>2, <1>4, <1>5, <1>6, <1>7, <1>8, VisitMoves

LEMMA ReroutesStep ==
    ASSUME DnsInv, NEW v \in Visitor, Reroutes(v)
    PROVE  DnsInv'
<1>f. /\ upset \in BOOLEAN /\ domain \in DomainRow \cup {Nothing}
      /\ (domain # Nothing => domain \in DomainRow)
  BY DnsFacts
<1>1. /\ visit[v].at \in {"refresh", "unroute"} /\ UNCHANGED <<zone, made, domain, adds, upset>>
      /\ routed' = (domain # Nothing /\ domain.verified)
  BY DEF Reroutes
<1>2. routed' \in BOOLEAN
  BY <1>1
<1>3. CASE visit[v].at = "unroute"
  <2> DEFINE r == [visit[v] EXCEPT !.at = "undo"]
  <2>1. r \in Visit /\ r.at = "undo" /\ r.own = visit[v].own /\ visit' = [visit EXCEPT ![v] = r]
    BY <1>3, StepsToIs DEF Reroutes
  <2> HIDE DEF r
  <2>2. Alone(visit[v], zone, domain, routed) => Alone(r, zone, domain', routed')
    BY <1>1, <1>3, <2>1 DEF Alone, Holds
  <2> QED BY <1>f, <1>1, <1>2, <1>3, <2>1, <2>2, Going
<1>4. CASE visit[v].at = "refresh"
  <2>1. Idles(v)
    BY <1>4 DEF Reroutes
  <2>2. Alone(visit[v], zone, domain, routed) =>
          /\ \A i \in RecordId : zone[i] # Nothing /\ zone[i].by = "us" =>
                domain # Nothing /\ i \in domain.records
          /\ domain = Nothing => ~routed'
    BY <1>1, <1>4 DEF Alone, Holds
  <2> QED BY <1>f, <1>1, <1>2, <1>4, <2>1, <2>2, Ending
<1> QED BY <1>1, <1>3, <1>4

LEMMA RemoveRowStep ==
    ASSUME DnsInv, NEW v \in Visitor, RemoveRow(v)
    PROVE  DnsInv'
<1>f. upset \in BOOLEAN /\ routed \in BOOLEAN
  BY DnsFacts
<1>1. /\ visit[v].at = "remove" /\ domain' = Nothing /\ UNCHANGED <<zone, made, adds, routed>>
      /\ \/ StepsTo(v, "unroute") /\ UNCHANGED upset
         \/ StepsTo(v, "refresh") /\ upset' = (upset \/ visit[v].own # {})
  BY DEF RemoveRow
<1>2. Alone(visit[v], zone, domain, routed) =>
         \A i \in RecordId : zone[i] # Nothing /\ zone[i].by = "us" => i \in visit[v].own
  BY <1>1 DEF Alone, Holds
<1>3. CASE StepsTo(v, "unroute") /\ UNCHANGED upset
  <2> DEFINE r == [visit[v] EXCEPT !.at = "unroute"]
  <2>1. r \in Visit /\ r.at = "unroute" /\ r.own = visit[v].own
        /\ visit' = [visit EXCEPT ![v] = r]
    BY <1>3, StepsToIs
  <2> HIDE DEF r
  <2>2. Alone(visit[v], zone, domain, routed) => Alone(r, zone, domain', routed')
    BY <1>1, <1>2, <2>1 DEF Alone, Holds
  <2> QED BY <1>f, <1>1, <1>3, <2>1, <2>2, Going
<1>4. CASE StepsTo(v, "refresh") /\ upset' = (upset \/ visit[v].own # {})
  <2> DEFINE r == [visit[v] EXCEPT !.at = "refresh"]
  <2>1. r \in Visit /\ r.at = "refresh" /\ visit' = [visit EXCEPT ![v] = r]
    BY <1>4, StepsToIs
  <2> HIDE DEF r
  <2>2. ~upset' => visit[v].own = {}
    BY <1>4
  <2>3. ~upset' /\ Alone(visit[v], zone, domain, routed) => Alone(r, zone, domain', routed')
    BY <1>1, <1>2, <2>1, <2>2 DEF Alone, Holds
  <2>4. upset' \in BOOLEAN /\ (upset => upset')
    BY <1>4
  <2> QED BY <1>f, <1>1, <2>1, <2>3, <2>4, Going
<1> QED BY <1>1, <1>3, <1>4

\* Each record made is read back; what is deleted next was DeployPro's.
LEMMA UndoesStep ==
    ASSUME DnsInv, NEW v \in Visitor, Undoes(v)
    PROVE  DnsInv'
<1>f. /\ upset \in BOOLEAN /\ routed \in BOOLEAN /\ domain \in DomainRow \cup {Nothing}
      /\ visit[v] \in Visit /\ visit \in [Visitor -> Visit]
      /\ zone \in [RecordId -> Record \cup {Nothing}]
  BY DnsFacts
<1>1. visit[v].at = "undo" /\ UNCHANGED <<zone, made, domain, adds, routed, upset>>
  BY DEF Undoes
<1>2. CASE visit[v].own = {} /\ Idles(v)
  <2>1. Alone(visit[v], zone, domain, routed) =>
          /\ \A i \in RecordId : zone[i] # Nothing /\ zone[i].by = "us" =>
                domain # Nothing /\ i \in domain.records
          /\ domain = Nothing => ~routed'
    BY <1>1, <1>2 DEF Alone, Holds
  <2> QED BY <1>f, <1>1, <1>2, <2>1, Ending
<1>3. ASSUME NEW i \in visit[v].own,
             visit' = IF zone[i] = Nothing \/ zone[i].by # "us"
                      THEN [visit EXCEPT ![v].own = @ \ {i}]
                      ELSE [visit EXCEPT ![v].own = @ \ {i}, ![v].at = "delete",
                                         ![v].id = i, ![v].saw = zone[i]]
      PROVE  DnsInv'
  <2> DEFINE left == [visit[v] EXCEPT !.own = visit[v].own \ {i}]
             going == [left EXCEPT !.at = "delete"]
             named == [going EXCEPT !.id = i]
             seen == [named EXCEPT !.saw = zone[i]]
  <2>0. i \in RecordId /\ i \in 0 .. MaxRecords
    BY <1>f DEF Visit, RecordId
  <2>1. left \in Visit /\ left.at = "undo" /\ left.own = visit[v].own \ {i}
    BY <1>1, <1>f DEF Visit
  <2>2. CASE zone[i] = Nothing \/ zone[i].by # "us"
    <3>1. visit' = [visit EXCEPT ![v] = left]
      BY <1>3, <1>f, <2>2
    <3> HIDE DEF left
    <3>2. Alone(visit[v], zone, domain, routed) => Alone(left, zone, domain', routed')
      BY <1>1, <2>1, <2>2 DEF Alone, Holds
    <3> QED BY <1>f, <1>1, <2>1, <3>1, <3>2, Going
  <2>3. CASE ~(zone[i] = Nothing \/ zone[i].by # "us")
    <3>1. visit' = [visit EXCEPT ![v] = seen]
      BY <1>3, <1>f, <2>3
    <3> HIDE DEF left
    <3>2. going \in Visit /\ going.at = "delete" /\ going.own = visit[v].own \ {i}
      BY <2>1 DEF Visit
    <3> HIDE DEF going
    <3>3. named \in Visit /\ named.at = "delete" /\ named.own = visit[v].own \ {i} /\ named.id = i
      BY <2>0, <3>2 DEF Visit
    <3> HIDE DEF named
    <3>4. /\ seen \in Visit /\ seen.at = "delete" /\ seen.own = visit[v].own \ {i}
          /\ seen.id = i /\ seen.saw = zone[i]
      BY <1>f, <2>0, <3>3 DEF Visit
    <3> HIDE DEF seen
    <3>5. Alone(visit[v], zone, domain, routed) => Alone(seen, zone, domain', routed')
      BY <1>1, <3>4 DEF Alone, Holds
    <3> QED BY <1>f, <1>1, <2>3, <3>1, <3>4, <3>5, Going
  <2> QED BY <2>2, <2>3
<1> QED BY <1>2, <1>3 DEF Undoes

LEMMA DeletesStep ==
    ASSUME DnsInv, NEW v \in Visitor, Deletes(v)
    PROVE  DnsInv'
<1> DEFINE r == [visit[v] EXCEPT !.at = "undo"]
<1>1. /\ visit[v].at = "delete" /\ zone' = [zone EXCEPT ![visit[v].id] = Nothing]
      /\ StepsTo(v, "undo") /\ UNCHANGED <<made, domain, adds, routed, upset>>
  BY DEF Deletes
<1>2. r \in Visit /\ r.at = "undo" /\ r.own = visit[v].own /\ visit' = [visit EXCEPT ![v] = r]
  BY <1>1, StepsToIs
<1> HIDE DEF r
<1>3. /\ zone' \in [RecordId -> Record \cup {Nothing}]
      /\ \A i \in RecordId : zone'[i] # Nothing => zone'[i] = zone[i] /\ i # visit[v].id
  BY <1>1, DnsFacts
<1>4. /\ domain' \in DomainRow \cup {Nothing} /\ adds' \in 0 .. MaxAdds /\ made' \in 0 .. MaxRecords
      /\ routed' \in BOOLEAN /\ upset' \in BOOLEAN /\ upset' = upset
  BY <1>1, DnsFacts
<1>5. ASSUME ~upset'
      PROVE  /\ Alone(r, zone', domain', routed')
             /\ \A w \in Visitor \ {v} : visit[w].at = "idle"
  <2>1. /\ Alone(visit[v], zone, domain, routed)
        /\ \A w \in Visitor \ {v} : visit[w].at = "idle"
    BY <1>1, <1>4, <1>5, TheOne
  <2>2. Alone(r, zone', domain', routed')
    BY <1>1, <1>2, <1>3, <2>1 DEF Alone, Holds
  <2> QED BY <2>1, <2>2
<1> QED BY <1>2, <1>3, <1>4, <1>5, VisitMoves

\* The owner makes no record of DeployPro's.
LEMMA OwnerStep ==
    ASSUME DnsInv, OwnerEdits
    PROVE  DnsInv'
<1>f. zone \in [RecordId -> Record \cup {Nothing}] /\ made \in 0 .. MaxRecords
  BY DnsFacts
<1>1. UNCHANGED <<domain, adds, routed, visit, upset>>
  BY DEF OwnerEdits
<1>2. PICK i \in RecordId, z \in Record \cup {Nothing} :
         /\ zone' = [zone EXCEPT ![i] = z]
         /\ z # Nothing => z.by = "owner"
         /\ made' \in 0 .. MaxRecords
  <2>1. CASE /\ made < MaxRecords /\ made' = made + 1
             /\ \E to \in Addresses \cup {Elsewhere} :
                   zone' = [zone EXCEPT ![made'] = [by |-> "owner", says |-> to]]
    <3>1. PICK to \in Addresses \cup {Elsewhere} :
             zone' = [zone EXCEPT ![made'] = [by |-> "owner", says |-> to]]
      BY <2>1
    <3> DEFINE z == [by |-> "owner", says |-> to]
    <3>2. z \in Record /\ z.by = "owner"
      BY DEF Record
    <3> HIDE DEF z
    <3>3. made' \in RecordId /\ made' \in 0 .. MaxRecords
      BY <2>1, DnsFacts DEF RecordId
    <3> QED BY <3>1, <3>2, <3>3 DEF z
  <2>2. CASE /\ UNCHANGED made
             /\ \E i \in There :
                   zone' \in {[zone EXCEPT ![i] = r] :
                                 r \in {Nothing, [by |-> "owner", says |-> Elsewhere]}}
    <3> DEFINE z == [by |-> "owner", says |-> Elsewhere]
    <3>1. z \in Record /\ z.by = "owner"
      BY DEF Record
    <3>2. PICK i \in There :
             zone' = [zone EXCEPT ![i] = z] \/ zone' = [zone EXCEPT ![i] = Nothing]
      BY <2>2
    <3> HIDE DEF z
    <3> QED BY <1>f, <2>2, <3>1, <3>2 DEF There
  <2> QED BY <2>1, <2>2 DEF OwnerEdits
<1>3. /\ zone' \in [RecordId -> Record \cup {Nothing}]
      /\ \A x \in RecordId : zone'[x] # Nothing /\ zone'[x].by = "us" =>
            zone[x] # Nothing /\ zone[x].by = "us"
  BY <1>f, <1>2
<1>4. DnsTypeOK' /\ AtRest' /\ DeletesItsOwn'
  BY <1>1, <1>2, <1>3 DEF DnsInv, DnsTypeOK, AtRest, DeletesItsOwn, Visit
<1>5. ASSUME ~upset
      PROVE  Tidy'
  <2>1. PICK r \in Visit :
          /\ \A x \in Visitor : visit[x].at # "idle" =>
                visit[x] = r /\ \A w \in Visitor \ {x} : visit[w].at = "idle"
          /\ (\A x \in Visitor : visit[x].at = "idle") => r = NoVisit
          /\ Alone(r, zone, domain, routed)
    BY <1>5 DEF DnsInv, Tidy
  <2>2. Alone(r, zone', domain', routed')
    BY <1>1, <1>3, <2>1 DEF Alone
  <2> QED BY <1>1, <2>1, <2>2 DEF Tidy
<1> QED BY <1>1, <1>4, <1>5 DEF DnsInv

LEMMA DnsStepKeeps ==
    ASSUME DnsInv, DnsNext
    PROVE  DnsInv'
BY OwnerStep, AddsStep, BeginningSteps, EndingSteps, MakingSteps, CreatesStep, ReroutesStep,
   RemoveRowStep, UndoesStep, DeletesStep
   DEF DnsNext, DnsStep

LEMMA DnsStart ==
    ASSUME DnsInit
    PROVE  DnsInv
<1>1. /\ zone \in [RecordId -> Record \cup {Nothing}] /\ visit \in [Visitor -> Visit]
      /\ \A i \in RecordId : zone[i] = Nothing
      /\ \A v \in Visitor : visit[v] = NoVisit
  BY NoVisitIs DEF DnsInit
<1>2. DnsTypeOK
  <2>1. made \in 0 .. MaxRecords /\ adds \in 0 .. MaxAdds
    BY DnsAssumption DEF DnsInit
  <2> QED BY <1>1, <2>1 DEF DnsInit, DnsTypeOK
<1>3. AtRest /\ DeletesItsOwn
  BY <1>1, NoVisitIs DEF AtRest, DeletesItsOwn
<1>4. Tidy
  <2>1. Alone(NoVisit, zone, domain, routed)
    BY <1>1, NoVisitIs DEF Alone, DnsInit
  <2> QED BY <1>1, <2>1, NoVisitIs DEF Tidy
<1> QED BY <1>2, <1>3, <1>4 DEF DnsInv

LEMMA ZoneIsRespected ==
    ASSUME DnsInv
    PROVE  ZoneRespected
<1>1. ASSUME ~upset, domain = Nothing, \A v \in Visitor : visit[v] = NoVisit
      PROVE  ~routed /\ \A i \in There : zone[i].by = "owner"
  <2>1. Alone(NoVisit, zone, domain, routed)
    BY <1>1, NoVisitIs DEF DnsInv, Tidy
  <2>2. \A i \in There : zone[i] \in Record
    BY DnsFacts DEF There
  <2> QED BY <1>1, <2>1, <2>2, NoVisitIs DEF Alone, Holds, There, Record
<1>2. ASSUME ~upset, NEW v \in Visitor, visit[v].at \in {"undo", "delete"}
      PROVE  ~routed
  <2>1. Alone(visit[v], zone, domain, routed)
    BY <1>2, TheOne
  <2> QED BY <1>2, <2>1 DEF Alone
<1>3. DeletesItsOwn
  BY DEF DnsInv
<1> QED BY <1>1, <1>2, <1>3 DEF ZoneRespected, RemovalIsClean

-----------------------------------------------------------------------------
(* The images: the invariant *)

Waiting == {"queued"} \cup InFlight

\* What a sweep that reads the deployments now will keep, whatever happens.
Needed(d) == rows[d].status \in Waiting \/ d \in NewestOf(KeepImages, Ready)

Backed(d) == sha[d] \in image \cup unseen

Present == {d \in Deployment : Exists(d)}

\* A deployment is built by one worker; its container is the one it waits for.
WorkOK ==
    \A w \in Worker :
        /\ work[w].at # "idle" =>
              /\ work[w].d \in Deployment /\ rows[work[w].d].status \in InFlight
              /\ \A v \in Worker : work[v].at # "idle" /\ work[v].d = work[w].d => v = w
        /\ work[w].at = "health" => work[w].c \in alive /\ work[w].c[1] = work[w].d
        /\ work[w].at # "health" => work[w].c = None

\* A container in the table runs, and is the row's own; a row has a commit.
TableOK ==
    \A d \in Deployment :
        /\ rows[d].container # None =>
              /\ rows[d].status = "ready"
              /\ rows[d].container \in alive /\ rows[d].container[1] = d
        /\ Exists(d) <=> sha[d] # None
        /\ rows[d].built => Exists(d)

\* Docker refuses to remove the image of a container.
RunningOK == \A c \in alive : sha[c[1]] \in image

ServingOK ==
    /\ production # None => rows[production].container # None
    /\ rolling # None => rows[rolling].status = "ready"

TargetsOK == \A d \in NewestOf(KeepImages, Ready) : Backed(d)

\* Of the deployments it saw, a sweep keeps those still needed.
SweepsOK ==
    \A s \in Sweeper :
        /\ sweep[s].at \in {"keep", "remove"} => sweep[s].seen \subseteq Present
        /\ sweep[s].at = "keep" =>
              \A d \in sweep[s].seen : Needed(d) => sha[d] \in sweep[s].tags
        /\ sweep[s].at = "remove" =>
              \A d \in sweep[s].seen : Needed(d) => sha[d] \notin sweep[s].tags

ImagesInv ==
    /\ ImagesTypeOK /\ IsFiniteSet(Present)
    /\ WorkOK /\ TableOK /\ RunningOK /\ ServingOK
    /\ BuiltImageStays /\ TargetsOK /\ SweepsOK

LEMMA ImagesFacts ==
    ASSUME ImagesInv
    PROVE  /\ rows \in [Deployment -> Row] /\ production \in Deployment \cup {None}
           /\ sha \in [Deployment -> Sha \cup {None}]
           /\ image \subseteq Sha /\ unseen \subseteq Sha /\ alive \subseteq Container
           /\ work \in [Worker -> [at : {"idle", "room", "build", "built", "launch", "health"},
                                   d : Deployment \cup {None}, c : Container \cup {None}]]
           /\ rolling \in Deployment \cup {None}
           /\ sweep \in [Sweeper -> [at : {"idle", "project", "keep", "remove"},
                                     ptr : Deployment \cup {None}, tags : SUBSET Sha,
                                     seen : SUBSET Deployment]]
           /\ None \notin Deployment /\ None \notin Sha /\ None \notin Container
           /\ KeepImages \in Nat /\ Deployment \subseteq Nat
BY ImagesAssumption, NumberAssumption, NullAssumption DEF ImagesInv, ImagesTypeOK, TableTypeOK

\* The statements of the table that the deploy loop and a rollback make.
LEMMA CreatedIs ==
    ASSUME rows \in [Deployment -> Row], NEW d \in Deployment
    PROVE  \E r \in Row : /\ Created(d, ProductionBranch, "redeploy") = [rows EXCEPT ![d] = r]
                          /\ r.status = "queued" /\ r.container = None
<1> DEFINE mid1 == [NoRow EXCEPT !.status = "queued"]
           mid2 == [mid1 EXCEPT !.ref = ProductionBranch]
           r == [mid2 EXCEPT !.trigger = "redeploy"]
<1>1. mid1 \in Row /\ mid1.status = "queued" /\ mid1.container = None
  BY BranchAssumption DEF NoRow, Row, Status, Trigger, Error
<1> HIDE DEF mid1
<1>2. mid2 \in Row /\ mid2.status = "queued" /\ mid2.container = None
  BY <1>1, BranchAssumption DEF Row
<1> HIDE DEF mid2
<1>3. r \in Row /\ r.status = "queued" /\ r.container = None
  BY <1>2 DEF Row, Trigger
<1>4. Created(d, ProductionBranch, "redeploy") = [rows EXCEPT ![d] = r]
  BY DEF Created, mid1, mid2
<1> QED BY <1>3, <1>4

LEMMA StatementIs ==
    ASSUME rows \in [Deployment -> Row], NEW d \in Deployment
    PROVE  /\ \E r \in Row : /\ MarkedCancelled(d) = [rows EXCEPT ![d] = r]
                             /\ r.status = "cancelled" /\ r.container = rows[d].container
           /\ \A w \in Worker : \E r \in Row :
                 /\ Claimed(d, w) = [rows EXCEPT ![d] = r]
                 /\ r.status = "building" /\ r.container = rows[d].container
           /\ \E r \in Row : /\ MarkedBuilt(d) = [rows EXCEPT ![d] = r]
                             /\ r.status = "deploying" /\ r.container = rows[d].container
           /\ \E r \in Row : /\ MarkedFailed(d) = [rows EXCEPT ![d] = r]
                             /\ r.status = "failed" /\ r.container = rows[d].container
           /\ \A c \in Container : \E r \in Row :
                 /\ MarkedReady(d, c) = [rows EXCEPT ![d] = r]
                 /\ r.status = "ready" /\ r.container = c
           /\ \A c \in Container : \E r \in Row :
                 /\ SetContainer(d, c) = [rows EXCEPT ![d] = r]
                 /\ r.status = rows[d].status /\ r.container = c
<1> USE DEF Row, Status, InFlight, Terminal, Error
<1>1. /\ MarkedCancelled(d) \in [Deployment -> Row]
      /\ MarkedCancelled(d) = [rows EXCEPT ![d] = MarkedCancelled(d)[d]]
      /\ MarkedCancelled(d)[d].status = "cancelled"
      /\ MarkedCancelled(d)[d].container = rows[d].container
  BY ZenonT(40) DEF MarkedCancelled
<1>2. ASSUME NEW w \in Worker
      PROVE  /\ Claimed(d, w) \in [Deployment -> Row]
             /\ Claimed(d, w) = [rows EXCEPT ![d] = Claimed(d, w)[d]]
             /\ Claimed(d, w)[d].status = "building" /\ Claimed(d, w)[d].container = rows[d].container
  BY ZenonT(40) DEF Claimed
<1>3. /\ MarkedBuilt(d) \in [Deployment -> Row]
      /\ MarkedBuilt(d) = [rows EXCEPT ![d] = MarkedBuilt(d)[d]]
      /\ MarkedBuilt(d)[d].status = "deploying" /\ MarkedBuilt(d)[d].container = rows[d].container
  BY ZenonT(40) DEF MarkedBuilt, Built
<1>4. /\ MarkedFailed(d) \in [Deployment -> Row]
      /\ MarkedFailed(d) = [rows EXCEPT ![d] = MarkedFailed(d)[d]]
      /\ MarkedFailed(d)[d].status = "failed" /\ MarkedFailed(d)[d].container = rows[d].container
  BY ZenonT(40) DEF MarkedFailed
<1>5. ASSUME NEW c \in Container
      PROVE  /\ MarkedReady(d, c) \in [Deployment -> Row]
             /\ MarkedReady(d, c) = [rows EXCEPT ![d] = MarkedReady(d, c)[d]]
             /\ MarkedReady(d, c)[d].status = "ready" /\ MarkedReady(d, c)[d].container = c
  BY ZenonT(40) DEF MarkedReady
<1>6. ASSUME NEW c \in Container
      PROVE  /\ SetContainer(d, c) \in [Deployment -> Row]
             /\ SetContainer(d, c) = [rows EXCEPT ![d] = SetContainer(d, c)[d]]
             /\ SetContainer(d, c)[d].status = rows[d].status /\ SetContainer(d, c)[d].container = c
  BY DEF SetContainer
<1> QED BY <1>1, <1>2, <1>3, <1>4, <1>5, <1>6

LEMMA ServedIs ==
    ASSUME NEW table \in [Deployment -> Row], NEW d \in Deployment
    PROVE  /\ Served(table, d) \in [Deployment -> Row]
           /\ Served(table, d)[d] = table[d]
           /\ \A e \in Deployment :
                 /\ Served(table, d)[e].status = table[e].status
                 /\ Served(table, d)[e].built = table[e].built
                 /\ Served(table, d)[e].container \in {None, table[e].container}
<1> DEFINE free == {e \in Deployment \ {d} : table[e].status = "ready" /\ table[e].container # None}
           gone == free \ NewestOf(KeepWarm, free)
<1>1. d \notin gone
  OBVIOUS
<1>2. Served(table, d) = [e \in Deployment |->
                            IF e \in gone THEN [table[e] EXCEPT !.container = None] ELSE table[e]]
  BY DEF Served
<1> HIDE DEF gone
<1>3. \A e \in Deployment :
         /\ [table[e] EXCEPT !.container = None] \in Row
         /\ [table[e] EXCEPT !.container = None].status = table[e].status
         /\ [table[e] EXCEPT !.container = None].built = table[e].built
         /\ [table[e] EXCEPT !.container = None].container = None
  BY DEF Row
<1> QED BY <1>1, <1>2, <1>3

-----------------------------------------------------------------------------
(* The images: what moves the table *)

\* Newer deployments only push older ones out of what is kept.
LEMMA NeededShrinks ==
    ASSUME ImagesInv, IsFiniteSet(Present'),
           \A e \in Deployment :
              /\ rows[e].status = "ready" => rows'[e].status = "ready"
              /\ Exists(e) /\ rows'[e].status \in Waiting => rows[e].status \in Waiting
              /\ rows'[e].status = "ready" => rows[e].status \in {"ready"} \cup InFlight
    PROVE  \A e \in Deployment : Exists(e) /\ Needed(e)' => Needed(e)
<1> SUFFICES ASSUME NEW e \in Deployment, Exists(e), e \in NewestOf(KeepImages, Ready)',
                    rows[e].status \notin Waiting
             PROVE  e \in NewestOf(KeepImages, Ready)
  BY DEF Needed
<1>1. rows'[e].status = "ready" /\ rows[e].status = "ready"
  BY DEF NewestOf, Ready, Waiting, InFlight
<1>2. {x \in Ready : x > e} \subseteq {x \in Ready' : x > e}
  BY DEF Ready
<1>3. IsFiniteSet({x \in Ready' : x > e})
  <2>1. {x \in Ready' : x > e} \subseteq Present'
    BY DEF Ready, Present, Exists
  <2> QED BY <2>1, FS_Subset
<1>4. Cardinality({x \in Ready : x > e}) <= Cardinality({x \in Ready' : x > e})
      /\ IsFiniteSet({x \in Ready : x > e})
  BY <1>2, <1>3, FS_Subset
<1>5. Cardinality({x \in Ready' : x > e}) < KeepImages
  BY DEF NewestOf
<1>6. Cardinality({x \in Ready : x > e}) \in Nat /\ Cardinality({x \in Ready' : x > e}) \in Nat
  BY <1>3, <1>4, FS_CardinalityType
<1>7. Cardinality({x \in Ready : x > e}) < KeepImages
  BY <1>4, <1>5, <1>6, ImagesFacts
<1> QED BY <1>1, <1>7 DEF NewestOf, Ready

\* What is ready stays ready, what waits was waiting, what becomes ready has
\* its image: then what was kept is still enough.
LEMMA TableMoves ==
    ASSUME ImagesInv, rows' \in [Deployment -> Row], IsFiniteSet(Present'),
           \A e \in Deployment :
              /\ rows[e].status = "ready" => rows'[e].status = "ready"
              /\ Exists(e) /\ rows'[e].status \in Waiting => rows[e].status \in Waiting
              /\ rows'[e].status = "ready" => rows[e].status \in {"ready"} \cup InFlight
              /\ rows'[e].status = "ready" /\ rows[e].status # "ready" => Backed(e)
              /\ Exists(e) => Exists(e)' /\ sha'[e] = sha[e],
           UNCHANGED <<image, unseen, sweep>>
    PROVE  TargetsOK' /\ SweepsOK'
<1>1. \A e \in Deployment : Exists(e) /\ Needed(e)' => Needed(e)
  BY NeededShrinks
<1>2. TargetsOK'
  <2> SUFFICES ASSUME NEW e \in Deployment, e \in NewestOf(KeepImages, Ready)'
               PROVE  sha'[e] \in image \cup unseen
    BY DEF TargetsOK, Backed, NewestOf, Ready
  <2>1. rows'[e].status = "ready" /\ Exists(e)
    BY DEF NewestOf, Ready, Exists, InFlight
  <2>2. CASE rows[e].status = "ready"
    <3>1. e \in NewestOf(KeepImages, Ready)
      BY <1>1, <2>1, <2>2 DEF Needed, Waiting, InFlight
    <3> QED BY <2>1, <3>1 DEF ImagesInv, TargetsOK, Backed
  <2>3. CASE rows[e].status # "ready"
    BY <2>1, <2>3 DEF Backed
  <2> QED BY <2>2, <2>3
<1>3. SweepsOK'
  <2> SUFFICES ASSUME NEW s \in Sweeper
               PROVE  /\ sweep[s].at \in {"keep", "remove"} => sweep[s].seen \subseteq Present'
                      /\ sweep[s].at = "keep" =>
                            \A d \in sweep[s].seen : Needed(d)' => sha'[d] \in sweep[s].tags
                      /\ sweep[s].at = "remove" =>
                            \A d \in sweep[s].seen : Needed(d)' => sha'[d] \notin sweep[s].tags
    BY DEF SweepsOK
  <2>1. /\ sweep[s].at \in {"keep", "remove"} => sweep[s].seen \subseteq Present
        /\ sweep[s].at = "keep" =>
              \A d \in sweep[s].seen : Needed(d) => sha[d] \in sweep[s].tags
        /\ sweep[s].at = "remove" =>
              \A d \in sweep[s].seen : Needed(d) => sha[d] \notin sweep[s].tags
    BY DEF ImagesInv, SweepsOK
  <2>2. \A d \in Present : /\ d \in Present' /\ sha'[d] = sha[d]
                           /\ Needed(d)' => Needed(d)
    BY <1>1 DEF Present
  <2> QED BY <2>1, <2>2
<1> QED BY <1>2, <1>3

\* The same when the table stands still.
LEMMA TableRests ==
    ASSUME ImagesInv, UNCHANGED <<rows, sha, image, unseen, sweep>>
    PROVE  TargetsOK' /\ SweepsOK' /\ IsFiniteSet(Present')
BY DEF ImagesInv, TargetsOK, SweepsOK, Needed, NewestOf, Ready, Backed, Present, Exists

\* One row changes, within the deployments there are.
LEMMA OneRow ==
    ASSUME ImagesInv, NEW d \in Deployment, NEW r \in Row, rows' = [rows EXCEPT ![d] = r],
           Exists(d), r.status # "none"
    PROVE  /\ rows' \in [Deployment -> Row] /\ rows'[d] = r
           /\ \A e \in Deployment \ {d} : rows'[e] = rows[e]
           /\ Present' = Present /\ IsFiniteSet(Present')
           /\ \A e \in Deployment : Exists(e) <=> Exists(e)'
<1>1. rows' \in [Deployment -> Row] /\ rows'[d] = r
      /\ \A e \in Deployment \ {d} : rows'[e] = rows[e]
  BY ImagesFacts
<1>2. \A e \in Deployment : Exists(e) <=> Exists(e)'
  BY <1>1 DEF Exists
<1> QED BY <1>1, <1>2 DEF Present, ImagesInv

-----------------------------------------------------------------------------
(* The images: the actions *)

LEMMA QueueStep ==
    ASSUME ImagesInv, NEW d \in Deployment, NEW t \in Sha, Queue(d, t)
    PROVE  ImagesInv'
<1>f. /\ rows \in [Deployment -> Row] /\ sha \in [Deployment -> Sha \cup {None}]
      /\ None \notin Sha /\ image \subseteq Sha /\ None \notin Deployment
      /\ production \in Deployment \cup {None} /\ rolling \in Deployment \cup {None}
      /\ alive \subseteq Container
  BY ImagesFacts
<1>1. PICK r \in Row : /\ rows' = [rows EXCEPT ![d] = r]
                       /\ r.status = "queued" /\ r.container = None
  BY <1>f, CreatedIs DEF Queue
<1>2. /\ ~Exists(d) /\ sha' = [sha EXCEPT ![d] = t]
      /\ UNCHANGED <<production, image, alive, work, rolling, sweep, unseen>>
  BY DEF Queue, IsNextNumber
<1>3. /\ rows' \in [Deployment -> Row] /\ rows'[d] = r
      /\ \A e \in Deployment \ {d} : rows'[e] = rows[e]
      /\ sha' \in [Deployment -> Sha \cup {None}] /\ sha'[d] = t
      /\ \A e \in Deployment \ {d} : sha'[e] = sha[e]
  BY <1>1, <1>2, <1>f
<1>4. rows[d].status = "none" /\ rows[d].container = None /\ sha[d] = None
  BY <1>2 DEF Exists, ImagesInv, TableOK
<1>5. IsFiniteSet(Present')
  <2>1. Present' = Present \cup {d}
    BY <1>1, <1>3 DEF Present, Exists
  <2> QED BY <2>1, FS_AddElement DEF ImagesInv
<1>6. TargetsOK' /\ SweepsOK'
  <2>1. \A e \in Deployment :
              /\ rows[e].status = "ready" => rows'[e].status = "ready"
              /\ Exists(e) /\ rows'[e].status \in Waiting => rows[e].status \in Waiting
              /\ rows'[e].status = "ready" => rows[e].status \in {"ready"} \cup InFlight
              /\ rows'[e].status = "ready" /\ rows[e].status # "ready" => Backed(e)
              /\ Exists(e) => Exists(e)' /\ sha'[e] = sha[e]
    BY <1>1, <1>2, <1>3, <1>4 DEF Exists
  <2> QED BY <1>2, <1>3, <1>5, <2>1, TableMoves
<1>7. ImagesTypeOK'
  BY <1>2, <1>3, <1>f DEF ImagesInv, ImagesTypeOK, TableTypeOK
<1>8. WorkOK' /\ BuiltImageStays'
  <2>1. \A w \in Worker : work[w].at # "idle" =>
              work[w].d \in Deployment \ {d} /\ rows[work[w].d].status \in InFlight
    BY <1>4 DEF ImagesInv, WorkOK, InFlight
  <2>2. WorkOK'
    BY <1>2, <1>3, <2>1 DEF ImagesInv, WorkOK
  <2>3. BuiltImageStays'
    BY <1>2, <1>3, <2>1 DEF ImagesInv, BuiltImageStays
  <2> QED BY <2>2, <2>3
<1>9. TableOK'
  <2> SUFFICES ASSUME NEW e \in Deployment
               PROVE  /\ rows'[e].container # None =>
                            /\ rows'[e].status = "ready"
                            /\ rows'[e].container \in alive /\ rows'[e].container[1] = e
                      /\ rows'[e].status # "none" <=> sha'[e] # None
                      /\ rows'[e].built => rows'[e].status # "none"
    BY <1>2 DEF TableOK, Exists
  <2> QED BY <1>1, <1>3, <1>f DEF ImagesInv, TableOK, Exists
<1>10. RunningOK'
  BY <1>2, <1>3, <1>4, <1>f DEF ImagesInv, RunningOK, Container
<1>11. ServingOK'
  BY <1>2, <1>3, <1>4, <1>f DEF ImagesInv, ServingOK
<1> QED BY <1>5, <1>6, <1>7, <1>8, <1>9, <1>10, <1>11 DEF ImagesInv

\* A deployment that waits goes on without a container, or ends.
LEMMA RowWaits ==
    ASSUME ImagesInv, NEW d \in Deployment, NEW r \in Row, rows' = [rows EXCEPT ![d] = r],
           rows[d].status \in Waiting, r.status \notin {"none", "ready"},
           r.container = rows[d].container,
           UNCHANGED <<production, sha, image, rolling, sweep, unseen>>,
           alive' \subseteq alive,
           \A e \in Deployment : rows[e].container # None => rows[e].container \in alive'
    PROVE  /\ rows' \in [Deployment -> Row] /\ rows'[d] = r
           /\ \A e \in Deployment \ {d} : rows'[e] = rows[e]
           /\ IsFiniteSet(Present') /\ TargetsOK' /\ SweepsOK'
           /\ TableOK' /\ RunningOK' /\ ServingOK'
<1>f. /\ rows \in [Deployment -> Row] /\ None \notin Deployment
      /\ production \in Deployment \cup {None} /\ rolling \in Deployment \cup {None}
  BY ImagesFacts
<1>1. Exists(d) /\ rows[d].status # "ready" /\ rows[d].container = None
  BY DEF Exists, Waiting, InFlight, ImagesInv, TableOK
<1>2. /\ rows' \in [Deployment -> Row] /\ rows'[d] = r
      /\ \A e \in Deployment \ {d} : rows'[e] = rows[e]
      /\ IsFiniteSet(Present') /\ \A e \in Deployment : Exists(e) <=> Exists(e)'
  BY <1>1, OneRow
<1>3. TargetsOK' /\ SweepsOK'
  <2>1. \A e \in Deployment :
              /\ rows[e].status = "ready" => rows'[e].status = "ready"
              /\ Exists(e) /\ rows'[e].status \in Waiting => rows[e].status \in Waiting
              /\ rows'[e].status = "ready" => rows[e].status \in {"ready"} \cup InFlight
              /\ rows'[e].status = "ready" /\ rows[e].status # "ready" => Backed(e)
              /\ Exists(e) => Exists(e)' /\ sha'[e] = sha[e]
    BY <1>1, <1>2
  <2> QED BY <1>2, <2>1, TableMoves
<1>4. TableOK'
  <2> SUFFICES ASSUME NEW e \in Deployment
               PROVE  /\ rows'[e].container # None =>
                            /\ rows'[e].status = "ready"
                            /\ rows'[e].container \in alive' /\ rows'[e].container[1] = e
                      /\ Exists(e) <=> sha[e] # None
                      /\ rows'[e].built => Exists(e)
    BY <1>2 DEF TableOK
  <2> QED BY <1>1, <1>2 DEF ImagesInv, TableOK
<1>5. RunningOK'
  BY DEF ImagesInv, RunningOK
<1>6. ServingOK'
  BY <1>1, <1>2, <1>f DEF ImagesInv, ServingOK
<1> QED BY <1>2, <1>3, <1>4, <1>5, <1>6

LEMMA CancelStep ==
    ASSUME ImagesInv, NEW d \in Deployment, Cancel(d)
    PROVE  ImagesInv'
<1>f. rows \in [Deployment -> Row]
  BY ImagesFacts
<1>1. PICK r \in Row : /\ rows' = [rows EXCEPT ![d] = r]
                       /\ r.status = "cancelled" /\ r.container = rows[d].container
  BY <1>f, StatementIs DEF Cancel
<1>2. /\ rows[d].status = "queued"
      /\ UNCHANGED <<production, sha, image, alive, work, rolling, sweep, unseen>>
  BY DEF Cancel
<1>3. /\ rows' \in [Deployment -> Row] /\ rows'[d] = r
      /\ \A e \in Deployment \ {d} : rows'[e] = rows[e]
      /\ IsFiniteSet(Present') /\ TargetsOK' /\ SweepsOK'
      /\ TableOK' /\ RunningOK' /\ ServingOK'
  <2>1. /\ rows[d].status \in Waiting /\ r.status \notin {"none", "ready"}
        /\ \A e \in Deployment : rows[e].container # None => rows[e].container \in alive'
    BY <1>1, <1>2 DEF Waiting, ImagesInv, TableOK
  <2> QED BY <1>1, <1>2, <2>1, RowWaits
<1>4. ImagesTypeOK'
  BY <1>2, <1>3 DEF ImagesInv, ImagesTypeOK, TableTypeOK
<1>5. \A w \in Worker : work[w].at # "idle" =>
         work[w].d \in Deployment \ {d} /\ rows[work[w].d].status \in InFlight
  BY <1>2 DEF ImagesInv, WorkOK, InFlight
<1>6. WorkOK' /\ BuiltImageStays'
  BY <1>2, <1>3, <1>5 DEF ImagesInv, WorkOK, BuiltImageStays
<1> QED BY <1>3, <1>4, <1>6 DEF ImagesInv

LEMMA ClaimsStep ==
    ASSUME ImagesInv, NEW w \in Worker, NEW d \in Deployment, Claims(w, d)
    PROVE  ImagesInv'
<1>f. /\ rows \in [Deployment -> Row] /\ sha \in [Deployment -> Sha \cup {None}]
      /\ work \in [Worker -> [at : {"idle", "room", "build", "built", "launch", "health"},
                              d : Deployment \cup {None}, c : Container \cup {None}]]
  BY ImagesFacts
<1> DEFINE mid == [Idle EXCEPT !.at = "room"]
           j == [mid EXCEPT !.d = d]
<1>j. /\ j \in [at : {"idle", "room", "build", "built", "launch", "health"},
                d : Deployment \cup {None}, c : Container \cup {None}]
      /\ j.at = "room" /\ j.d = d /\ j.c = None
  <2>1. /\ mid \in [at : {"idle", "room", "build", "built", "launch", "health"},
                    d : Deployment \cup {None}, c : Container \cup {None}]
        /\ mid.at = "room" /\ mid.c = None
    BY DEF Idle
  <2> HIDE DEF mid
  <2> QED BY <2>1
<1>1. PICK r \in Row : /\ rows' = [rows EXCEPT ![d] = r]
                       /\ r.status = "building" /\ r.container = rows[d].container
  BY <1>f, StatementIs DEF Claims
<1>2. /\ rows[d].status = "queued" /\ work[w].at = "idle"
      /\ work' = [work EXCEPT ![w] = j]
      /\ UNCHANGED <<production, sha, image, alive, rolling, sweep, unseen>>
  BY DEF Claims, Claimable
<1> HIDE DEF j
<1>3. /\ rows' \in [Deployment -> Row] /\ rows'[d] = r
      /\ \A e \in Deployment \ {d} : rows'[e] = rows[e]
      /\ IsFiniteSet(Present') /\ TargetsOK' /\ SweepsOK'
      /\ TableOK' /\ RunningOK' /\ ServingOK'
  <2>1. /\ rows[d].status \in Waiting /\ r.status \notin {"none", "ready"}
        /\ \A e \in Deployment : rows[e].container # None => rows[e].container \in alive'
    BY <1>1, <1>2 DEF Waiting, ImagesInv, TableOK
  <2> QED BY <1>1, <1>2, <2>1, RowWaits
<1>4. ImagesTypeOK'
  BY <1>2, <1>3, <1>f, <1>j DEF ImagesInv, ImagesTypeOK, TableTypeOK
<1>5. /\ \A v \in Worker : work[v].at # "idle" =>
            work[v].d \in Deployment \ {d} /\ rows[work[v].d].status \in InFlight
      /\ work'[w] = j /\ \A v \in Worker \ {w} : work'[v] = work[v]
  BY <1>2, <1>f DEF ImagesInv, WorkOK, InFlight
<1>6. WorkOK'
  <2> SUFFICES ASSUME NEW v \in Worker
               PROVE  /\ work'[v].at # "idle" =>
                            /\ work'[v].d \in Deployment /\ rows'[work'[v].d].status \in InFlight
                            /\ \A u \in Worker :
                                  work'[u].at # "idle" /\ work'[u].d = work'[v].d => u = v
                      /\ work'[v].at = "health" =>
                            work'[v].c \in alive /\ work'[v].c[1] = work'[v].d
                      /\ work'[v].at # "health" => work'[v].c = None
    BY <1>2 DEF WorkOK
  <2>1. CASE v = w
    BY <1>1, <1>3, <1>5, <1>j, <2>1 DEF InFlight
  <2>2. CASE v # w
    BY <1>3, <1>5, <1>j, <2>2 DEF ImagesInv, WorkOK
  <2> QED BY <2>1, <2>2
<1>7. BuiltImageStays'
  BY <1>2, <1>5, <1>j DEF ImagesInv, BuiltImageStays
<1> QED BY <1>3, <1>4, <1>6, <1>7 DEF ImagesInv

\* The worker goes on with the deployment it has.
LEMMA WorkGoes ==
    ASSUME ImagesInv, NEW w \in Worker, NEW at \in {"room", "build", "built", "launch"},
           work[w].at \notin {"idle", "health"}, Goes(w, at), UNCHANGED alive,
           rows' \in [Deployment -> Row],
           \A e \in Deployment : rows[e].status \in InFlight => rows'[e].status \in InFlight
    PROVE  /\ WorkOK' /\ work' \in [Worker -> [at : {"idle", "room", "build", "built", "launch",
                                                     "health"},
                                        d : Deployment \cup {None}, c : Container \cup {None}]]
           /\ work'[w].at = at /\ work'[w].d = work[w].d
           /\ \A v \in Worker \ {w} : work'[v] = work[v]
<1>f. work \in [Worker -> [at : {"idle", "room", "build", "built", "launch", "health"},
                           d : Deployment \cup {None}, c : Container \cup {None}]]
  BY ImagesFacts
<1>1. /\ work' \in [Worker -> [at : {"idle", "room", "build", "built", "launch", "health"},
                               d : Deployment \cup {None}, c : Container \cup {None}]]
      /\ work'[w].at = at /\ work'[w].d = work[w].d /\ work'[w].c = work[w].c
      /\ \A v \in Worker \ {w} : work'[v] = work[v]
  BY <1>f DEF Goes
<1>2. \A v \in Worker : /\ work'[v].at = "idle" <=> work[v].at = "idle"
                        /\ work'[v].d = work[v].d /\ work'[v].c = work[v].c
                        /\ work'[v].at = "health" <=> work[v].at = "health"
  BY <1>1
<1>3. WorkOK'
  BY <1>2 DEF ImagesInv, WorkOK
<1> QED BY <1>1, <1>3

LEMMA HasRoomStep ==
    ASSUME ImagesInv, NEW w \in Worker, HasRoom(w)
    PROVE  ImagesInv'
<1>1. /\ work[w].at = "room" /\ Goes(w, "build")
      /\ UNCHANGED <<rows, production, sha, image, alive, rolling, sweep, unseen>>
  BY DEF HasRoom
<1>2. /\ WorkOK' /\ work' \in [Worker -> [at : {"idle", "room", "build", "built", "launch",
                                                 "health"},
                                    d : Deployment \cup {None}, c : Container \cup {None}]]
      /\ work'[w].at = "build" /\ \A v \in Worker \ {w} : work'[v] = work[v]
  BY <1>1, WorkGoes, ImagesFacts
<1>3. BuiltImageStays'
  BY <1>1, <1>2 DEF ImagesInv, BuiltImageStays
<1>4. ImagesTypeOK' /\ TableOK' /\ RunningOK' /\ ServingOK'
  BY <1>1, <1>2 DEF ImagesInv, ImagesTypeOK, TableTypeOK, TableOK, RunningOK, ServingOK, Exists
<1> QED BY <1>1, <1>2, <1>3, <1>4, TableRests DEF ImagesInv

LEMMA BuildsStep ==
    ASSUME ImagesInv, NEW w \in Worker, Builds(w)
    PROVE  ImagesInv'
<1>f. /\ sha \in [Deployment -> Sha \cup {None}] /\ image \subseteq Sha /\ unseen \subseteq Sha
      /\ alive \subseteq Container /\ rows \in [Deployment -> Row]
  BY ImagesFacts
<1> PICK t : t = sha[work[w].d]
  OBVIOUS
<1>1. /\ work[w].at = "build" /\ Goes(w, "built")
      /\ image' = image \cup {t} /\ unseen' = unseen \ {t}
      /\ UNCHANGED <<rows, production, sha, alive, rolling, sweep>>
  BY DEF Builds
<1>2. /\ WorkOK' /\ work' \in [Worker -> [at : {"idle", "room", "build", "built", "launch",
                                                 "health"},
                                    d : Deployment \cup {None}, c : Container \cup {None}]]
      /\ work'[w].at = "built" /\ work'[w].d = work[w].d
      /\ \A v \in Worker \ {w} : work'[v] = work[v]
  BY <1>1, <1>f, WorkGoes
<1>3. t \in Sha
  <2>1. work[w].d \in Deployment /\ rows[work[w].d].status \in InFlight
    BY <1>1 DEF ImagesInv, WorkOK
  <2>2. t # None
    BY <2>1 DEF ImagesInv, TableOK, Exists, InFlight
  <2> QED BY <1>f, <2>1, <2>2
<1>4. image \cup unseen \subseteq image' \cup unseen' /\ t \in image'
  BY <1>1
<1>5. BuiltImageStays'
  BY <1>1, <1>2, <1>4 DEF ImagesInv, BuiltImageStays
<1>6. ImagesTypeOK'
  BY <1>1, <1>2, <1>3, <1>f DEF ImagesInv, ImagesTypeOK, TableTypeOK
<1>7. TableOK' /\ RunningOK' /\ ServingOK' /\ IsFiniteSet(Present')
  BY <1>1 DEF ImagesInv, TableOK, RunningOK, ServingOK, Exists, Present
<1>8. TargetsOK' /\ SweepsOK'
  BY <1>1, <1>4 DEF ImagesInv, TargetsOK, SweepsOK, Needed, NewestOf, Ready, Backed, Present,
                    Exists
<1> QED BY <1>2, <1>5, <1>6, <1>7, <1>8 DEF ImagesInv

LEMMA RecordsBuildStep ==
    ASSUME ImagesInv, NEW w \in Worker, RecordsBuild(w)
    PROVE  ImagesInv'
<1>f. rows \in [Deployment -> Row]
  BY ImagesFacts
<1> PICK d : d = work[w].d
  OBVIOUS
<1>d. d \in Deployment /\ rows[d].status \in InFlight
  BY DEF RecordsBuild, ImagesInv, WorkOK
<1>1. PICK r \in Row : /\ rows' = [rows EXCEPT ![d] = r]
                       /\ r.status = "deploying" /\ r.container = rows[d].container
  BY ZenonT(40), <1>f, <1>d, StatementIs DEF RecordsBuild
<1>2. /\ work[w].at = "built" /\ Goes(w, "launch")
      /\ UNCHANGED <<production, sha, image, alive, rolling, sweep, unseen>>
  BY DEF RecordsBuild
<1>3. /\ rows' \in [Deployment -> Row] /\ rows'[d] = r
      /\ \A e \in Deployment \ {d} : rows'[e] = rows[e]
      /\ IsFiniteSet(Present') /\ TargetsOK' /\ SweepsOK'
      /\ TableOK' /\ RunningOK' /\ ServingOK'
  <2>1. /\ rows[d].status \in Waiting /\ r.status \notin {"none", "ready"}
        /\ \A e \in Deployment : rows[e].container # None => rows[e].container \in alive'
    BY <1>1, <1>2, <1>d DEF Waiting, ImagesInv, TableOK
  <2> QED BY <1>1, <1>2, <1>d, <2>1, RowWaits
<1>4. /\ WorkOK' /\ work' \in [Worker -> [at : {"idle", "room", "build", "built", "launch",
                                                 "health"},
                                    d : Deployment \cup {None}, c : Container \cup {None}]]
      /\ work'[w].at = "launch" /\ work'[w].d = work[w].d
      /\ \A v \in Worker \ {w} : work'[v] = work[v]
  <2>1. \A e \in Deployment : rows[e].status \in InFlight => rows'[e].status \in InFlight
    BY <1>1, <1>3 DEF InFlight
  <2> QED BY <1>2, <1>3, <2>1, WorkGoes
<1>5. ImagesTypeOK'
  BY <1>2, <1>3, <1>4 DEF ImagesInv, ImagesTypeOK, TableTypeOK
<1>6. BuiltImageStays'
  BY <1>2, <1>4 DEF ImagesInv, BuiltImageStays
<1> QED BY <1>3, <1>4, <1>5, <1>6 DEF ImagesInv

LEMMA LaunchesStep ==
    ASSUME ImagesInv, NEW w \in Worker, NEW c \in Container, Launches(w, c)
    PROVE  ImagesInv'
<1>f. /\ alive \subseteq Container /\ None \notin Container
      /\ work \in [Worker -> [at : {"idle", "room", "build", "built", "launch", "health"},
                              d : Deployment \cup {None}, c : Container \cup {None}]]
  BY ImagesFacts
<1>1. /\ work[w].at = "launch" /\ sha[work[w].d] \in image /\ c[1] = work[w].d
      /\ alive' = alive \cup {c}
      /\ work' = [work EXCEPT ![w].at = "health", ![w].c = c]
      /\ UNCHANGED <<rows, production, sha, image, rolling, sweep, unseen>>
  BY DEF Launches, Runs
<1>2. /\ work' \in [Worker -> [at : {"idle", "room", "build", "built", "launch", "health"},
                               d : Deployment \cup {None}, c : Container \cup {None}]]
      /\ work'[w].at = "health" /\ work'[w].c = c /\ work'[w].d = work[w].d
      /\ \A v \in Worker \ {w} : work'[v] = work[v]
  BY <1>1, <1>f
<1>3. WorkOK'
  <2>1. \A v \in Worker : /\ work'[v].at = "idle" <=> work[v].at = "idle"
                          /\ work'[v].d = work[v].d
    BY <1>1, <1>2
  <2>2. \A v \in Worker : /\ work'[v].at = "health" =>
                                work'[v].c \in alive' /\ work'[v].c[1] = work'[v].d
                          /\ work'[v].at # "health" => work'[v].c = None
    BY <1>1, <1>2 DEF ImagesInv, WorkOK
  <2>3. \A v \in Worker : work[v].at # "idle" =>
              /\ work[v].d \in Deployment /\ rows[work[v].d].status \in InFlight
              /\ \A u \in Worker : work[u].at # "idle" /\ work[u].d = work[v].d => u = v
    BY DEF ImagesInv, WorkOK
  <2>4. \A v \in Worker : work'[v].at # "idle" =>
              /\ work'[v].d \in Deployment /\ rows'[work'[v].d].status \in InFlight
              /\ \A u \in Worker : work'[u].at # "idle" /\ work'[u].d = work'[v].d => u = v
    <3>1. rows' = rows
      BY <1>1
    <3> QED BY <2>1, <2>3, <3>1
  <2> QED BY <2>2, <2>4 DEF WorkOK
<1>4. BuiltImageStays'
  BY <1>1, <1>2 DEF ImagesInv, BuiltImageStays
<1>5. ImagesTypeOK'
  BY <1>1, <1>2 DEF ImagesInv, ImagesTypeOK, TableTypeOK
<1>6. TableOK' /\ RunningOK' /\ ServingOK'
  BY <1>1 DEF ImagesInv, TableOK, RunningOK, ServingOK, Exists
<1> QED BY <1>1, <1>3, <1>4, <1>5, <1>6, TableRests DEF ImagesInv

\* A worker is done with its deployment.
LEMMA WorkEnds ==
    ASSUME ImagesInv, NEW w \in Worker, work[w].at # "idle",
           work' = [work EXCEPT ![w] = Idle], UNCHANGED <<sha, image, unseen>>,
           rows' \in [Deployment -> Row],
           \A e \in Deployment \ {work[w].d} :
              rows[e].status \in InFlight => rows'[e].status \in InFlight,
           \A v \in Worker \ {w} : work[v].c \in alive => work[v].c \in alive'
    PROVE  /\ WorkOK' /\ BuiltImageStays'
           /\ work' \in [Worker -> [at : {"idle", "room", "build", "built", "launch", "health"},
                                    d : Deployment \cup {None}, c : Container \cup {None}]]
<1>f. work \in [Worker -> [at : {"idle", "room", "build", "built", "launch", "health"},
                           d : Deployment \cup {None}, c : Container \cup {None}]]
  BY ImagesFacts
<1>1. /\ Idle \in [at : {"idle", "room", "build", "built", "launch", "health"},
                   d : Deployment \cup {None}, c : Container \cup {None}]
      /\ Idle.at = "idle" /\ Idle.c = None
  BY DEF Idle
<1>2. /\ work' \in [Worker -> [at : {"idle", "room", "build", "built", "launch", "health"},
                               d : Deployment \cup {None}, c : Container \cup {None}]]
      /\ work'[w] = Idle /\ \A v \in Worker \ {w} : work'[v] = work[v]
  BY <1>f, <1>1
<1>3. WorkOK'
  <2> SUFFICES ASSUME NEW v \in Worker
               PROVE  /\ work'[v].at # "idle" =>
                            /\ work'[v].d \in Deployment /\ rows'[work'[v].d].status \in InFlight
                            /\ \A u \in Worker :
                                  work'[u].at # "idle" /\ work'[u].d = work'[v].d => u = v
                      /\ work'[v].at = "health" =>
                            work'[v].c \in alive' /\ work'[v].c[1] = work'[v].d
                      /\ work'[v].at # "health" => work'[v].c = None
    BY DEF WorkOK
  <2>1. CASE v = w
    BY <1>1, <1>2, <2>1
  <2>2. CASE v # w
    <3>1. work[v].at # "idle" => work[v].d # work[w].d
      BY <2>2 DEF ImagesInv, WorkOK
    <3> QED BY <1>1, <1>2, <2>2, <3>1 DEF ImagesInv, WorkOK
  <2> QED BY <2>1, <2>2
<1>4. BuiltImageStays'
  BY <1>1, <1>2 DEF ImagesInv, BuiltImageStays
<1> QED BY <1>2, <1>3, <1>4

LEMMA FailsStep ==
    ASSUME ImagesInv, NEW w \in Worker, Fails(w)
    PROVE  ImagesInv'
<1>f. rows \in [Deployment -> Row] /\ alive \subseteq Container /\ None \notin Container
  BY ImagesFacts
<1> PICK d : d = work[w].d
  OBVIOUS
<1> PICK c : c = work[w].c
  OBVIOUS
<1>d. /\ work[w].at # "idle" /\ d \in Deployment /\ rows[d].status \in InFlight
      /\ c \in alive => c[1] = d
  BY <1>f DEF Fails, ImagesInv, WorkOK
<1>1. PICK r \in Row : /\ rows' = [rows EXCEPT ![d] = r]
                       /\ r.status = "failed" /\ r.container = rows[d].container
  BY ZenonT(40), <1>f, <1>d, StatementIs DEF Fails
<1>2. /\ alive' = alive \ {c} /\ work' = [work EXCEPT ![w] = Idle]
      /\ UNCHANGED <<production, sha, image, rolling, sweep, unseen>>
  BY DEF Fails
<1>3. /\ rows' \in [Deployment -> Row] /\ rows'[d] = r
      /\ \A e \in Deployment \ {d} : rows'[e] = rows[e]
      /\ IsFiniteSet(Present') /\ TargetsOK' /\ SweepsOK'
      /\ TableOK' /\ RunningOK' /\ ServingOK'
  <2>1. ASSUME NEW e \in Deployment, rows[e].container # None
        PROVE  rows[e].container \in alive'
    <3>1. /\ rows[e].status = "ready" /\ rows[e].container \in alive
          /\ rows[e].container[1] = e
      BY <2>1 DEF ImagesInv, TableOK
    <3>2. e # d
      BY <1>d, <3>1 DEF InFlight
    <3> QED BY <1>2, <1>d, <3>1, <3>2
  <2>2. rows[d].status \in Waiting /\ r.status \notin {"none", "ready"} /\ alive' \subseteq alive
    BY <1>1, <1>2, <1>d DEF Waiting
  <2> QED BY <1>1, <1>2, <1>d, <2>1, <2>2, RowWaits
<1>4. /\ WorkOK' /\ BuiltImageStays'
      /\ work' \in [Worker -> [at : {"idle", "room", "build", "built", "launch", "health"},
                               d : Deployment \cup {None}, c : Container \cup {None}]]
  <2>1. ASSUME NEW v \in Worker \ {w}, work[v].c \in alive
        PROVE  work[v].c \in alive'
    <3>1. work[v].at = "health" /\ work[v].c[1] = work[v].d
      BY <1>f, <2>1 DEF ImagesInv, WorkOK
    <3>2. work[v].d # d
      BY <1>d, <3>1 DEF ImagesInv, WorkOK
    <3> QED BY <1>2, <1>d, <2>1, <3>1, <3>2
  <2> QED BY <1>2, <1>3, <1>d, <2>1, WorkEnds
<1>5. ImagesTypeOK'
  BY <1>2, <1>3, <1>4, <1>f DEF ImagesInv, ImagesTypeOK, TableTypeOK
<1> QED BY <1>3, <1>4, <1>5 DEF ImagesInv

\* Production moves to a deployment whose container runs.
LEMMA MovesProduction ==
    ASSUME ImagesInv, NEW d \in Deployment, NEW r \in Row,
           rows' = Served([rows EXCEPT ![d] = r], d), production' = d,
           r.status = "ready", r.container # None, r.container \in alive',
           r.container[1] = d,
           rows[d].status = "ready" \/ (rows[d].status \in InFlight /\ Backed(d)),
           alive \subseteq alive', \A c \in alive' : sha[c[1]] \in image,
           rolling' \in {rolling, None}, UNCHANGED <<sha, image, unseen, sweep>>
    PROVE  /\ rows' \in [Deployment -> Row]
           /\ \A e \in Deployment \ {d} : rows'[e].status = rows[e].status
           /\ IsFiniteSet(Present') /\ TargetsOK' /\ SweepsOK'
           /\ TableOK' /\ RunningOK' /\ ServingOK'
<1>f. /\ rows \in [Deployment -> Row] /\ rolling \in Deployment \cup {None}
      /\ None \notin Deployment
  BY ImagesFacts
<1> DEFINE table == [rows EXCEPT ![d] = r]
<1>1. /\ table \in [Deployment -> Row] /\ table[d] = r
      /\ \A e \in Deployment \ {d} : table[e] = rows[e]
  BY <1>f
<1>s. rows' = Served(table, d)
  OBVIOUS
<1> HIDE DEF table
<1>2. /\ rows' \in [Deployment -> Row] /\ rows'[d] = r
      /\ \A e \in Deployment \ {d} :
            /\ rows'[e].status = rows[e].status
            /\ rows'[e].built = rows[e].built
            /\ rows'[e].container \in {None, rows[e].container}
  <2>1. table \in [Deployment -> Row]
    BY <1>1
  <2>2. /\ Served(table, d) \in [Deployment -> Row]
        /\ Served(table, d)[d] = table[d]
        /\ \A e \in Deployment :
              /\ Served(table, d)[e].status = table[e].status
              /\ Served(table, d)[e].built = table[e].built
              /\ Served(table, d)[e].container \in {None, table[e].container}
    BY <2>1, ServedIs
  <2>3. /\ rows' \in [Deployment -> Row] /\ rows'[d] = table[d]
        /\ \A e \in Deployment :
              /\ rows'[e].status = table[e].status
              /\ rows'[e].built = table[e].built
              /\ rows'[e].container \in {None, table[e].container}
    BY <1>s, <2>2
  <2> QED BY ZenonT(40), <1>1, <2>3
<1>3. \A e \in Deployment : Exists(e) <=> Exists(e)'
  BY <1>2 DEF Exists, InFlight
<1>4. IsFiniteSet(Present')
  <2>1. Present' = Present
    BY <1>3 DEF Present
  <2> QED BY <2>1 DEF ImagesInv
<1>5. TargetsOK' /\ SweepsOK'
  <2>1. \A e \in Deployment :
              /\ rows[e].status = "ready" => rows'[e].status = "ready"
              /\ Exists(e) /\ rows'[e].status \in Waiting => rows[e].status \in Waiting
              /\ rows'[e].status = "ready" => rows[e].status \in {"ready"} \cup InFlight
              /\ rows'[e].status = "ready" /\ rows[e].status # "ready" => Backed(e)
              /\ Exists(e) => Exists(e)' /\ sha'[e] = sha[e]
    BY <1>2, <1>3 DEF Waiting, InFlight
  <2> QED BY <1>2, <1>4, <2>1, TableMoves
<1>6. TableOK'
  <2> SUFFICES ASSUME NEW e \in Deployment
               PROVE  /\ rows'[e].container # None =>
                            /\ rows'[e].status = "ready"
                            /\ rows'[e].container \in alive' /\ rows'[e].container[1] = e
                      /\ Exists(e) <=> sha[e] # None
                      /\ rows'[e].built => Exists(e)
    BY <1>3 DEF TableOK
  <2>1. /\ rows[e].container # None =>
              /\ rows[e].status = "ready"
              /\ rows[e].container \in alive /\ rows[e].container[1] = e
        /\ Exists(e) <=> sha[e] # None
        /\ rows[e].built => Exists(e)
    BY DEF ImagesInv, TableOK
  <2>2. CASE e = d
    BY <1>2, <1>3, <2>1, <2>2 DEF Exists, InFlight
  <2>3. CASE e # d
    BY <1>2, <2>1, <2>3
  <2> QED BY <2>2, <2>3
<1>7. RunningOK'
  BY DEF RunningOK
<1>8. ServingOK'
  <2>1. rolling' # None => rows[rolling'].status = "ready"
    BY DEF ImagesInv, ServingOK
  <2> QED BY <1>2, <1>f, <2>1 DEF ServingOK
<1> QED BY <1>2, <1>4, <1>5, <1>6, <1>7, <1>8

LEMMA ServesStep ==
    ASSUME ImagesInv, NEW w \in Worker, Serves(w)
    PROVE  ImagesInv'
<1>f. /\ rows \in [Deployment -> Row] /\ alive \subseteq Container /\ None \notin Container
  BY ImagesFacts
<1> PICK d : d = work[w].d
  OBVIOUS
<1> PICK c : c = work[w].c
  OBVIOUS
<1>d. /\ work[w].at = "health" /\ d \in Deployment /\ rows[d].status \in InFlight
      /\ c \in alive /\ c[1] = d /\ c \in Container
  BY <1>f DEF Serves, ImagesInv, WorkOK
<1>1. PICK r \in Row : /\ MarkedReady(d, c) = [rows EXCEPT ![d] = r]
                       /\ r.status = "ready" /\ r.container = c
  BY <1>f, <1>d, StatementIs
<1>2. /\ production' = d /\ rows' = Served([rows EXCEPT ![d] = r], d)
      /\ work' = [work EXCEPT ![w] = Idle]
      /\ UNCHANGED <<sha, image, alive, rolling, sweep, unseen>>
  BY <1>1 DEF Serves
<1>3. /\ rows' \in [Deployment -> Row]
      /\ \A e \in Deployment \ {d} : rows'[e].status = rows[e].status
      /\ IsFiniteSet(Present') /\ TargetsOK' /\ SweepsOK'
      /\ TableOK' /\ RunningOK' /\ ServingOK'
  <2>1. \A x \in alive : sha[x[1]] \in image
    BY DEF ImagesInv, RunningOK
  <2>2. Backed(d)
    BY <1>d, <2>1 DEF Backed
  <2>3. /\ r.container # None /\ r.container \in alive' /\ r.container[1] = d
        /\ alive \subseteq alive' /\ \A x \in alive' : sha[x[1]] \in image
        /\ rolling' \in {rolling, None}
    BY <1>1, <1>2, <1>d, <1>f, <2>1
  <2> QED BY <1>1, <1>2, <1>d, <2>2, <2>3, MovesProduction
<1>4. /\ WorkOK' /\ BuiltImageStays'
      /\ work' \in [Worker -> [at : {"idle", "room", "build", "built", "launch", "health"},
                               d : Deployment \cup {None}, c : Container \cup {None}]]
  <2>1. \A e \in Deployment \ {work[w].d} :
           rows[e].status \in InFlight => rows'[e].status \in InFlight
    BY <1>3
  <2> QED BY <1>2, <1>3, <1>d, <2>1, WorkEnds
<1>5. ImagesTypeOK'
  BY <1>2, <1>3, <1>4, <1>d DEF ImagesInv, ImagesTypeOK, TableTypeOK
<1> QED BY <1>3, <1>4, <1>5 DEF ImagesInv

\* Work goes on beside a rollback, which takes nothing from it.
LEMMA WorkRests ==
    ASSUME ImagesInv, UNCHANGED <<work, sha, image, unseen>>, alive \subseteq alive',
           NEW d, rows[d].status = "ready",
           \A e \in Deployment \ {d} : rows'[e].status = rows[e].status
    PROVE  WorkOK' /\ BuiltImageStays'
<1>1. \A w \in Worker : work[w].at # "idle" =>
         work[w].d \in Deployment \ {d} /\ rows[work[w].d].status \in InFlight
  BY DEF ImagesInv, WorkOK, InFlight
<1> QED BY <1>1 DEF ImagesInv, WorkOK, BuiltImageStays

LEMMA RollsBackStep ==
    ASSUME ImagesInv, NEW d \in Deployment, RollsBack(d)
    PROVE  ImagesInv'
<1>f. rows \in [Deployment -> Row]
  BY ImagesFacts
<1>1. /\ rows[d].status = "ready" /\ UNCHANGED <<sha, image, alive, work, sweep, unseen>>
  BY DEF RollsBack, Promotable
<1>2. CASE rows[d].container # None
  <2>1. production' = d /\ rows' = Served(rows, d) /\ rolling' = rolling
    BY <1>2 DEF RollsBack
  <2> PICK r : r = rows[d]
    OBVIOUS
  <2>2. r \in Row /\ rows = [rows EXCEPT ![d] = r]
    BY <1>f
  <2>3. /\ r.status = "ready" /\ r.container # None /\ r.container \in alive'
        /\ r.container[1] = d /\ alive \subseteq alive'
        /\ \A c \in alive' : sha[c[1]] \in image
    BY <1>1, <1>2 DEF ImagesInv, TableOK, RunningOK
  <2>4. /\ rows' \in [Deployment -> Row]
        /\ \A e \in Deployment \ {d} : rows'[e].status = rows[e].status
        /\ IsFiniteSet(Present') /\ TargetsOK' /\ SweepsOK'
        /\ TableOK' /\ RunningOK' /\ ServingOK'
    BY <1>1, <2>1, <2>2, <2>3, MovesProduction
  <2>5. WorkOK' /\ BuiltImageStays'
    BY <1>1, <2>3, <2>4, WorkRests
  <2>6. ImagesTypeOK'
    BY <1>1, <2>1, <2>4 DEF ImagesInv, ImagesTypeOK, TableTypeOK
  <2> QED BY <2>4, <2>5, <2>6 DEF ImagesInv
<1>3. CASE rows[d].container = None
  <2>1. rolling' = d /\ UNCHANGED <<rows, production>>
    BY <1>3 DEF RollsBack
  <2>2. /\ ImagesTypeOK' /\ WorkOK' /\ TableOK' /\ RunningOK' /\ ServingOK' /\ BuiltImageStays'
    BY <1>1, <2>1 DEF ImagesInv, ImagesTypeOK, TableTypeOK, WorkOK, TableOK, RunningOK,
                      ServingOK, BuiltImageStays, Exists
  <2> QED BY <1>1, <2>1, <2>2, TableRests DEF ImagesInv
<1> QED BY <1>2, <1>3

LEMMA RelaunchesStep ==
    ASSUME ImagesInv, NEW c \in Container, Relaunches(c)
    PROVE  ImagesInv'
<1>f. /\ rows \in [Deployment -> Row] /\ alive \subseteq Container /\ None \notin Container
      /\ rolling \in Deployment \cup {None}
  BY ImagesFacts
<1> PICK d : d = rolling
  OBVIOUS
<1>d. d \in Deployment /\ rows[d].status = "ready"
  BY <1>f DEF Relaunches, ImagesInv, ServingOK
<1>1. PICK r \in Row : /\ SetContainer(d, c) = [rows EXCEPT ![d] = r]
                       /\ r.status = rows[d].status /\ r.container = c
  BY <1>f, <1>d, StatementIs
<1>2. /\ sha[d] \in image /\ c[1] = d /\ alive' = alive \cup {c}
      /\ production' = d /\ rows' = Served([rows EXCEPT ![d] = r], d) /\ rolling' = None
      /\ UNCHANGED <<sha, image, work, sweep, unseen>>
  BY <1>1 DEF Relaunches, Runs
<1>3. /\ rows' \in [Deployment -> Row]
      /\ \A e \in Deployment \ {d} : rows'[e].status = rows[e].status
      /\ IsFiniteSet(Present') /\ TargetsOK' /\ SweepsOK'
      /\ TableOK' /\ RunningOK' /\ ServingOK'
  <2>1. /\ r.status = "ready" /\ r.container # None /\ r.container \in alive'
        /\ r.container[1] = d
        /\ alive \subseteq alive' /\ \A x \in alive' : sha[x[1]] \in image
        /\ rolling' \in {rolling, None}
    BY <1>1, <1>2, <1>d, <1>f DEF ImagesInv, RunningOK
  <2> QED BY <1>2, <1>d, <2>1, MovesProduction
<1>4. WorkOK' /\ BuiltImageStays'
  <2>1. alive \subseteq alive'
    BY <1>2
  <2> QED BY <1>2, <1>3, <1>d, <2>1, WorkRests
<1>5. ImagesTypeOK'
  BY <1>2, <1>3, <1>d DEF ImagesInv, ImagesTypeOK, TableTypeOK
<1> QED BY <1>3, <1>4, <1>5 DEF ImagesInv

LEMMA GivesUpStep ==
    ASSUME ImagesInv, GivesUp
    PROVE  ImagesInv'
<1>1. rolling' = None /\ UNCHANGED <<rows, production, sha, image, alive, work, sweep, unseen>>
  BY DEF GivesUp
<1>2. /\ ImagesTypeOK' /\ WorkOK' /\ TableOK' /\ RunningOK' /\ ServingOK' /\ BuiltImageStays'
  BY <1>1 DEF ImagesInv, ImagesTypeOK, TableTypeOK, WorkOK, TableOK, RunningOK, ServingOK,
              BuiltImageStays, Exists
<1> QED BY <1>1, <1>2, TableRests DEF ImagesInv

LEMMA ExitsStep ==
    ASSUME ImagesInv, NEW c \in Container, Exits(c)
    PROVE  ImagesInv'
<1>1. /\ \A d \in Deployment : rows[d].container # c
      /\ \A w \in Worker : work[w].c # c
      /\ alive' = alive \ {c}
      /\ UNCHANGED <<rows, production, sha, image, work, rolling, sweep, unseen>>
  BY DEF Exits
<1>2. ImagesTypeOK' /\ RunningOK' /\ ServingOK' /\ BuiltImageStays'
  BY <1>1 DEF ImagesInv, ImagesTypeOK, TableTypeOK, RunningOK, ServingOK, BuiltImageStays
<1>3. WorkOK'
  BY <1>1 DEF ImagesInv, WorkOK
<1>4. TableOK'
  BY <1>1 DEF ImagesInv, TableOK, Exists
<1> QED BY <1>1, <1>2, <1>3, <1>4, TableRests DEF ImagesInv

\* A sweep reads, and nothing else changes.
LEMMA SweepReads ==
    ASSUME ImagesInv, NEW s \in Sweeper,
           NEW x \in [at : {"idle", "project", "keep", "remove"}, ptr : Deployment \cup {None},
                      tags : SUBSET Sha, seen : SUBSET Deployment],
           sweep' = [sweep EXCEPT ![s] = x],
           UNCHANGED <<rows, production, sha, image, alive, work, rolling, unseen>>,
           x.at \in {"keep", "remove"} => x.seen \subseteq Present,
           x.at = "keep" => \A d \in x.seen : Needed(d) => sha[d] \in x.tags,
           x.at = "remove" => \A d \in x.seen : Needed(d) => sha[d] \notin x.tags
    PROVE  ImagesInv'
<1>1. /\ sweep' \in [Sweeper -> [at : {"idle", "project", "keep", "remove"},
                                 ptr : Deployment \cup {None}, tags : SUBSET Sha,
                                 seen : SUBSET Deployment]]
      /\ sweep'[s] = x /\ \A v \in Sweeper \ {s} : sweep'[v] = sweep[v]
  BY ImagesFacts
<1>2. ImagesTypeOK'
  BY <1>1 DEF ImagesInv, ImagesTypeOK, TableTypeOK
<1>3. /\ WorkOK' /\ TableOK' /\ RunningOK' /\ ServingOK' /\ BuiltImageStays' /\ TargetsOK'
      /\ IsFiniteSet(Present')
  BY DEF ImagesInv, WorkOK, TableOK, RunningOK, ServingOK, BuiltImageStays, Exists, TargetsOK,
         Present, NewestOf, Ready, Backed
<1>4. SweepsOK'
  <2>1. Present' = Present /\ \A d : Needed(d)' <=> Needed(d)
    BY DEF Present, Exists, Needed, NewestOf, Ready
  <2>2. ASSUME NEW v \in Sweeper
        PROVE  /\ sweep'[v].at \in {"keep", "remove"} => sweep'[v].seen \subseteq Present
               /\ sweep'[v].at = "keep" =>
                     \A d \in sweep'[v].seen : Needed(d) => sha[d] \in sweep'[v].tags
               /\ sweep'[v].at = "remove" =>
                     \A d \in sweep'[v].seen : Needed(d) => sha[d] \notin sweep'[v].tags
    <3>1. CASE v = s
      BY <1>1, <3>1
    <3>2. CASE v # s
      BY <1>1, <3>2 DEF ImagesInv, SweepsOK
    <3> QED BY <3>1, <3>2
  <2> QED BY <2>1, <2>2 DEF SweepsOK
<1> QED BY <1>2, <1>3, <1>4 DEF ImagesInv

LEMMA NoSweepIs ==
    /\ NoSweep \in [at : {"idle", "project", "keep", "remove"}, ptr : Deployment \cup {None},
                    tags : SUBSET Sha, seen : SUBSET Deployment]
    /\ NoSweep.at = "idle"
BY DEF NoSweep

LEMMA SweepBeginsStep ==
    ASSUME ImagesInv, NEW s \in Sweeper, SweepBegins(s)
    PROVE  ImagesInv'
<1> DEFINE mid == [NoSweep EXCEPT !.at = "project"]
           x == [mid EXCEPT !.ptr = production]
<1>1. /\ mid \in [at : {"idle", "project", "keep", "remove"}, ptr : Deployment \cup {None},
                  tags : SUBSET Sha, seen : SUBSET Deployment]
      /\ mid.at = "project"
  BY NoSweepIs
<1>2. sweep' = [sweep EXCEPT ![s] = x]
      /\ UNCHANGED <<rows, production, sha, image, alive, work, rolling, unseen>>
  BY DEF SweepBegins
<1> HIDE DEF mid
<1>3. /\ x \in [at : {"idle", "project", "keep", "remove"}, ptr : Deployment \cup {None},
                tags : SUBSET Sha, seen : SUBSET Deployment]
      /\ x.at = "project"
  BY <1>1, ImagesFacts
<1> HIDE DEF x
<1>4. x.at \notin {"keep", "remove"}
  BY <1>3
<1> QED BY <1>2, <1>3, <1>4, SweepReads

LEMMA KeptIs ==
    ASSUME ImagesInv, NEW ptr
    PROVE  /\ \A d \in Deployment : Needed(d) => sha[d] \in Kept(ptr)
           /\ \A d \in Present : sha[d] \in Sha
<1>1. \A d \in Present : sha[d] \in Sha
  BY ImagesFacts DEF ImagesInv, TableOK, Present
<1>2. \A d \in Deployment : Needed(d) => sha[d] \in Kept(ptr)
  BY DEF Needed, Kept, Waiting
<1> QED BY <1>1, <1>2

LEMMA SweepKeepsStep ==
    ASSUME ImagesInv, NEW s \in Sweeper, SweepKeeps(s)
    PROVE  ImagesInv'
<1>f. /\ sweep[s] \in [at : {"idle", "project", "keep", "remove"}, ptr : Deployment \cup {None},
                       tags : SUBSET Sha, seen : SUBSET Deployment]
      /\ sweep \in [Sweeper -> [at : {"idle", "project", "keep", "remove"},
                                 ptr : Deployment \cup {None}, tags : SUBSET Sha,
                                 seen : SUBSET Deployment]]
  BY ImagesFacts
<1> PICK kept : kept = Kept(sweep[s].ptr)
  OBVIOUS
<1> PICK seen : seen = Present
  OBVIOUS
<1>1. kept \in SUBSET Sha /\ seen \in SUBSET Deployment
  <2>1. Kept(sweep[s].ptr) \subseteq {sha[d] : d \in Present}
    BY DEF Kept, Present, ImagesInv, TableOK, Exists, NewestOf, Ready, FailedBuilt, InFlight
  <2> QED BY <2>1, KeptIs DEF Present
<1>2. /\ sweep' = [sweep EXCEPT ![s].at = "keep", ![s].tags = kept, ![s].seen = seen]
      /\ UNCHANGED <<rows, production, sha, image, alive, work, rolling, unseen>>
  BY DEF SweepKeeps, Present
<1>3. /\ sweep' \in [Sweeper -> [at : {"idle", "project", "keep", "remove"},
                                 ptr : Deployment \cup {None}, tags : SUBSET Sha,
                                 seen : SUBSET Deployment]]
      /\ sweep'[s].at = "keep" /\ sweep'[s].tags = kept /\ sweep'[s].seen = seen
      /\ sweep' = [sweep EXCEPT ![s] = sweep'[s]]
  BY <1>1, <1>2, <1>f
<1> PICK x : x = sweep'[s]
  OBVIOUS
<1>4. /\ x \in [at : {"idle", "project", "keep", "remove"}, ptr : Deployment \cup {None},
                tags : SUBSET Sha, seen : SUBSET Deployment]
      /\ x.at = "keep" /\ x.tags = kept /\ x.seen = seen
      /\ sweep' = [sweep EXCEPT ![s] = x]
  BY <1>3
<1>5. \A d \in seen : Needed(d) => sha[d] \in kept
  BY KeptIs DEF Present
<1> QED BY <1>2, <1>3, <1>4, <1>5, SweepReads

LEMMA SweepListsStep ==
    ASSUME ImagesInv, NEW s \in Sweeper, SweepLists(s)
    PROVE  ImagesInv'
<1>f. /\ sweep[s] \in [at : {"idle", "project", "keep", "remove"}, ptr : Deployment \cup {None},
                       tags : SUBSET Sha, seen : SUBSET Deployment]
      /\ sweep \in [Sweeper -> [at : {"idle", "project", "keep", "remove"},
                                 ptr : Deployment \cup {None}, tags : SUBSET Sha,
                                 seen : SUBSET Deployment]]
      /\ image \subseteq Sha
  BY ImagesFacts
<1>1. /\ sweep[s].at = "keep"
      /\ sweep' = [sweep EXCEPT ![s].at = "remove", ![s].tags = image \ @]
      /\ UNCHANGED <<rows, production, sha, image, alive, work, rolling, unseen>>
  BY DEF SweepLists
<1>2. /\ sweep' \in [Sweeper -> [at : {"idle", "project", "keep", "remove"},
                                 ptr : Deployment \cup {None}, tags : SUBSET Sha,
                                 seen : SUBSET Deployment]]
      /\ sweep'[s].at = "remove" /\ sweep'[s].tags = image \ sweep[s].tags
      /\ sweep'[s].seen = sweep[s].seen
      /\ sweep' = [sweep EXCEPT ![s] = sweep'[s]]
  BY <1>1, <1>f
<1> PICK x : x = sweep'[s]
  OBVIOUS
<1>3. /\ x \in [at : {"idle", "project", "keep", "remove"}, ptr : Deployment \cup {None},
                tags : SUBSET Sha, seen : SUBSET Deployment]
      /\ x.at = "remove" /\ x.tags = image \ sweep[s].tags /\ x.seen = sweep[s].seen
      /\ sweep' = [sweep EXCEPT ![s] = x]
  BY <1>2
<1>4. /\ sweep[s].seen \subseteq Present
      /\ \A d \in sweep[s].seen : Needed(d) => sha[d] \in sweep[s].tags
  BY <1>1 DEF ImagesInv, SweepsOK
<1>5. /\ x.seen \subseteq Present /\ \A d \in x.seen : Needed(d) => sha[d] \notin x.tags
      /\ x.at # "keep"
  BY <1>3, <1>4
<1>6. UNCHANGED <<rows, production, sha, image, alive, work, rolling, unseen>>
  BY <1>1
<1> QED BY <1>3, <1>5, <1>6, SweepReads

\* What a sweep removes no container uses, and nothing it saw needs.
LEMMA SweepRemovesStep ==
    ASSUME ImagesInv, NEW s \in Sweeper, SweepRemoves(s)
    PROVE  ImagesInv'
<1>f. /\ sweep[s] \in [at : {"idle", "project", "keep", "remove"}, ptr : Deployment \cup {None},
                       tags : SUBSET Sha, seen : SUBSET Deployment]
      /\ sweep \in [Sweeper -> [at : {"idle", "project", "keep", "remove"},
                                 ptr : Deployment \cup {None}, tags : SUBSET Sha,
                                 seen : SUBSET Deployment]]
      /\ image \subseteq Sha /\ unseen \subseteq Sha
  BY ImagesFacts
<1>1. sweep[s].at = "remove" /\ UNCHANGED <<rows, production, sha, alive, work, rolling>>
  BY DEF SweepRemoves
<1>s. /\ sweep[s].seen \subseteq Present
      /\ \A d \in sweep[s].seen : Needed(d) => sha[d] \notin sweep[s].tags
  BY <1>1 DEF ImagesInv, SweepsOK
<1>2. ASSUME sweep' = [sweep EXCEPT ![s] = NoSweep], UNCHANGED <<image, unseen>>
      PROVE  ImagesInv'
  <2>1. NoSweep.at \notin {"keep", "remove"}
    BY NoSweepIs
  <2> QED BY <1>1, <1>2, <2>1, NoSweepIs, SweepReads
<1>3. ASSUME NEW t \in sweep[s].tags,
             sweep' = [sweep EXCEPT ![s].tags = @ \ {t}],
             image' = IF Used(t) THEN image ELSE image \ {t},
             unseen' = IF ~Used(t) /\ Unseen(t, s) THEN unseen \cup {t} ELSE unseen
      PROVE  ImagesInv'
  <2>1. /\ sweep' \in [Sweeper -> [at : {"idle", "project", "keep", "remove"},
                                   ptr : Deployment \cup {None}, tags : SUBSET Sha,
                                   seen : SUBSET Deployment]]
        /\ sweep'[s].at = "remove" /\ sweep'[s].seen = sweep[s].seen
        /\ sweep'[s].tags = sweep[s].tags \ {t}
        /\ \A v \in Sweeper \ {s} : sweep'[v] = sweep[v]
    BY <1>1, <1>3, <1>f
  <2>2. \A d : Needed(d)' <=> Needed(d)
    BY <1>1 DEF Needed, NewestOf, Ready
  <2>3. ASSUME NEW d \in Deployment, Needed(d), Backed(d)
        PROVE  sha[d] \in image' \cup unseen'
    <3>1. CASE sha[d] # t
      BY <1>3, <2>3, <3>1 DEF Backed
    <3>2. CASE sha[d] = t
      <4>1. d \notin sweep[s].seen
        BY <1>s, <2>3, <3>2
      <4>2. Unseen(t, s)
        BY <3>2, <4>1 DEF Unseen
      <4> QED BY <1>3, <2>3, <3>2, <4>2 DEF Backed
    <3> QED BY <3>1, <3>2
  <2>4. TargetsOK'
    <3> SUFFICES ASSUME NEW d \in Deployment, d \in NewestOf(KeepImages, Ready)
                 PROVE  sha[d] \in image' \cup unseen'
      BY <1>1 DEF TargetsOK, NewestOf, Ready, Backed
    <3> QED BY <2>3 DEF ImagesInv, TargetsOK, Needed
  <2>5. BuiltImageStays'
    <3> SUFFICES ASSUME NEW w \in Worker, work[w].at \in {"built", "launch"}
                 PROVE  sha[work[w].d] \in image' \cup unseen'
      BY <1>1 DEF BuiltImageStays
    <3>1. work[w].d \in Deployment /\ rows[work[w].d].status \in InFlight
      BY DEF ImagesInv, WorkOK
    <3>2. Needed(work[w].d) /\ Backed(work[w].d)
      BY <3>1 DEF Needed, Waiting, Backed, ImagesInv, BuiltImageStays
    <3> QED BY <2>3, <3>1, <3>2
  <2>6. RunningOK'
    BY <1>1, <1>3 DEF ImagesInv, RunningOK, Used
  <2>7. SweepsOK'
    <3>1. Present' = Present
      BY <1>1 DEF Present, Exists
    <3>2. ASSUME NEW v \in Sweeper
          PROVE  /\ sweep'[v].at \in {"keep", "remove"} => sweep'[v].seen \subseteq Present
                 /\ sweep'[v].at = "keep" =>
                       \A d \in sweep'[v].seen : Needed(d) => sha[d] \in sweep'[v].tags
                 /\ sweep'[v].at = "remove" =>
                       \A d \in sweep'[v].seen : Needed(d) => sha[d] \notin sweep'[v].tags
      <4>1. CASE v = s
        BY <1>s, <2>1, <4>1
      <4>2. CASE v # s
        BY <2>1, <4>2 DEF ImagesInv, SweepsOK
      <4> QED BY <4>1, <4>2
    <3> QED BY <1>1, <2>2, <3>1, <3>2 DEF SweepsOK
  <2>8. ImagesTypeOK'
    <3>1. image' \subseteq Sha /\ unseen' \subseteq Sha
      BY <1>3, <1>f
    <3> QED BY <1>1, <2>1, <3>1 DEF ImagesInv, ImagesTypeOK, TableTypeOK
  <2>9. WorkOK' /\ TableOK' /\ ServingOK' /\ IsFiniteSet(Present')
    BY <1>1 DEF ImagesInv, WorkOK, TableOK, ServingOK, Present, Exists
  <2> QED BY <2>4, <2>5, <2>6, <2>7, <2>8, <2>9 DEF ImagesInv
<1> QED BY <1>2, <1>3 DEF SweepRemoves

LEMMA ImagesStep ==
    ASSUME ImagesInv, ImagesNext
    PROVE  ImagesInv'
BY QueueStep, CancelStep, RollsBackStep, ClaimsStep, HasRoomStep, BuildsStep, RecordsBuildStep,
   FailsStep, ServesStep, LaunchesStep, RelaunchesStep, ExitsStep, GivesUpStep,
   SweepBeginsStep, SweepKeepsStep, SweepListsStep, SweepRemovesStep
   DEF ImagesNext, DeployStep, SweepStep

LEMMA ImagesRest ==
    ASSUME ImagesInv, UNCHANGED imagesVars
    PROVE  ImagesInv'
<1>1. UNCHANGED <<rows, production, sha, image, alive, work, rolling, sweep, unseen>>
  BY DEF imagesVars
<1>2. /\ ImagesTypeOK' /\ WorkOK' /\ TableOK' /\ RunningOK' /\ ServingOK' /\ BuiltImageStays'
  BY <1>1 DEF ImagesInv, ImagesTypeOK, TableTypeOK, WorkOK, TableOK, RunningOK, ServingOK,
              BuiltImageStays, Exists
<1> QED BY <1>1, <1>2, TableRests DEF ImagesInv

LEMMA ImagesStart ==
    ASSUME ImagesInit
    PROVE  ImagesInv
<1>1. /\ rows = [d \in Deployment |-> NoRow] /\ production = None
      /\ sha = [d \in Deployment |-> None] /\ image = {} /\ alive = {}
      /\ work = [w \in Worker |-> Idle] /\ rolling = None
      /\ sweep = [s \in Sweeper |-> NoSweep] /\ unseen = {}
  BY DEF ImagesInit
<1>2. NoRow \in Row /\ NoRow.status = "none" /\ NoRow.container = None /\ ~NoRow.built
  BY BranchAssumption DEF NoRow, Row, Status, Trigger, Error
<1>3. /\ rows \in [Deployment -> Row]
      /\ \A d \in Deployment : rows[d].status = "none" /\ rows[d].container = None
                               /\ sha[d] = None /\ ~rows[d].built
  BY <1>1, <1>2
<1>4. /\ Idle \in [at : {"idle", "room", "build", "built", "launch", "health"},
                   d : Deployment \cup {None}, c : Container \cup {None}]
      /\ Idle.at = "idle" /\ Idle.c = None
  BY DEF Idle
<1>5. ImagesTypeOK
  BY <1>1, <1>3, <1>4, NoSweepIs DEF ImagesTypeOK, TableTypeOK
<1>6. IsFiniteSet(Present)
  <2>1. Present = {}
    BY <1>3 DEF Present, Exists
  <2> QED BY <2>1, FS_EmptySet
<1>7. WorkOK /\ BuiltImageStays
  BY <1>1, <1>4 DEF WorkOK, BuiltImageStays
<1>8. TableOK /\ RunningOK /\ ServingOK /\ TargetsOK
  BY <1>1, <1>3 DEF TableOK, RunningOK, ServingOK, TargetsOK, Exists, NewestOf, Ready
<1>9. SweepsOK
  BY <1>1, NoSweepIs DEF SweepsOK
<1> QED BY <1>5, <1>6, <1>7, <1>8, <1>9 DEF ImagesInv

LEMMA ImagesStay ==
    ASSUME ImagesInv
    PROVE  NeededImagesStay
<1>1. ASSUME production # None
      PROVE  sha[production] \in image
  <2>1. production \in Deployment /\ rows[production].container # None
    BY <1>1, ImagesFacts DEF ImagesInv, ServingOK
  <2>2. rows[production].container \in alive /\ rows[production].container[1] = production
    BY <2>1 DEF ImagesInv, TableOK
  <2>3. sha[rows[production].container[1]] \in image
    BY <2>2 DEF ImagesInv, RunningOK
  <2> QED BY <2>2, <2>3
<1>2. RollbackTargetsStay
  BY <1>1 DEF RollbackTargetsStay, ImagesInv, TargetsOK, Backed
<1> QED BY <1>2 DEF NeededImagesStay, ImagesInv

-----------------------------------------------------------------------------
(* The parts together *)

HostInv == EnvInv /\ DnsInv /\ ImagesInv /\ AppInv

LEMMA EnvRests ==
    ASSUME EnvInv, UNCHANGED deliveryVars
    PROVE  EnvInv'
BY DEF EnvInv, EnvironmentsTypeOK, BuilderOK, PreviewIsolated, deliveryVars

LEMMA DnsRests ==
    ASSUME DnsInv, UNCHANGED dnsVars
    PROVE  DnsInv'
<1>1. UNCHANGED <<zone, made, domain, adds, routed, visit, upset>>
  BY DEF dnsVars
<1> QED BY <1>1 DEF DnsInv, DnsTypeOK, AtRest, DeletesItsOwn, Tidy, Alone, Holds, There

LEMMA HostStarts == Init => HostInv
BY EnvironmentsStart, DnsStart, ImagesStart, AppStart DEF Init, HostInv

LEMMA HostStep == HostInv /\ [Next]_vars => HostInv'
<1> SUFFICES ASSUME HostInv, [Next]_vars
             PROVE  HostInv'
  OBVIOUS
<1>1. CASE ImagesPart
  BY <1>1, ImagesStep, DnsRests, EnvRests, AppRests DEF ImagesPart, HostInv
<1>2. CASE DnsPart
  BY <1>2, DnsStepKeeps, ImagesRest, EnvRests, AppRests DEF DnsPart, HostInv
<1>3. CASE EnvironmentsPart
  BY <1>3, EnvironmentsStep, ImagesRest, DnsRests, AppRests DEF EnvironmentsPart, HostInv
<1>4. CASE GitHubPart
  BY <1>4, AppStep, ImagesRest, DnsRests, EnvRests DEF GitHubPart, HostInv
<1>5. CASE UNCHANGED <<imagesVars, dnsVars, deliveryVars, gitHubVars>>
  BY <1>5, ImagesRest, DnsRests, EnvRests, AppRests DEF HostInv
<1>6. CASE SchedulesPart \/ PlansPart \/ UNCHANGED vars
  BY <1>5, <1>6 DEF SchedulesPart, PlansPart, vars
<1> QED BY <1>1, <1>2, <1>3, <1>4, <1>6 DEF Next

\* The invariant holds in every state of every behaviour.
THEOREM HostInvHolds == Spec => []HostInv
<1>1. HostInv /\ UNCHANGED vars => HostInv'
  BY HostStep
<1> QED BY HostStarts, HostStep, PTL DEF Spec

\* What the sweeps beside deploys, rollbacks and each other leave: the image
\* just built until its docker run, what production serves and the newest
\* rollback targets, unless a sweep took it before it could know of it
\* (housekeeping.py, images_to_keep).
THEOREM HostNeededImagesStay == Spec => []NeededImagesStay
BY HostInvHolds, ImagesStay, PTL DEF HostInv

\* Only the records DeployPro made are deleted, nothing of a removed domain is
\* left, and none is routed while its records go, when requests neither fail
\* nor overlap (engine/domains.py).
THEOREM HostZoneRespected == Spec => []ZoneRespected
BY HostInvHolds, ZoneIsRespected, PTL DEF HostInv

\* A preview has no value of production's, whatever was built, shared and
\* promoted before, and a value set for a target wins (engine/environment.py).
THEOREM HostEnvironmentIsScoped == Spec => []EnvironmentIsScoped
<1>1. HostInv => EnvironmentIsScoped
  BY ScopesWin DEF HostInv, EnvInv, EnvironmentIsScoped
<1> QED BY <1>1, HostInvHolds, PTL

\* When every delivery was heard, github_installations is what GitHub says of
\* the connected app, every push that is owed is deployed, and a project is
\* linked to no other app's installation (web/github.py, routers/github.py).
THEOREM HostAppInStep == Spec => []AppInStep
BY HostInvHolds, AppIsInStep, PTL DEF HostInv

-----------------------------------------------------------------------------
(* Schedules: what the two searches find *)

LEMMA LeastMinute ==
    ASSUME NEW T \in SUBSET Nat, T # {}
    PROVE  \E x \in T : \A y \in T : x <= y
<1> DEFINE R == {p \in Nat \X Nat : p[1] < p[2]}
<1>1. OpToRel(<, Nat) = R
  BY DEF OpToRel
<1>2. IsWellFoundedOn(R, Nat)
  BY <1>1, NatLessThanWellFounded
<1> HIDE DEF R
<1>3. PICK x \in T : \A y \in T : ~ (<<y, x>> \in R)
  BY <1>2, WFMin
<1>4. \A y \in T : ~ (y < x)
  BY <1>3 DEF R
<1> QED BY <1>4

(* The scheduler's and the dashboard's searches, as what they find. *)
Latest(s, from, t) ==
    LET found == {u \in from .. t : Matches(s, u)}
    IN  IF found = {} THEN Never ELSE CHOOSE u \in found : \A v \in found : v <= u

Earliest(s, t, to) ==
    LET found == {u \in t .. to : Matches(s, u)}
    IN  IF found = {} THEN Never ELSE CHOOSE u \in found : \A v \in found : u <= v

LEMMA LatestSteps ==
    ASSUME NEW s, NEW from \in Nat, NEW t \in Nat, from <= t
    PROVE  Latest(s, from, t) = IF Matches(s, t) THEN t
                                ELSE IF t = from THEN Never ELSE Latest(s, from, t - 1)
<1> DEFINE F(x) == {u \in from .. x : Matches(s, u)}
<1>1. CASE Matches(s, t)
  <2>1. t \in F(t) /\ \A v \in F(t) : v <= t
    BY <1>1
  <2>2. \A u \in F(t) : (\A v \in F(t) : v <= u) => u = t
    BY <2>1
  <2> HIDE DEF F
  <2>3. (CHOOSE u \in F(t) : \A v \in F(t) : v <= u) = t /\ F(t) # {}
    BY <2>1, <2>2
  <2> QED BY <1>1, <2>3 DEF F, Latest
<1>2. CASE ~Matches(s, t) /\ t = from
  <2>1. F(t) = {}
    <3>1. \A u \in from .. t : u = t
      BY <1>2
    <3> QED BY <1>2, <3>1
  <2> QED BY <1>2, <2>1 DEF Latest
<1>3. CASE ~Matches(s, t) /\ t # from
  <2>1. F(t) = F(t - 1)
    <3>1. \A u : u \in from .. t <=> u \in from .. t - 1 \/ u = t
      BY <1>3
    <3> QED BY <1>3, <3>1
  <2>2. \A x : Latest(s, from, x) =
                  IF F(x) = {} THEN Never ELSE CHOOSE u \in F(x) : \A v \in F(x) : v <= u
    BY DEF Latest
  <2> HIDE DEF F
  <2>3. Latest(s, from, t) = Latest(s, from, t - 1)
    BY <2>1, <2>2
  <2> QED BY <1>3, <2>3
<1> QED BY <1>1, <1>2, <1>3

(* The walk back finds the latest minute the schedule names. *)
LEMMA DueSlotIs ==
    ASSUME NEW s, NEW now \in Nat
    PROVE  DueSlot(s, now) =
              Latest(s, IF now > MaxCatchup THEN now - MaxCatchup ELSE 0, now)
<1> DEFINE early == IF now > MaxCatchup THEN now - MaxCatchup ELSE 0
           IsBack(g) == g = [t \in early .. now |->
                               IF Matches(s, t) THEN t
                               ELSE IF t = early THEN Never ELSE g[t - 1]]
           back == CHOOSE g : IsBack(g)
           found == [t \in early .. now |-> Latest(s, early, t)]
<1>0. early \in Nat /\ early <= now
  BY SchedulesAssumption
<1> HIDE DEF early
<1>1. IsBack(found)
  <2>1. ASSUME NEW t \in early .. now
        PROVE  found[t] = IF Matches(s, t) THEN t
                          ELSE IF t = early THEN Never ELSE found[t - 1]
    <3>1. t \in Nat /\ early <= t /\ (t # early => t - 1 \in early .. now)
      BY <1>0
    <3>2. Latest(s, early, t) = IF Matches(s, t) THEN t
                                ELSE IF t = early THEN Never ELSE Latest(s, early, t - 1)
      BY <1>0, <3>1, LatestSteps
    <3> QED BY <3>1, <3>2
  <2> QED BY <2>1
<1>2. IsBack(back)
  BY <1>1
<1>3. DueSlot(s, now) = back[now]
  BY DEF DueSlot, early
<1> HIDE DEF back
<1>4. \A t \in early .. now : back[t] = IF Matches(s, t) THEN t
                                        ELSE IF t = early THEN Never ELSE back[t - 1]
  BY <1>2
<1>5. \A t \in early .. now : back[t] = Latest(s, early, t)
  <2> DEFINE Wrong == {t \in early .. now : back[t] # Latest(s, early, t)}
  <2>1. SUFFICES ASSUME Wrong # {} PROVE FALSE
    OBVIOUS
  <2>2. Wrong \in SUBSET Nat
    BY <1>0
  <2>3. PICK t \in Wrong : \A y \in Wrong : t <= y
    <3> HIDE DEF Wrong
    <3> QED BY <2>1, <2>2, LeastMinute
  <2>4. t \in Nat /\ t \in early .. now /\ early <= t /\ (t # early => t - 1 \in early .. now)
    BY <1>0
  <2>5. Latest(s, early, t) = IF Matches(s, t) THEN t
                              ELSE IF t = early THEN Never ELSE Latest(s, early, t - 1)
    BY <1>0, <2>4, LatestSteps
  <2>6. t # early => back[t - 1] = Latest(s, early, t - 1)
    <3>1. t # early => t - 1 \notin Wrong
      BY <2>3, <2>4
    <3> QED BY <3>1, <2>4
  <2> QED BY <1>4, <2>3, <2>4, <2>5, <2>6
<1>6. now \in early .. now
  BY <1>0
<1> QED BY <1>3, <1>5, <1>6 DEF early

LEMMA EarliestSteps ==
    ASSUME NEW s, NEW t \in Nat, NEW to \in Nat
    PROVE  Earliest(s, t, to) = IF t > to THEN Never
                                ELSE IF Matches(s, t) THEN t
                                ELSE Earliest(s, t + 1, to)
<1> DEFINE F(x) == {u \in x .. to : Matches(s, u)}
<1>0. \A x : Earliest(s, x, to) =
                IF F(x) = {} THEN Never ELSE CHOOSE u \in F(x) : \A v \in F(x) : u <= v
  BY DEF Earliest
<1>1. CASE t > to
  <2>1. F(t) = {}
    BY <1>1
  <2> HIDE DEF F
  <2> QED BY <1>0, <1>1, <2>1
<1>2. CASE t <= to /\ Matches(s, t)
  <2>1. t \in F(t) /\ \A v \in F(t) : t <= v
    BY <1>2
  <2>2. \A u \in F(t) : (\A v \in F(t) : u <= v) => u = t
    BY <2>1
  <2> HIDE DEF F
  <2>3. (CHOOSE u \in F(t) : \A v \in F(t) : u <= v) = t /\ F(t) # {}
    BY <2>1, <2>2
  <2>4. Earliest(s, t, to) = t
    BY <1>0, <2>3
  <2> QED BY <1>2, <2>4
<1>3. CASE t <= to /\ ~Matches(s, t)
  <2>1. F(t) = F(t + 1)
    <3>1. \A u : u \in t .. to <=> u \in t + 1 .. to \/ u = t
      BY <1>3
    <3> QED BY <1>3, <3>1
  <2> HIDE DEF F
  <2>2. Earliest(s, t, to) = Earliest(s, t + 1, to)
    BY <1>0, <2>1
  <2> QED BY <1>3, <2>2
<1> QED BY <1>1, <1>2, <1>3

\* Every minute before midnight is of the same day.
LEMMA SameDay ==
    ASSUME NEW t \in Nat, NEW u \in Nat, t <= u, u < NextMidnight(t)
    PROVE  DayOf(u) = DayOf(t)
<1>1. PICK D \in Nat : D = MinutesInHour * HoursInDay /\ D > 0
  BY SchedulesAssumption
<1>2. NextMidnight(t) = (t \div D + 1) * D
  <2>1. PICK q \in Nat : q = t \div D
    BY <1>1
  <2>2. (q + 1) * MinutesInHour * HoursInDay = (q + 1) * D
    BY <1>1, SchedulesAssumption
  <2> QED BY <1>1, <2>1, <2>2 DEF NextMidnight, DayOf
<1>3. PICK q \in Nat : q = t \div D
  BY <1>1
<1>4. PICK p \in Nat : p = u \div D
  BY <1>1
<1>5. q * D <= t /\ t < q * D + D /\ p * D <= u /\ u < p * D + D
  BY <1>1, <1>3, <1>4
<1>6. u < q * D + D
  BY <1>1, <1>2, <1>3
<1>7. ~(p < q)
  <2>1. ASSUME p < q PROVE p * D + D <= q * D
    BY <1>1, <2>1
  <2> QED BY <1>1, <1>5, <2>1
<1>8. ~(q < p)
  <2>1. ASSUME q < p PROVE q * D + D <= p * D
    BY <1>1, <2>1
  <2> QED BY <1>1, <1>5, <1>6, <2>1
<1> QED BY <1>1, <1>3, <1>4, <1>7, <1>8 DEF DayOf

LEMMA MidnightIsAhead ==
    ASSUME NEW t \in Nat
    PROVE  NextMidnight(t) \in Nat /\ t < NextMidnight(t)
<1>1. PICK D \in Nat : D = MinutesInHour * HoursInDay /\ D > 0
  BY SchedulesAssumption
<1>2. PICK q \in Nat : q = t \div D
  BY <1>1
<1>3. q * D <= t /\ t < q * D + D
  BY <1>1, <1>2
<1>4. (q + 1) * MinutesInHour * HoursInDay = q * D + D
  BY <1>1, SchedulesAssumption
<1>5. NextMidnight(t) = q * D + D
  BY <1>1, <1>2, <1>4 DEF NextMidnight, DayOf
<1> QED BY <1>1, <1>3, <1>5

\* A day that could not match has no minute that does.
LEMMA SkippedDay ==
    ASSUME NEW s, NEW t \in Nat, NEW u \in Nat, t <= u, u < NextMidnight(t),
           ~DateCouldMatch(s, t)
    PROVE  ~Matches(s, u)
<1>1. DayOf(u) = DayOf(t)
  BY SameDay
<1>2. DayOfYear(u) = DayOfYear(t)
  BY <1>1 DEF DayOfYear
<1>3. MonthOf(u) = MonthOf(t)
  BY <1>2 DEF MonthOf
<1>4. Date(u)[3] = Date(t)[3] /\ Date(u)[4] = Date(t)[4] /\ Date(u)[5] = Date(t)[5]
  BY <1>1, <1>2, <1>3 DEF Date
<1>5. DayMatches(s, u) = DayMatches(s, t)
  BY <1>4 DEF DayMatches
<1> QED BY <1>4, <1>5 DEF DateCouldMatch, Matches

LEMMA EarliestSkips ==
    ASSUME NEW s, NEW t \in Nat, NEW to \in Nat, ~DateCouldMatch(s, t)
    PROVE  Earliest(s, t, to) = Earliest(s, NextMidnight(t), to)
<1> DEFINE F(x) == {u \in x .. to : Matches(s, u)}
<1>0. \A x : Earliest(s, x, to) =
                IF F(x) = {} THEN Never ELSE CHOOSE u \in F(x) : \A v \in F(x) : u <= v
  BY DEF Earliest
<1>1. PICK m \in Nat : m = NextMidnight(t) /\ t < m
  BY MidnightIsAhead
<1>2. \A u \in Nat : t <= u /\ u < m => ~Matches(s, u)
  BY <1>1, SkippedDay
<1>3. \A u : u \in F(t) <=> u \in F(m)
  BY <1>1, <1>2
<1>4. F(t) = F(m)
  BY <1>3
<1> HIDE DEF F
<1> QED BY <1>0, <1>1, <1>4

(* The walk ahead finds the first minute the schedule names, whole days
   skipped or not. *)
LEMMA NextSlotIs ==
    ASSUME NEW s, NEW after \in Nat
    PROVE  NextSlot(s, after) = Earliest(s, after + 1, after + 1 + MaxLookahead)
<1> DEFINE deadline == after + 1 + MaxLookahead
           IsForward(g) == g = [t \in Nat |->
                                  IF t > deadline THEN Never
                                  ELSE IF Matches(s, t) THEN t
                                  ELSE IF ~DateCouldMatch(s, t) THEN g[NextMidnight(t)]
                                  ELSE g[t + 1]]
           forward == CHOOSE g : IsForward(g)
           found == [t \in Nat |-> Earliest(s, t, deadline)]
<1>0. deadline \in Nat
  BY SchedulesAssumption
<1>3. NextSlot(s, after) = forward[after + 1]
  BY DEF NextSlot
<1>8. deadline = after + 1 + MaxLookahead
  OBVIOUS
<1> HIDE DEF deadline
<1>1. IsForward(found)
  <2>1. ASSUME NEW t \in Nat
        PROVE  found[t] = IF t > deadline THEN Never
                          ELSE IF Matches(s, t) THEN t
                          ELSE IF ~DateCouldMatch(s, t) THEN found[NextMidnight(t)]
                          ELSE found[t + 1]
    <3>1. NextMidnight(t) \in Nat /\ t + 1 \in Nat
      BY MidnightIsAhead
    <3>2. Earliest(s, t, deadline) = IF t > deadline THEN Never
                                     ELSE IF Matches(s, t) THEN t
                                     ELSE Earliest(s, t + 1, deadline)
      BY <1>0, EarliestSteps
    <3>3. ~DateCouldMatch(s, t) =>
             Earliest(s, t, deadline) = Earliest(s, NextMidnight(t), deadline)
      BY <1>0, EarliestSkips
    <3> QED BY <3>1, <3>2, <3>3
  <2> QED BY <2>1
<1>2. IsForward(forward)
  BY <1>1
<1> HIDE DEF forward
<1>4. \A t \in Nat : forward[t] = IF t > deadline THEN Never
                                  ELSE IF Matches(s, t) THEN t
                                  ELSE IF ~DateCouldMatch(s, t) THEN forward[NextMidnight(t)]
                                  ELSE forward[t + 1]
  BY <1>2
<1>5. \A t \in Nat : forward[t] = Earliest(s, t, deadline)
  <2> DEFINE Wrong == {t \in Nat : forward[t] # Earliest(s, t, deadline)}
             Left == {deadline - t : t \in Wrong}
  <2>1. SUFFICES ASSUME Wrong # {} PROVE FALSE
    OBVIOUS
  <2>2. ASSUME NEW t \in Wrong PROVE t \in Nat /\ t <= deadline
    <3>1. t \in Nat /\ forward[t] # Earliest(s, t, deadline)
      OBVIOUS
    <3>2. t > deadline => forward[t] = Never /\ Earliest(s, t, deadline) = Never
      BY <1>0, <1>4, <3>1, EarliestSteps
    <3> QED BY <1>0, <3>1, <3>2
  <2>3. Left \in SUBSET Nat /\ Left # {}
    BY <1>0, <2>1, <2>2
  <2>4. PICK n \in Left : \A y \in Left : n <= y
    <3> HIDE DEF Left
    <3> QED BY <2>3, LeastMinute
  <2>5. PICK t \in Wrong : n = deadline - t
    OBVIOUS
  <2>6. ASSUME NEW y \in Wrong PROVE y <= t
    <3>1. deadline - t <= deadline - y
      BY <2>4, <2>5
    <3> HIDE DEF Wrong
    <3> QED BY <1>0, <2>2, <3>1
  <2>7. t \in Nat /\ t + 1 \notin Wrong /\ NextMidnight(t) \notin Wrong
    BY <2>6, MidnightIsAhead
  <2>8. NextMidnight(t) \in Nat /\ t + 1 \in Nat
    BY MidnightIsAhead
  <2>9. Earliest(s, t, deadline) = IF t > deadline THEN Never
                                   ELSE IF Matches(s, t) THEN t
                                   ELSE Earliest(s, t + 1, deadline)
    BY <1>0, EarliestSteps
  <2>10. ~DateCouldMatch(s, t) =>
            Earliest(s, t, deadline) = Earliest(s, NextMidnight(t), deadline)
    BY <1>0, EarliestSkips
  <2> QED BY <1>4, <2>5, <2>7, <2>8, <2>9, <2>10
<1> QED BY <1>3, <1>5, <1>8

\* A chunk that parses names a number.
LEMMA ChunkNames ==
    ASSUME NEW f \in 1 .. 5, NEW c \in Chunk, ChunkIsValid(c, f)
    PROVE  ChunkValues(c, f) # {}
<1>1. /\ Fields[f].low \in Int /\ Fields[f].high \in Int /\ Fields[f].low <= Fields[f].high
  <2>1. 1 .. 5 = {1, 2, 3, 4, 5}
    OBVIOUS
  <2>2. Len(DaysIn) \in Nat /\ Len(DaysIn) >= 1
    BY SchedulesAssumption, EmptySeq
  <2>3. MinutesInHour - 1 \in Nat /\ HoursInDay - 1 \in Nat
    BY SchedulesAssumption
  <2> QED BY <2>1, <2>2, <2>3 DEF Fields
<1>2. /\ c.step \in Nat
      /\ c.form \in {"one", "range"} => Value(c.from, f) \in Nat
      /\ c.form = "range" => Value(c.to, f) \in Nat
  BY DEF Chunk, Value
<1>3. c.form \in {"star", "one", "range"}
  BY DEF Chunk
<1>4. PICK low \in Int, high \in Int : ChunkEnds(c, f) = <<low, high>> /\ low <= high
  <2>1. CASE c.form = "star"
    BY <1>1, <2>1 DEF ChunkEnds
  <2>2. CASE c.form = "range"
    BY <1>2, <2>2 DEF ChunkEnds, ChunkIsValid
  <2>3. CASE c.form = "one"
    BY <1>1, <1>2, <2>3 DEF ChunkEnds, ChunkIsValid, InRange
  <2> QED BY <1>3, <2>1, <2>2, <2>3
<1>5. PICK step \in Nat : step = (IF c.step = 0 THEN 1 ELSE c.step) /\ step > 0
  BY <1>2
<1>6. ChunkValues(c, f) = {v \in low .. high : (v - low) % step = 0}
  BY <1>4, <1>5 DEF ChunkValues
<1>7. low \in low .. high /\ (low - low) % step = 0
  <2>1. low - low = 0 /\ 0 % step = 0
    BY <1>5
  <2> QED BY <1>4, <2>1
<1> QED BY <1>6, <1>7

LEMMA ParsedIs ==
    ASSUME NEW e \in Expressions, Parses(e)
    PROVE  /\ DOMAIN Parse(e) = {"values", "restricted"}
           /\ \A f \in 1 .. 5 : Parse(e).values[f] # {}
<1>1. DOMAIN Parse(e) = {"values", "restricted"}
  BY DEF Parse
<1>2. ASSUME NEW f \in 1 .. 5 PROVE Parse(e).values[f] # {}
  <2>1. PICK c \in e[f] : c \in Chunk /\ ChunkIsValid(c, f)
    BY ExpressionsAssumption DEF Parses
  <2>2. PICK v : v \in ChunkValues(c, f)
    BY <2>1, ChunkNames
  <2>3. Parse(e).values[f] = UNION {ChunkValues(x, f) : x \in e[f]}
    BY DEF Parse
  <2> QED BY <2>2, <2>3
<1> QED BY <1>1, <1>2

\* The schedule is one that parsed, and what was announced is what next_slot
\* found then.
SchedulesInv ==
    /\ cron \in {Parse(e) : e \in {x \in Expressions : Parses(x)}}
    /\ clock \in 0 .. MaxClock
    /\ announced # Never =>
          /\ announced.at \in 0 .. clock
          /\ announced.slot = NextSlot(cron, announced.at)

LEMMA SchedulesTyped == SchedulesInv => SchedulesTypeOK
BY ParsedIs DEF SchedulesInv, SchedulesTypeOK

LEMMA AnnouncedHappens == SchedulesInv => AnnouncedRunHappens
<1> SUFFICES ASSUME SchedulesInv, announced # Never PROVE AnnouncedRunHappens
  BY DEF AnnouncedRunHappens
<1>1. PICK a \in Nat : a = announced.at /\ a <= clock
  BY SchedulesAssumption DEF SchedulesInv
<1>2. clock \in Nat /\ MaxCatchup \in Nat /\ MaxLookahead \in Nat /\ Never \notin Nat
  BY SchedulesAssumption DEF SchedulesInv
<1>3. PICK early \in Nat : early = (IF clock > MaxCatchup THEN clock - MaxCatchup ELSE 0)
  <2>1. (IF clock > MaxCatchup THEN clock - MaxCatchup ELSE 0) \in Nat
    BY <1>2
  <2> QED BY <2>1
<1> DEFINE Back == {u \in early .. clock : Matches(cron, u)}
           Ahead == {u \in a + 1 .. a + 1 + MaxLookahead : Matches(cron, u)}
<1>4. DueSlot(cron, clock) =
         IF Back = {} THEN Never ELSE CHOOSE u \in Back : \A v \in Back : v <= u
  BY <1>2, <1>3, DueSlotIs DEF Latest
<1>5. announced.slot =
         IF Ahead = {} THEN Never ELSE CHOOSE u \in Ahead : \A v \in Ahead : u <= v
  BY <1>1, NextSlotIs DEF SchedulesInv, Earliest
<1>6. Back # {} => DueSlot(cron, clock) \in Back /\ \A v \in Back : v <= DueSlot(cron, clock)
  <2>1. ASSUME Back # {} PROVE \E u \in Back : \A v \in Back : v <= u
    <3> DEFINE Left == {clock - u : u \in Back}
    <3>1. Left \in SUBSET Nat /\ Left # {}
      BY <1>2, <2>1
    <3>2. PICK n \in Left : \A y \in Left : n <= y
      <4> HIDE DEF Left
      <4> QED BY <3>1, LeastMinute
    <3>3. PICK u \in Back : n = clock - u
      OBVIOUS
    <3> QED BY <1>2, <3>2, <3>3
  <2> HIDE DEF Back
  <2> QED BY <1>4, <2>1
<1>7. Ahead # {} => announced.slot \in Ahead /\ \A v \in Ahead : announced.slot <= v
  <2>1. Ahead \in SUBSET Nat
    BY <1>1, <1>2
  <2>2. Ahead # {} => \E u \in Ahead : \A v \in Ahead : u <= v
    <3> HIDE DEF Ahead
    <3> QED BY <2>1, LeastMinute
  <2> HIDE DEF Ahead
  <2> QED BY <1>5, <2>2
<1>8. PICK due : due = DueSlot(cron, clock)
  OBVIOUS
<1>9. PICK slot : slot = announced.slot
  OBVIOUS
<1>10. Back = {} => due = Never
  BY <1>4, <1>8
<1>11. Ahead = {} <=> slot = Never
  BY <1>1, <1>2, <1>5, <1>7, <1>9
<1>12. (IF slot = Never THEN clock < a + MaxLookahead + 2 ELSE clock < slot)
          => due = Never \/ due <= a
  <2> SUFFICES ASSUME IF slot = Never THEN clock < a + MaxLookahead + 2 ELSE clock < slot,
                      Back # {}, ~(due <= a)
               PROVE  FALSE
    BY <1>10
  <2>1. due \in Nat /\ early <= due /\ due <= clock /\ Matches(cron, due)
    BY <1>2, <1>3, <1>6, <1>8
  <2>2. CASE slot = Never
    BY <1>1, <1>2, <1>11, <2>1, <2>2
  <2>3. CASE slot # Never
    <3>1. slot \in Nat /\ slot <= a + 1 + MaxLookahead /\ \A v \in Ahead : slot <= v
      BY <1>1, <1>2, <1>7, <1>9, <1>11, <2>3
    <3>2. due \in Ahead
      BY <1>1, <1>2, <2>1, <2>3, <3>1
    <3> QED BY <1>2, <2>1, <2>3, <3>1, <3>2
  <2> QED BY <2>2, <2>3
<1>13. ASSUME slot # Never, ~(clock < slot), clock - slot <= MaxCatchup
       PROVE  due # Never /\ due >= slot /\ Matches(cron, slot)
  <2>1. slot \in Nat /\ Matches(cron, slot)
    BY <1>1, <1>2, <1>7, <1>9, <1>11, <1>13
  <2>2. slot \in Back
    BY <1>2, <1>3, <1>13, <2>1
  <2>3. due \in Back /\ slot <= due
    BY <1>6, <1>8, <2>2
  <2>4. due \in Nat
    BY <1>2, <1>3, <2>3
  <2> QED BY <1>2, <2>1, <2>3, <2>4
<1> HIDE DEF Back, Ahead
<1>14. (IF slot = Never THEN clock < a + MaxLookahead + 2 ELSE clock < slot)
         <=> clock < (IF slot = Never THEN a + MaxLookahead + 2 ELSE slot)
  OBVIOUS
<1>15. ~(clock < (IF slot = Never THEN a + MaxLookahead + 2 ELSE slot)) /\ slot # Never
         => ~(clock < slot)
  OBVIOUS
<1> QED BY <1>1, <1>8, <1>9, <1>12, <1>13, <1>14, <1>15 DEF AnnouncedRunHappens

LEMMA SchedulesInvStays ==
    ASSUME SchedulesInv, [SchedulesNext]_scheduleVars
    PROVE  SchedulesInv'
<1>1. CASE Announce
  BY <1>1, SchedulesAssumption DEF Announce, SchedulesInv
<1>2. CASE Minute
  BY <1>2, SchedulesAssumption DEF Minute, SchedulesInv
<1>3. CASE UNCHANGED scheduleVars
  BY <1>3 DEF scheduleVars, SchedulesInv
<1> QED BY <1>1, <1>2, <1>3 DEF SchedulesNext

LEMMA SchedulesInvHolds == Spec => []SchedulesInv
<1>1. Init => SchedulesInv
  BY SchedulesAssumption DEF Init, SchedulesInit, SchedulesInv
<1>2. ASSUME SchedulesInv, [Next]_vars PROVE SchedulesInv'
  <2>1. [SchedulesNext]_scheduleVars
    BY <1>2 DEF Next, ImagesPart, SchedulesPart, PlansPart, DnsPart, EnvironmentsPart,
                GitHubPart, vars
  <2> QED BY <1>2, <2>1, SchedulesInvStays
<1> QED BY <1>1, <1>2, PTL DEF Spec

\* The run the dashboard announced is the one that happens, for any calendar,
\* schedule, horizon and look-ahead: the walk ahead, which skips the days that
\* cannot match, and the walk back name the same minutes (domain/schedule.py).
THEOREM HostAnnouncedRunHappens == Spec => []AnnouncedRunHappens
BY SchedulesInvHolds, AnnouncedHappens, PTL

-----------------------------------------------------------------------------
(* Plans: what each generated plan holds *)

\* The plan is one, its image serves on the port as nobody, and what its
\* stages copy was there.
ServesOn(port) ==
    /\ Generated /\ CopiesExist /\ RuntimeIsBare
    /\ plan.port = port /\ Runtime.port = port /\ Runtime.cmd.port = port

AllHaveTools == \A s \in Stages : HasItsTools(s)

\* A plan of two or of three stages, stage by stage.
LEMMA TwoStages ==
    ASSUME NEW s1, NEW s2, plan.stages = <<s1, s2>>
    PROVE  /\ Runtime = s2
           /\ AllHaveTools <=> HasItsTools(s1) /\ HasItsTools(s2)
           /\ (/\ \A from \in s1.copies : from[1] = "context"
               /\ \A from \in s2.copies : \/ from[1] = "context"
                                          \/ from[1] = s1.name /\ from[2] \in s1.has)
              => CopiesExist
<1>1. Len(plan.stages) = 2 /\ plan.stages[1] = s1 /\ plan.stages[2] = s2
  OBVIOUS
<1>2. 1 .. 2 = {1, 2} /\ 1 .. 1 - 1 = {} /\ 1 .. 2 - 1 = {1}
  OBVIOUS
<1>3. Runtime = s2
  BY <1>1 DEF Runtime
<1>4. Stages = {s1, s2}
  BY <1>1, <1>2 DEF Stages
<1>5. ASSUME \A from \in s1.copies : from[1] = "context",
             \A from \in s2.copies : \/ from[1] = "context"
                                     \/ from[1] = s1.name /\ from[2] \in s1.has
      PROVE  CopiesExist
  BY <1>1, <1>2, <1>5 DEF CopiesExist
<1> QED BY <1>3, <1>4, <1>5 DEF AllHaveTools

LEMMA ThreeStages ==
    ASSUME NEW s1, NEW s2, NEW s3, plan.stages = <<s1, s2, s3>>
    PROVE  /\ Runtime = s3
           /\ AllHaveTools <=> HasItsTools(s1) /\ HasItsTools(s2) /\ HasItsTools(s3)
           /\ (/\ \A from \in s1.copies : from[1] = "context"
               /\ \A from \in s2.copies : \/ from[1] = "context"
                                          \/ from[1] = s1.name /\ from[2] \in s1.has
               /\ \A from \in s3.copies : \/ from[1] = "context"
                                          \/ from[1] = s2.name /\ from[2] \in s2.has)
              => CopiesExist
<1>1. Len(plan.stages) = 3 /\ plan.stages[1] = s1 /\ plan.stages[2] = s2
      /\ plan.stages[3] = s3
  OBVIOUS
<1>2. 1 .. 3 = {1, 2, 3} /\ 1 .. 1 - 1 = {} /\ 1 .. 2 - 1 = {1} /\ 1 .. 3 - 1 = {1, 2}
  OBVIOUS
<1>3. Runtime = s3
  BY <1>1 DEF Runtime
<1>4. Stages = {s1, s2, s3}
  BY <1>1, <1>2 DEF Stages
<1>5. ASSUME \A from \in s1.copies : from[1] = "context",
             \A from \in s2.copies : \/ from[1] = "context"
                                     \/ from[1] = s1.name /\ from[2] \in s1.has,
             \A from \in s3.copies : \/ from[1] = "context"
                                     \/ from[1] = s2.name /\ from[2] \in s2.has
      PROVE  CopiesExist
  BY <1>1, <1>2, <1>5 DEF CopiesExist
<1> QED BY <1>3, <1>4, <1>5 DEF AllHaveTools

\* The stages the Node plans share.
LEMMA InstallIs ==
    ASSUME NEW tc
    PROVE  /\ InstallStage(tc).name = "deps"
           /\ InstallStage(tc).has = {"node_modules"}
           /\ \A from \in InstallStage(tc).copies : from[1] = "context"
           /\ tc.name \in {"npm", "yarn"} => HasItsTools(InstallStage(tc))
<1>1. /\ InstallStage(tc).name = "deps" /\ InstallStage(tc).cmd = Unset
      /\ InstallStage(tc).has = {"node_modules"}
      /\ InstallStage(tc).copies = {Context("manifests")}
      /\ InstallStage(tc).runs = {Run(tc.name, TRUE, FALSE)}
      /\ InstallStage(tc).tools = {"node", "npm", "npx", "yarn"} \cup tc.setup
  BY DEF InstallStage, Stage, ToolsOf
<1> QED BY <1>1 DEF HasItsTools, Run, Context

LEMMA StaticRuntimeIs ==
    ASSUME NEW source, NEW dir, NEW port, NEW s, s = StaticRuntime(source, dir, port)
    PROVE  /\ s.user # "root" /\ s.port = port /\ s.cmd.port = port
           /\ \A r \in s.runs : ~r.cached /\ ~r.secret
           /\ \A from \in s.copies : \/ from[1] = "context"
                                     \/ from[1] = source /\ from[2] = dir
           /\ HasItsTools(s)
<1>1. /\ s.user = "1000" /\ s.port = port /\ s.cmd = [tool |-> "caddy", port |-> port]
      /\ s.copies = {<<source, dir>>, Context("Caddyfile")}
      /\ s.runs = {Run("apk", FALSE, FALSE)}
      /\ s.tools = {"caddy", "apk"}
  BY DEF StaticRuntime, Stage, ToolsOf
<1> QED BY <1>1 DEF HasItsTools, Run, Context

\* Each plan serves on the port it is given, with its tools.
LEMMA NodeStaticServes ==
    ASSUME NEW framework, NEW tc, NEW script, NEW dir, NEW port,
           Output(framework) = dir, plan = NodeStatic(framework, tc, script, dir, port)
    PROVE  ServesOn(port) /\ (tc.name \in {"npm", "yarn"} => AllHaveTools)
<1> DEFINE s1 == InstallStage(tc)
           s2 == BuildStage(tc, script, {Output(framework)})
           s3 == StaticRuntime("build", dir, port)
<1>1. plan.verdict = "generated" /\ plan.port = port /\ plan.stages = <<s1, s2, s3>>
  BY DEF NodeStatic, Plan
<1>2. /\ s2.name = "build" /\ s2.has = {"tree", "node_modules"} \cup {Output(framework)}
      /\ s2.cmd = Unset /\ s2.tools = {"node", "npm", "npx", "yarn"}
      /\ s2.copies = {<<"deps", "node_modules">>, Context("tree")}
      /\ \A r \in s2.runs : r.tool = tc.name
  BY DEF BuildStage, Stage, ToolsOf, Run
<1> HIDE DEF s2
<1>3. /\ \A from \in s2.copies : \/ from[1] = "context"
                                 \/ from[1] = "deps" /\ from[2] = "node_modules"
      /\ tc.name \in {"npm", "yarn"} => HasItsTools(s2)
  BY <1>2 DEF HasItsTools, Context
<1>4. /\ s1.name = "deps" /\ s1.has = {"node_modules"}
      /\ \A from \in s1.copies : from[1] = "context"
      /\ tc.name \in {"npm", "yarn"} => HasItsTools(s1)
  BY InstallIs
<1>5. /\ s3.user # "root" /\ s3.port = port /\ s3.cmd.port = port
      /\ \A r \in s3.runs : ~r.cached /\ ~r.secret
      /\ \A from \in s3.copies : \/ from[1] = "context"
                                 \/ from[1] = "build" /\ from[2] = dir
      /\ HasItsTools(s3)
  BY StaticRuntimeIs
<1> HIDE DEF s1, s3
<1>6. Runtime = s3
      /\ (AllHaveTools <=> HasItsTools(s1) /\ HasItsTools(s2) /\ HasItsTools(s3))
  BY <1>1, ThreeStages
<1>7. CopiesExist
  BY <1>1, <1>2, <1>3, <1>4, <1>5, ThreeStages
<1> QED BY <1>1, <1>3, <1>4, <1>5, <1>6, <1>7 DEF ServesOn, Generated, RuntimeIsBare

LEMMA NodeServerServes ==
    ASSUME NEW framework, NEW tc, NEW script, NEW start, NEW port, NEW prune \in BOOLEAN,
           plan = NodeServer(framework, tc, script, start, port, prune)
    PROVE  /\ ServesOn(port) /\ Runtime.cmd.tool = start
           /\ tc.name \in {"npm", "yarn"} /\ start \in {"node", "npm", "npx", "yarn", Said("start")}
              => AllHaveTools
<1> DEFINE s1 == InstallStage(tc)
           more == IF prune THEN {Run(tc.name, TRUE, FALSE)} ELSE {}
           s2 == [BuildStage(tc, script, {}) EXCEPT !.runs = @ \cup more]
           s3 == [Stage("run", "node") EXCEPT
                     !.copies = {<<"build", "tree">>, <<"build", "node_modules">>},
                     !.user = "node", !.port = port,
                     !.cmd = [tool |-> start, port |-> port]]
<1>1. plan.verdict = "generated" /\ plan.port = port /\ plan.stages = <<s1, s2, s3>>
  BY DEF NodeServer, Plan
<1>2. /\ s2.name = "build" /\ s2.has = {"tree", "node_modules"} \cup {}
      /\ s2.cmd = Unset /\ s2.tools = {"node", "npm", "npx", "yarn"}
      /\ s2.copies = {<<"deps", "node_modules">>, Context("tree")}
      /\ \A r \in s2.runs : r.tool = tc.name
  BY DEF BuildStage, Stage, ToolsOf, Run
<1> HIDE DEF s2
<1>3. /\ \A from \in s2.copies : \/ from[1] = "context"
                                 \/ from[1] = "deps" /\ from[2] = "node_modules"
      /\ tc.name \in {"npm", "yarn"} => HasItsTools(s2)
  BY <1>2 DEF HasItsTools, Context
<1>4. /\ s1.name = "deps" /\ s1.has = {"node_modules"}
      /\ \A from \in s1.copies : from[1] = "context"
      /\ tc.name \in {"npm", "yarn"} => HasItsTools(s1)
  BY InstallIs
<1>5. /\ s3.user = "node" /\ s3.port = port /\ s3.cmd = [tool |-> start, port |-> port]
      /\ s3.runs = {} /\ s3.tools = {"node", "npm", "npx", "yarn"}
      /\ s3.copies = {<<"build", "tree">>, <<"build", "node_modules">>}
  BY DEF Stage, ToolsOf
<1> HIDE DEF s1, s3
<1>6. Runtime = s3
      /\ (AllHaveTools <=> HasItsTools(s1) /\ HasItsTools(s2) /\ HasItsTools(s3))
  BY <1>1, ThreeStages
<1>7. CopiesExist
  BY <1>1, <1>2, <1>3, <1>4, <1>5, ThreeStages
<1>8. start \in {"node", "npm", "npx", "yarn", Said("start")} => HasItsTools(s3)
  BY <1>5 DEF HasItsTools
<1> QED BY <1>1, <1>3, <1>4, <1>5, <1>6, <1>7, <1>8 DEF ServesOn, Generated, RuntimeIsBare

LEMMA NextStandaloneServes ==
    ASSUME NEW tc, NEW port, plan = NextStandalone(tc, port)
    PROVE  ServesOn(port) /\ (tc.name \in {"npm", "yarn"} => AllHaveTools)
<1> DEFINE traced == {".next/standalone", ".next/static", "public"}
           s1 == InstallStage(tc)
           s2 == BuildStage(tc, "build", traced)
           s3 == [Stage("run", "node") EXCEPT
                     !.copies = {<<"build", p>> : p \in {"public", ".next/standalone", ".next/static"}},
                     !.user = "node", !.port = port,
                     !.cmd = [tool |-> "node", port |-> port]]
<1>1. plan.verdict = "generated" /\ plan.port = port /\ plan.stages = <<s1, s2, s3>>
  BY DEF NextStandalone, Plan
<1>2. /\ s2.name = "build" /\ s2.has = {"tree", "node_modules"} \cup traced
      /\ s2.cmd = Unset /\ s2.tools = {"node", "npm", "npx", "yarn"}
      /\ s2.copies = {<<"deps", "node_modules">>, Context("tree")}
      /\ \A r \in s2.runs : r.tool = tc.name
  BY DEF BuildStage, Stage, ToolsOf, Run
<1> HIDE DEF s2
<1>3. /\ \A from \in s2.copies : \/ from[1] = "context"
                                 \/ from[1] = "deps" /\ from[2] = "node_modules"
      /\ tc.name \in {"npm", "yarn"} => HasItsTools(s2)
  BY <1>2 DEF HasItsTools, Context
<1>4. /\ s1.name = "deps" /\ s1.has = {"node_modules"}
      /\ \A from \in s1.copies : from[1] = "context"
      /\ tc.name \in {"npm", "yarn"} => HasItsTools(s1)
  BY InstallIs
<1>5. /\ s3.user = "node" /\ s3.port = port /\ s3.cmd = [tool |-> "node", port |-> port]
      /\ s3.runs = {} /\ s3.tools = {"node", "npm", "npx", "yarn"}
      /\ s3.copies = {<<"build", p>> : p \in {"public", ".next/standalone", ".next/static"}}
  BY DEF Stage, ToolsOf
<1> HIDE DEF s1, s3
<1>6. Runtime = s3
      /\ (AllHaveTools <=> HasItsTools(s1) /\ HasItsTools(s2) /\ HasItsTools(s3))
  BY <1>1, ThreeStages
<1>7. CopiesExist
  BY <1>1, <1>2, <1>3, <1>4, <1>5, ThreeStages
<1>8. HasItsTools(s3)
  BY <1>5 DEF HasItsTools
<1> QED BY <1>1, <1>3, <1>4, <1>5, <1>6, <1>7, <1>8 DEF ServesOn, Generated, RuntimeIsBare

LEMMA PythonServerServes ==
    ASSUME NEW framework, NEW start, NEW servers, NEW port, start \in servers,
           plan = PythonServer(framework, start, servers, port)
    PROVE  ServesOn(port) /\ Runtime.cmd.tool = start /\ AllHaveTools
<1> DEFINE s1 == [Stage("build", "python") EXCEPT
                     !.copies = {Context("tree")}, !.has = {"tree", "venv"},
                     !.runs = {Run("pip", TRUE, FALSE)}]
           s2 == [Stage("run", "python") EXCEPT
                     !.tools = @ \cup servers,
                     !.copies = {<<"build", "venv">>, <<"build", "tree">>},
                     !.user = "10001", !.port = port,
                     !.cmd = [tool |-> start, port |-> port]]
<1>1. plan.verdict = "generated" /\ plan.port = port /\ plan.stages = <<s1, s2>>
  BY DEF PythonServer, Plan
<1>2. /\ s1.name = "build" /\ s1.has = {"tree", "venv"} /\ s1.copies = {Context("tree")}
      /\ s1.runs = {Run("pip", TRUE, FALSE)} /\ s1.tools = {"python", "pip"} /\ s1.cmd = Unset
  BY DEF Stage, ToolsOf
<1>3. /\ s2.user = "10001" /\ s2.port = port /\ s2.cmd = [tool |-> start, port |-> port]
      /\ s2.runs = {} /\ s2.tools = {"python", "pip"} \cup servers
      /\ s2.copies = {<<"build", "venv">>, <<"build", "tree">>}
  BY DEF Stage, ToolsOf
<1> HIDE DEF s1, s2
<1>4. HasItsTools(s1) /\ HasItsTools(s2)
  BY <1>2, <1>3 DEF HasItsTools, Run
<1>5. CopiesExist
  BY <1>1, <1>2, <1>3, TwoStages DEF Context
<1>6. Runtime = s2 /\ AllHaveTools
  BY <1>1, <1>4, TwoStages
<1> QED BY <1>1, <1>3, <1>5, <1>6 DEF ServesOn, Generated, RuntimeIsBare

LEMMA GoServerServes ==
    ASSUME NEW port, plan = GoServer(port)
    PROVE  ServesOn(port) /\ AllHaveTools
<1> DEFINE s1 == [Stage("build", "go") EXCEPT
                     !.copies = {Context("manifests"), Context("tree")}, !.has = {"server"},
                     !.runs = {Run("go", TRUE, FALSE), Run("go", TRUE, TRUE)}]
           s2 == [Stage("run", "distroless") EXCEPT
                     !.tools = {"server"}, !.copies = {<<"build", "server">>},
                     !.user = "65532", !.port = port,
                     !.cmd = [tool |-> "server", port |-> port]]
<1>1. plan.verdict = "generated" /\ plan.port = port /\ plan.stages = <<s1, s2>>
  BY DEF GoServer, Plan
<1>2. /\ s1.name = "build" /\ s1.has = {"server"} /\ s1.cmd = Unset
      /\ s1.copies = {Context("manifests"), Context("tree")}
      /\ s1.runs = {Run("go", TRUE, FALSE), Run("go", TRUE, TRUE)} /\ s1.tools = {"go"}
  BY DEF Stage, ToolsOf
<1>3. /\ s2.user = "65532" /\ s2.port = port /\ s2.cmd = [tool |-> "server", port |-> port]
      /\ s2.runs = {} /\ s2.tools = {"server"} /\ s2.copies = {<<"build", "server">>}
  BY DEF Stage, ToolsOf
<1> HIDE DEF s1, s2
<1>4. HasItsTools(s1) /\ HasItsTools(s2)
  BY <1>2, <1>3 DEF HasItsTools, Run
<1>5. CopiesExist
  BY <1>1, <1>2, <1>3, TwoStages DEF Context
<1>6. Runtime = s2 /\ AllHaveTools
  BY <1>1, <1>4, TwoStages
<1> QED BY <1>1, <1>3, <1>5, <1>6 DEF ServesOn, Generated, RuntimeIsBare

LEMMA PlainStaticServes ==
    ASSUME NEW port, plan = PlainStatic(port)
    PROVE  ServesOn(port) /\ AllHaveTools
<1> DEFINE s1 == [Stage("source", "caddy") EXCEPT !.copies = {Context("tree")}, !.has = {"tree"}]
           s2 == StaticRuntime("source", "tree", port)
<1>1. plan.verdict = "generated" /\ plan.port = port /\ plan.stages = <<s1, s2>>
  BY DEF PlainStatic, Plan
<1>2. /\ s1.name = "source" /\ s1.has = {"tree"} /\ s1.cmd = Unset
      /\ s1.copies = {Context("tree")} /\ s1.runs = {}
  BY DEF Stage, ToolsOf
<1>3. /\ s2.user # "root" /\ s2.port = port /\ s2.cmd.port = port
      /\ \A r \in s2.runs : ~r.cached /\ ~r.secret
      /\ \A from \in s2.copies : \/ from[1] = "context"
                                 \/ from[1] = "source" /\ from[2] = "tree"
      /\ HasItsTools(s2)
  BY StaticRuntimeIs
<1> HIDE DEF s1, s2
<1>4. HasItsTools(s1)
  BY <1>2 DEF HasItsTools
<1>5. CopiesExist
  BY <1>1, <1>2, <1>3, TwoStages DEF Context
<1>6. Runtime = s2 /\ AllHaveTools
  BY <1>1, <1>3, <1>4, TwoStages
<1> QED BY <1>1, <1>3, <1>5, <1>6 DEF ServesOn, Generated, RuntimeIsBare

\* npm and yarn come with the image; the lockfile of another is the exception.
LEMMA ToolchainIs ==
    ASSUME NEW locks, locks \cap {"pnpm", "bun"} = {}
    PROVE  Toolchain(locks).name \in {"npm", "yarn"}
<1> DEFINE found == {i \in 1 .. Len(Managers) : Managers[i] \in locks}
           first == CHOOSE i \in found : \A j \in found : i <= j
<1>1. found \subseteq {2, 4} /\ Managers[2] = "yarn" /\ Managers[4] = "npm"
  <2>1. /\ Len(Managers) = 4 /\ Managers[1] = "pnpm" /\ Managers[2] = "yarn"
        /\ Managers[3] = "bun" /\ Managers[4] = "npm"
    BY DEF Managers
  <2>2. 1 .. 4 = {1, 2, 3, 4}
    OBVIOUS
  <2> QED BY <2>1, <2>2
<1>2. Toolchain(locks).name = IF found = {} THEN "npm" ELSE Managers[first]
  BY DEF Toolchain
<1>3. found # {} => first \in found
  <2> HIDE DEF found
  <2>1. ASSUME found # {} PROVE \E i \in found : \A j \in found : i <= j
    <3>1. CASE 2 \in found
      <4>1. \A j \in found : 2 <= j
        BY <1>1
      <4> QED BY <3>1, <4>1
    <3>2. CASE 2 \notin found
      <4>1. found = {4}
        BY <1>1, <2>1, <3>2
      <4> QED BY <4>1
    <3> QED BY <3>1, <3>2
  <2> QED BY <2>1
<1> HIDE DEF found, first
<1> QED BY <1>1, <1>2, <1>3

\* What detection finds for each language serves, or is refused.
LEMMA NodeServes ==
    ASSUME NEW over, over.start = Said("start"), checkout.locks \cap {"pnpm", "bun"} = {}
                                                   => Toolchain(checkout.locks).name \in {"npm", "yarn"},
           NEW port, plan = DetectNode(checkout, over, port)
    PROVE  plan = Refused \/
             (/\ ServesOn(port)
              /\ Said("start") # Unset => Runtime.cmd.tool = Said("start")
              /\ checkout.locks \cap {"pnpm", "bun"} = {} => AllHaveTools)
<1> DEFINE tc == Toolchain(checkout.locks)
           own == IF "build" \in checkout.pkg.scripts THEN "build" ELSE Unset
           script == Or(over.build, own)
           framework == Or(over.framework, NodeFramework(checkout.configs, checkout.pkg.deps))
           deps == checkout.pkg.deps
           plain == checkout.locks \cap {"pnpm", "bun"} = {}
<1>1. CASE over.start # Unset
  <2>1. plan = NodeServer(Or(framework, "node"), tc, script, over.start, port, TRUE)
    BY <1>1 DEF DetectNode
  <2> HIDE DEF tc, script, framework
  <2> QED BY <2>1, NodeServerServes DEF tc
<1>2. CASE over.start = Unset
  <2>0. PICK t : t = tc
    OBVIOUS
  <2> DEFINE AStatic == \E f, sc, d : Output(f) = d /\ plan = NodeStatic(f, t, sc, d, port)
             AServer == \E f, sc : \E pr \in BOOLEAN, st \in {"node", "npx", t.name} :
                           plan = NodeServer(f, t, sc, st, port, pr)
  <2>1. AStatic \/ plan = NextStandalone(t, port) \/ AServer \/ plan = Refused
    <3>0. plan = CASE framework = "next" -> DetectNext(checkout, t, port)
               [] framework = "astro" -> DetectAstro(deps, t, port)
               [] framework = "sveltekit" -> DetectSvelteKit(deps, t, port)
               [] framework = "nuxt" ->
                     NodeServer("nuxt", t, Or(script, "build"), "node", port, FALSE)
               [] framework = "remix" ->
                     NodeServer("remix", t, Or(script, "build"), "npx", port, TRUE)
               [] framework = "vite" ->
                     NodeStatic("vite", t, Or(script, "build"), "dist", port)
               [] framework = "cra" ->
                     NodeStatic("cra", t, Or(script, "build"), "build", port)
               [] OTHER ->
                     IF "start" \in checkout.pkg.scripts
                     THEN NodeServer("node", t, script, t.name, port, TRUE)
                     ELSE Refused
      BY <1>2, <2>0 DEF DetectNode
    <3>1. /\ Output("vite") = "dist" /\ Output("astro") = "dist" /\ Output("cra") = "build"
          /\ Output("sveltekit-static") = "build" /\ Output("next-export") = "out"
      BY DEF Output
    <3>2. PICK b : b = Or(script, "build")
      OBVIOUS
    <3> HIDE DEF script, framework, deps, tc
    <3>3. ASSUME NEW f, NEW sc, NEW d, Output(f) = d, plan = NodeStatic(f, t, sc, d, port)
          PROVE  AStatic
      BY <3>3
    <3>4. ASSUME NEW f, NEW sc, NEW pr \in BOOLEAN, NEW st \in {"node", "npx", t.name},
                 plan = NodeServer(f, t, sc, st, port, pr)
          PROVE  AServer
      BY <3>4
    <3> HIDE DEF AStatic, AServer
    <3>5. CASE framework = "next"
      <4>1. plan = DetectNext(checkout, t, port)
        BY <3>0, <3>5
      <4>2. \/ plan = NodeStatic("next-export", t, "build", "out", port)
            \/ plan = NextStandalone(t, port)
            \/ plan = NodeServer("next", t, "build", "npx", port, FALSE)
        BY <4>1 DEF DetectNext
      <4> QED BY <3>1, <3>3, <3>4, <4>2
    <3>6. CASE framework = "astro"
      <4>1. \/ plan = NodeServer("astro-node", t, "build", "node", port, FALSE)
            \/ plan = NodeStatic("astro", t, "build", "dist", port)
        BY <3>0, <3>6 DEF DetectAstro
      <4> QED BY <3>1, <3>3, <3>4, <4>1
    <3>7. CASE framework = "sveltekit"
      <4>1. \/ plan = NodeStatic("sveltekit-static", t, "build", "build", port)
            \/ plan = NodeServer("sveltekit", t, "build", "node", port, TRUE)
        BY <3>0, <3>7 DEF DetectSvelteKit
      <4> QED BY <3>1, <3>3, <3>4, <4>1
    <3>8. CASE framework \in {"nuxt", "remix"}
      <4>1. \/ plan = NodeServer("nuxt", t, b, "node", port, FALSE)
            \/ plan = NodeServer("remix", t, b, "npx", port, TRUE)
        BY <3>0, <3>2, <3>8
      <4> QED BY <3>4, <4>1
    <3>9. CASE framework \in {"vite", "cra"}
      <4>1. \/ plan = NodeStatic("vite", t, b, "dist", port)
            \/ plan = NodeStatic("cra", t, b, "build", port)
        BY <3>0, <3>2, <3>9
      <4> QED BY <3>1, <3>3, <4>1
    <3>10. CASE framework \notin {"next", "astro", "sveltekit", "nuxt", "remix", "vite", "cra"}
      <4>1. PICK sc : sc = script
        OBVIOUS
      <4>2. plan = NodeServer("node", t, sc, t.name, port, TRUE) \/ plan = Refused
        BY <3>0, <3>10, <4>1
      <4> QED BY <3>4, <4>2
    <3> QED BY <3>5, <3>6, <3>7, <3>8, <3>9, <3>10
  <2>2. plain => t.name \in {"npm", "yarn"}
    BY <2>0
  <2> HIDE DEF tc, plain
  <2>3. Said("start") = Unset
    BY <1>2
  <2>4. ASSUME NEW f, NEW sc, NEW d, Output(f) = d, plan = NodeStatic(f, t, sc, d, port)
        PROVE  ServesOn(port) /\ (plain => AllHaveTools)
    BY <2>2, <2>4, NodeStaticServes
  <2>5. ASSUME plan = NextStandalone(t, port)
        PROVE  ServesOn(port) /\ (plain => AllHaveTools)
    BY <2>2, <2>5, NextStandaloneServes
  <2>6. ASSUME NEW f, NEW sc, NEW pr \in BOOLEAN, NEW st \in {"node", "npx", t.name},
               plan = NodeServer(f, t, sc, st, port, pr)
        PROVE  ServesOn(port) /\ (plain => AllHaveTools)
    BY <2>2, <2>6, NodeServerServes
  <2> QED BY <2>1, <2>3, <2>4, <2>5, <2>6 DEF plain
<1> QED BY <1>1, <1>2

LEMMA PythonServes ==
    ASSUME NEW over, over.start = Said("start"),
           NEW port, plan = DetectPython(checkout, over, port)
    PROVE  plan = Refused \/
             (/\ ServesOn(port) /\ AllHaveTools
              /\ Said("start") # Unset => Runtime.cmd.tool = Said("start"))
<1>1. CASE over.start # Unset
  <2>1. plan = PythonServer(Or(over.framework, "python"), over.start, {over.start}, port)
    BY <1>1 DEF DetectPython
  <2>2. PICK f : f = Or(over.framework, "python")
    OBVIOUS
  <2>3. ServesOn(port) /\ Runtime.cmd.tool = over.start /\ AllHaveTools
    BY <2>1, <2>2, PythonServerServes
  <2> QED BY <2>3
<1>2. CASE over.start = Unset
  <2>1. \/ \E f, st : plan = PythonServer(f, st, {st}, port)
        \/ plan = Refused
    BY <1>2 DEF DetectPython
  <2>2. ASSUME NEW f, NEW st, plan = PythonServer(f, st, {st}, port)
        PROVE  ServesOn(port) /\ AllHaveTools
    BY <2>2, PythonServerServes
  <2> QED BY <1>2, <2>1, <2>2
<1> QED BY <1>1, <1>2

\* What was decided: nothing that can be built, the repository's own
\* Dockerfile, or a plan that serves.
DecidedOn ==
    \/ plan = Refused
    \/ \E expose \in {checkout.dockerfile, checkout.named} \ {Unset} :
          plan = FromRepoDockerfile(expose, settings.port)
    \/ /\ checkout.manifest # Broken
       /\ ServesOn(Or(Said("port"), DefaultPort))
       /\ Said("start") # Unset /\ (checkout.pkg # Unset \/ checkout.python # Unset)
             => Runtime.cmd.tool = Said("start")
       /\ checkout.locks \cap {"pnpm", "bun"} = {} => AllHaveTools

LEMMA MakePlanDecides ==
    ASSUME plan = MakePlan(checkout, settings)
    PROVE  DecidedOn
<1> DEFINE over == IF checkout.manifest = Unset THEN settings
                   ELSE MergeManifest(settings, checkout.manifest)
           port == Or(over.port, DefaultPort)
<1>1. CASE settings.dockerfile \/ checkout.dockerfile # Unset
  BY <1>1 DEF MakePlan, Detect, DecidedOn
<1>2. CASE /\ ~settings.dockerfile /\ checkout.dockerfile = Unset
           /\ Broken \in {checkout.manifest, checkout.pkg}
  BY <1>2 DEF MakePlan, Detect, DecidedOn
<1>3. CASE /\ ~settings.dockerfile /\ checkout.dockerfile = Unset
           /\ Broken \notin {checkout.manifest, checkout.pkg}
  <2>1. plan = IF checkout.pkg # Unset THEN DetectNode(checkout, over, port)
               ELSE IF checkout.python # Unset THEN DetectPython(checkout, over, port)
               ELSE IF "go.mod" \in checkout.configs THEN GoServer(port)
               ELSE IF "index.html" \in checkout.configs THEN PlainStatic(port)
               ELSE Refused
    BY <1>3 DEF MakePlan, Detect
  <2>2. over.start = Said("start") /\ over.port = Said("port")
    BY DEF Said, MergeManifest, Overridable
  <2>3. port = Or(Said("port"), DefaultPort)
    BY <2>2
  <2>4. PICK p : p = port
    OBVIOUS
  <2>5. PICK o : o = over
    OBVIOUS
  <2> HIDE DEF port, over
  <2>6. CASE checkout.pkg # Unset
    <3>1. plan = DetectNode(checkout, o, p)
      BY <2>1, <2>4, <2>5, <2>6
    <3>2. checkout.locks \cap {"pnpm", "bun"} = {}
            => Toolchain(checkout.locks).name \in {"npm", "yarn"}
      BY ToolchainIs
    <3>3. plan = Refused \/
             (/\ ServesOn(p)
              /\ Said("start") # Unset => Runtime.cmd.tool = Said("start")
              /\ checkout.locks \cap {"pnpm", "bun"} = {} => AllHaveTools)
      BY <2>2, <2>5, <3>1, <3>2, NodeServes
    <3> QED BY <1>3, <2>3, <2>4, <3>3 DEF DecidedOn
  <2>7. CASE checkout.pkg = Unset /\ checkout.python # Unset
    <3>1. plan = DetectPython(checkout, o, p)
      BY <2>1, <2>4, <2>5, <2>7
    <3>2. plan = Refused \/
             (/\ ServesOn(p) /\ AllHaveTools
              /\ Said("start") # Unset => Runtime.cmd.tool = Said("start"))
      BY <2>2, <2>5, <3>1, PythonServes
    <3> QED BY <1>3, <2>3, <2>4, <3>2 DEF DecidedOn
  <2>8. CASE checkout.pkg = Unset /\ checkout.python = Unset
    <3>1. plan = GoServer(p) \/ plan = PlainStatic(p) \/ plan = Refused
      BY <2>1, <2>4, <2>8
    <3>2. plan = Refused \/ (ServesOn(p) /\ AllHaveTools)
      BY <3>1, GoServerServes, PlainStaticServes
    <3> QED BY <1>3, <2>3, <2>4, <2>8, <3>2 DEF DecidedOn
  <2> QED BY <2>6, <2>7, <2>8
<1> QED BY <1>1, <1>2, <1>3

\* The last EXPOSE that is a port is one.
LEMMA RepoPort ==
    ASSUME NEW expose \in Seq(Nat), NEW port \in Port \cup {Unset}
    PROVE  /\ FromRepoDockerfile(expose, port).verdict = "unchanged"
           /\ FromRepoDockerfile(expose, port).port \in Port
<1> DEFINE valid == {i \in 1 .. Len(expose) : expose[i] \in Port}
           last == CHOOSE i \in valid : \A j \in valid : j <= i
           exposed == IF valid = {} THEN Unset ELSE expose[last]
<1>1. FromRepoDockerfile(expose, port) =
         [verdict |-> "unchanged", port |-> Or(port, Or(exposed, DefaultPort))]
  BY DEF FromRepoDockerfile
<1>2. valid # {} => last \in valid
  <2>1. ASSUME valid # {} PROVE \E i \in valid : \A j \in valid : j <= i
    <3> DEFINE Left == {Len(expose) - i : i \in valid}
    <3>1. Left \in SUBSET Nat /\ Left # {}
      BY <2>1
    <3>2. PICK n \in Left : \A y \in Left : n <= y
      <4> HIDE DEF Left
      <4> QED BY <3>1, LeastMinute
    <3>3. PICK i \in valid : n = Len(expose) - i
      OBVIOUS
    <3>4. ASSUME NEW j \in valid PROVE j <= i
      <4>1. Len(expose) - i <= Len(expose) - j
        BY <3>2, <3>3
      <4> QED BY <4>1
    <3> QED BY <3>4
  <2> HIDE DEF valid
  <2> QED BY <2>1
<1>3. exposed \in Port \cup {Unset}
  BY <1>2
<1>4. DefaultPort \in Port
  BY DEF DefaultPort, Port
<1> HIDE DEF exposed
<1> QED BY <1>1, <1>3, <1>4 DEF Or

\* What was decided is what the checkout and the settings give.
PlanInv ==
    /\ checkout \in Checkouts /\ settings \in Settings
    /\ plan = Undecided \/ plan = MakePlan(checkout, settings)

LEMMA PlansServe == PlanInv => PlanServes
<1>1. plan = Undecided => PlanServes
  BY DEF PlanServes, Generated, Undecided
<1>2. ASSUME DecidedOn PROVE PlanServes
  <2>1. ~Generated => PlanServes
    BY DEF PlanServes
  <2>2. plan = Refused => ~Generated
    BY DEF Generated, Refused
  <2>3. ASSUME NEW expose, plan = FromRepoDockerfile(expose, settings.port)
        PROVE  ~Generated
    BY <2>3 DEF Generated, FromRepoDockerfile
  <2> QED BY <1>2, <2>1, <2>2, <2>3 DEF DecidedOn, ServesOn, AllHaveTools, PlanServes, SettingsWin
<1> QED BY <1>1, <1>2, MakePlanDecides DEF PlanInv

LEMMA PlansTyped == PlanInv => PlansTypeOK
<1>1. plan = Undecided => PlansTypeOK
  BY DEF PlansTypeOK, Undecided
<1>2. ASSUME PlanInv, DecidedOn PROVE PlansTypeOK
  <2>0. settings.port \in Port \cup {Unset}
    BY <1>2, PlansAssumption DEF PlanInv
  <2>1. plan = Refused => PlansTypeOK
    BY DEF PlansTypeOK, Refused
  <2>2. ASSUME NEW expose \in {checkout.dockerfile, checkout.named} \ {Unset},
               plan = FromRepoDockerfile(expose, settings.port)
        PROVE  PlansTypeOK
    <3>1. expose \in Seq(Nat)
      BY <1>2, PlansAssumption DEF PlanInv
    <3> QED BY <2>0, <2>2, <3>1, RepoPort DEF PlansTypeOK
  <2>3. ASSUME checkout.manifest # Broken, ServesOn(Or(Said("port"), DefaultPort))
        PROVE  PlansTypeOK
    <3>1. Said("port") \in Port \cup {Unset}
      <4>1. CASE checkout.manifest = Unset
        BY <2>0, <4>1 DEF Said
      <4>2. CASE checkout.manifest # Unset
        <5>1. checkout.manifest.port \in Port \cup {Unset}
          BY <1>2, <2>3, <4>2, PlansAssumption DEF PlanInv
        <5> QED BY <2>0, <4>2, <5>1 DEF Said, Or
      <4> QED BY <4>1, <4>2
    <3>2. Or(Said("port"), DefaultPort) \in Port
      <4>1. DefaultPort \in Port
        BY DEF DefaultPort, Port
      <4>2. PICK said : said = Said("port")
        OBVIOUS
      <4> QED BY <3>1, <4>1, <4>2 DEF Or
    <3> QED BY <2>3, <3>2 DEF ServesOn, Generated, PlansTypeOK
  <2> QED BY <1>2, <2>1, <2>2, <2>3 DEF DecidedOn
<1> QED BY <1>1, <1>2, MakePlanDecides DEF PlanInv

LEMMA PlanInvStays == PlanInv /\ [PlansNext]_planVars => PlanInv'
BY DEF PlanInv, PlansNext, Decide, planVars

LEMMA PlanInvHolds == Spec => []PlanInv
<1>1. Init => PlanInv
  BY DEF Init, PlansInit, PlanInv
<1>2. ASSUME PlanInv, [Next]_vars PROVE PlanInv'
  <2>1. [PlansNext]_planVars
    BY <1>2 DEF Next, ImagesPart, SchedulesPart, PlansPart, DnsPart, EnvironmentsPart,
                GitHubPart, vars
  <2> QED BY <1>2, <2>1, PlanInvStays
<1> QED BY <1>1, <1>2, PTL DEF Spec

\* A generated plan can run: its stages copy what is there, its image serves on
\* the port the router is told, as nobody, with nothing of the build in it, as
\* the settings or the manifest say, and with every tool it runs unless the
\* package manager is pnpm or bun.  For every checkout and all settings
\* (domain/detect.py, domain/dockerfiles.py).
THEOREM HostPlanServes == Spec => []PlanServes
BY PlanInvHolds, PlansServe, PTL

-----------------------------------------------------------------------------
(* The six components' types *)

LEMMA GitHubTyped == Spec => [](GitHubTypeOK /\ Numbered)
<1>1. Init => GitHubTypeOK /\ Numbered
  BY AppStartsTyped DEF Init
<1>2. ASSUME HostInv, GitHubTypeOK, Numbered, [Next]_vars
      PROVE  GitHubTypeOK' /\ Numbered'
  <2>1. AppInv
    BY <1>2 DEF HostInv
  <2>2. GitHubNext \/ UNCHANGED gitHubVars
    BY <1>2 DEF Next, ImagesPart, SchedulesPart, PlansPart, DnsPart, EnvironmentsPart,
                GitHubPart, vars
  <2>3. CASE UNCHANGED gitHubVars
    BY <1>2, <2>3 DEF gitHubVars, GitHubTypeOK, Numbered, Granted, IsAt
  <2> QED BY <1>2, <2>1, <2>2, <2>3, AppTyped
<1> QED BY <1>1, <1>2, HostInvHolds, PTL DEF Spec

\* Every image, row, plan, record, value, installation and announcement has the
\* type the code gives it: a schedule that parses names a minute in each field,
\* a decided port is one, and rows and links are of installations there were.
THEOREM HostTypes == Spec => []TypeOK
<1>1. HostInv => ImagesTypeOK /\ DnsTypeOK /\ EnvironmentsTypeOK
  BY DEF HostInv, ImagesInv, DnsInv, EnvInv
<1> QED BY <1>1, HostInvHolds, SchedulesInvHolds, SchedulesTyped, PlanInvHolds, PlansTyped,
           GitHubTyped, PTL DEF TypeOK
=============================================================================
