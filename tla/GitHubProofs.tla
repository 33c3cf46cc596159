---------------------------- MODULE GitHubProofs ----------------------------
(***************************************************************************)
(* The GitHub App's inductive invariant, for every number of apps,         *)
(* installations, pushes and requests: what github_installations lags      *)
(* behind GitHub is on its way, in the order that will set it right.       *)
(* Module HostProofs concludes from it about the specification.            *)
(***************************************************************************)
EXTENDS GitHub, SequenceTheorems, TLAPS

Installation == [app : Nat, live : BOOLEAN]

Delivery == [kind : {"created", "deleted", "push"}, app : Nat, grant : Nat, push : Nat]

Request ==
    [at : {"rest", "keep", "save", "link", "create", "hook"}, app : Nat, grant : Nat,
     kind : {"none", "record", "link", "import", "created", "deleted", "push"}, push : Nat]

InMail(kind, g) == \E i \in 1 .. Len(mail) : mail[i].kind = kind /\ mail[i].grant = g

InHand(kind, g) ==
    \E c \in Caller : IsAt(c, "hook") /\ caller[c].kind = kind /\ caller[c].grant = g

GitHubShape ==
    /\ apps \in Nat /\ app \in 0 .. apps /\ pushes \in Nat
    /\ grant \in Seq(Installation) /\ mail \in Seq(Delivery)
    /\ caller \in [Caller -> Request]
    /\ \A g \in 1 .. Len(grant) : grant[g].app \in 1 .. apps
    /\ known \subseteq 1 .. Len(grant)
    /\ project \in [there : BOOLEAN, link : {0} \cup known]

\* A delivery is of an installation, to the app it is of.  One that says
\* "deleted" is true, one that says "created" is true or has a "deleted" after
\* it.
Mailed ==
    \A i \in 1 .. Len(mail) :
        LET g == mail[i].grant
        IN  /\ g \in 1 .. Len(grant) /\ mail[i].app = grant[g].app
            /\ mail[i].kind = "deleted" => ~grant[g].live
            /\ mail[i].kind = "created" =>
                  grant[g].live \/ \E j \in i + 1 .. Len(mail) :
                                      mail[j].kind = "deleted" /\ mail[j].grant = g

\* A request is about the connected app's installation, which is there or of
\* whose end GitHub's word is still on its way.
InHands ==
    \A c \in Caller :
        LET g == caller[c].grant
        IN  /\ IsAt(c, "rest") => caller[c] = Rest
            /\ IsAt(c, "keep") => caller[c].app \in 1 .. apps
            /\ caller[c].at \in {"save", "link", "create", "hook"} =>
                  g \in 1 .. Len(grant) /\ grant[g].app = app
            /\ caller[c].at \in {"save", "link", "create"}
                  \/ (IsAt(c, "hook") /\ caller[c].kind = "created") =>
                  grant[g].live \/ InMail("deleted", g)
            /\ IsAt(c, "hook") /\ caller[c].kind = "deleted" => ~grant[g].live

\* The rows lag behind GitHub by what is on its way.
KnownOK ==
    \A g \in 1 .. Len(grant) :
        /\ g \in known =>
              /\ grant[g].app = app
              /\ grant[g].live \/ InMail("deleted", g) \/ InHand("deleted", g)
        /\ Answers(app, g) => g \in known \/ InMail("created", g) \/ InHand("created", g)

\* A push that is owed is deployed, or on its way to the connected app.
OwedOK ==
    /\ owed # {} => Reached
    /\ \A p \in owed :
          \/ p \in deployed
          \/ \E i \in 1 .. Len(mail) :
                mail[i].kind = "push" /\ mail[i].push = p /\ mail[i].app = app
          \/ \E c \in Caller : IsAt(c, "hook") /\ caller[c].kind = "push" /\ caller[c].push = p

AppOK == GitHubShape /\ Mailed /\ InHands /\ KnownOK /\ OwedOK /\ ~Collides

AppInv == muddled \in BOOLEAN /\ (~muddled => AppOK)

LEMMA AppFacts ==
    ASSUME AppOK
    PROVE  /\ apps \in Nat /\ app \in Nat /\ app <= apps /\ pushes \in Nat
           /\ Len(grant) \in Nat /\ Len(mail) \in Nat
           /\ grant \in Seq(Installation) /\ mail \in Seq(Delivery)
           /\ \A g \in 1 .. Len(grant) : /\ grant[g] \in Installation /\ grant[g].app \in 1 .. apps
           /\ \A i \in 1 .. Len(mail) : mail[i] \in Delivery
           /\ caller \in [Caller -> Request]
           /\ known \subseteq 1 .. Len(grant)
           /\ project \in [there : BOOLEAN, link : {0} \cup known]
           /\ Granted = 1 .. Len(grant) /\ DOMAIN mail = 1 .. Len(mail)
<1>1. GitHubShape
  BY DEF AppOK
<1>2. grant \in Seq(Installation) /\ mail \in Seq(Delivery)
  BY <1>1 DEF GitHubShape
<1>3. /\ Len(grant) \in Nat /\ Len(mail) \in Nat
      /\ DOMAIN grant = 1 .. Len(grant) /\ DOMAIN mail = 1 .. Len(mail)
  BY <1>2, LenProperties
<1>4. /\ \A g \in 1 .. Len(grant) : grant[g] \in Installation
      /\ \A i \in 1 .. Len(mail) : mail[i] \in Delivery
  BY <1>2, ElementOfSeq
<1> QED BY <1>1, <1>2, <1>3, <1>4 DEF GitHubShape, Granted

LEMMA RestIs == Rest \in Request /\ Rest.at = "rest" /\ Rest.grant = 0
BY DEF Rest, Request

\* GitHub's side moves on: installations come and end, and what is said of it
\* joins the deliveries.
LEMMA MailGrows ==
    ASSUME AppOK, UNCHANGED <<apps, app, known, project, caller, deployed>>,
           mail' \in Seq(Delivery), Len(mail) <= Len(mail'),
           \A i \in 1 .. Len(mail) : mail'[i] = mail[i],
           grant' \in Seq(Installation), Len(grant) <= Len(grant'),
           \A g \in 1 .. Len(grant') : grant'[g].app \in 1 .. apps,
           \A g \in 1 .. Len(grant) :
              /\ grant'[g].app = grant[g].app
              /\ grant'[g].live => grant[g].live
              /\ grant[g].live =>
                    grant'[g].live \/ \E j \in Len(mail) + 1 .. Len(mail') :
                                         mail'[j].kind = "deleted" /\ mail'[j].grant = g,
           \A g \in Len(grant) + 1 .. Len(grant') :
              \E j \in 1 .. Len(mail') : mail'[j].kind = "created" /\ mail'[j].grant = g,
           \A i \in Len(mail) + 1 .. Len(mail') :
              /\ mail'[i].grant \in 1 .. Len(grant') /\ mail'[i].app = grant'[mail'[i].grant].app
              /\ mail'[i].kind = "deleted" => ~grant'[mail'[i].grant].live
              /\ mail'[i].kind = "created" => grant'[mail'[i].grant].live,
           pushes' \in Nat,
           owed' = IF Reached' THEN owed \cup ((pushes + 1) .. pushes') ELSE {},
           Reached' => \A p \in (pushes + 1) .. pushes' :
              \E i \in 1 .. Len(mail') :
                 mail'[i].kind = "push" /\ mail'[i].push = p /\ mail'[i].app = app,
           ~Collides'
    PROVE  AppOK'
<1>f. /\ Len(grant) \in Nat /\ Len(mail) \in Nat /\ Len(mail') \in Nat /\ Len(grant') \in Nat
      /\ known \subseteq 1 .. Len(grant)
  BY AppFacts, LenProperties
<1>1. GitHubShape'
  BY <1>f DEF AppOK, GitHubShape, Installation
<1>3. \A kind, g : InMail(kind, g) => InMail(kind, g)'
  BY <1>f DEF InMail
<1>2. ASSUME NEW g \in 1 .. Len(grant), grant[g].live \/ InMail("deleted", g)
      PROVE  grant'[g].live \/ InMail("deleted", g)'
  <2>1. ASSUME grant[g].live PROVE grant'[g].live \/ InMail("deleted", g)'
    <3>1. ASSUME NEW j \in Len(mail) + 1 .. Len(mail'),
                 mail'[j].kind = "deleted" /\ mail'[j].grant = g
          PROVE  InMail("deleted", g)'
      <4>1. j \in 1 .. Len(mail')
        BY <1>f
      <4> QED BY <3>1, <4>1 DEF InMail
    <3> QED BY <2>1, <3>1
  <2> QED BY <1>2, <1>3, <2>1
<1>4. \A kind, g : InHand(kind, g)' <=> InHand(kind, g)
  BY DEF InHand, IsAt
<1>5. Mailed'
  <2> SUFFICES ASSUME NEW i \in 1 .. Len(mail')
               PROVE  /\ mail'[i].grant \in 1 .. Len(grant')
                      /\ mail'[i].app = grant'[mail'[i].grant].app
                      /\ mail'[i].kind = "deleted" => ~grant'[mail'[i].grant].live
                      /\ mail'[i].kind = "created" =>
                            grant'[mail'[i].grant].live
                               \/ \E j \in i + 1 .. Len(mail') :
                                     mail'[j].kind = "deleted" /\ mail'[j].grant = mail'[i].grant
    BY DEF Mailed
  <2>1. CASE i \in Len(mail) + 1 .. Len(mail')
    BY <2>1
  <2>2. CASE i \in 1 .. Len(mail)
    <3> DEFINE g == mail[i].grant
    <3>1. /\ g \in 1 .. Len(grant) /\ mail[i].app = grant[g].app
          /\ mail[i].kind = "deleted" => ~grant[g].live
          /\ mail[i].kind = "created" =>
                grant[g].live \/ \E j \in i + 1 .. Len(mail) :
                                    mail[j].kind = "deleted" /\ mail[j].grant = g
      BY <2>2 DEF AppOK, Mailed
    <3>2. mail'[i] = mail[i] /\ mail'[i].grant = g
      BY <2>2
    <3> HIDE DEF g
    <3>3. mail[i].kind = "created" =>
             grant'[g].live \/ \E j \in i + 1 .. Len(mail') :
                                  mail'[j].kind = "deleted" /\ mail'[j].grant = g
      <4>1. CASE grant[g].live
        BY SMTT(20), <1>f, <2>2, <3>1, <4>1
      <4>2. ASSUME NEW j \in i + 1 .. Len(mail), mail[j].kind = "deleted", mail[j].grant = g
            PROVE  j \in i + 1 .. Len(mail') /\ mail'[j].kind = "deleted" /\ mail'[j].grant = g
        BY <1>f, <2>2, <4>2
      <4> QED BY <3>1, <4>1, <4>2
    <3>4. g \in 1 .. Len(grant') /\ grant'[g].app = grant[g].app
          /\ (~grant[g].live => ~grant'[g].live)
      BY <1>f, <3>1
    <3> QED BY <3>1, <3>2, <3>3, <3>4
  <2> QED BY <1>f, <2>1, <2>2
<1>6. InHands'
  <2> SUFFICES ASSUME NEW c \in Caller
               PROVE  /\ IsAt(c, "rest") => caller[c] = Rest
                      /\ IsAt(c, "keep") => caller[c].app \in 1 .. apps
                      /\ caller[c].at \in {"save", "link", "create", "hook"} =>
                            /\ caller[c].grant \in 1 .. Len(grant')
                            /\ grant'[caller[c].grant].app = app
                      /\ caller[c].at \in {"save", "link", "create"}
                            \/ (IsAt(c, "hook") /\ caller[c].kind = "created") =>
                            \A g : g = caller[c].grant =>
                                grant'[g].live \/ InMail("deleted", g)'
                      /\ IsAt(c, "hook") /\ caller[c].kind = "deleted" =>
                            ~grant'[caller[c].grant].live
    BY SMTT(20), <1>f DEF InHands, IsAt, InMail
  <2> PICK g : g = caller[c].grant
    OBVIOUS
  <2>1. /\ IsAt(c, "rest") => caller[c] = Rest
        /\ IsAt(c, "keep") => caller[c].app \in 1 .. apps
        /\ caller[c].at \in {"save", "link", "create", "hook"} =>
              g \in 1 .. Len(grant) /\ grant[g].app = app
        /\ caller[c].at \in {"save", "link", "create"}
              \/ (IsAt(c, "hook") /\ caller[c].kind = "created") =>
              grant[g].live \/ InMail("deleted", g)
        /\ IsAt(c, "hook") /\ caller[c].kind = "deleted" => ~grant[g].live
    BY DEF AppOK, InHands
  <2>2. g \in 1 .. Len(grant) =>
           /\ g \in 1 .. Len(grant') /\ grant'[g].app = grant[g].app
           /\ (~grant[g].live => ~grant'[g].live)
           /\ grant[g].live \/ InMail("deleted", g) => grant'[g].live \/ InMail("deleted", g)'
    <3>1. ASSUME g \in 1 .. Len(grant)
          PROVE  /\ g \in 1 .. Len(grant') /\ grant'[g].app = grant[g].app
                 /\ (~grant[g].live => ~grant'[g].live)
      BY <1>f, <3>1
    <3>2. ASSUME g \in 1 .. Len(grant), grant[g].live \/ InMail("deleted", g)
          PROVE  grant'[g].live \/ InMail("deleted", g)'
      BY <1>2, <3>2
    <3> QED BY <3>1, <3>2
  <2>3. /\ caller[c].at \in {"save", "link", "create", "hook"} =>
              g \in 1 .. Len(grant') /\ grant'[g].app = app
        /\ caller[c].at \in {"save", "link", "create"}
              \/ (IsAt(c, "hook") /\ caller[c].kind = "created") =>
              grant'[g].live \/ InMail("deleted", g)'
        /\ IsAt(c, "hook") /\ caller[c].kind = "deleted" => ~grant'[g].live
    <3>1. CASE caller[c].at \in {"save", "link", "create", "hook"}
      <4>1. g \in 1 .. Len(grant) /\ grant[g].app = app
        BY <2>1, <3>1
      <4> HIDE <3>1
      <4>2. /\ g \in 1 .. Len(grant') /\ grant'[g].app = grant[g].app
            /\ (~grant[g].live => ~grant'[g].live)
            /\ grant[g].live \/ InMail("deleted", g) => grant'[g].live \/ InMail("deleted", g)'
        BY <2>2, <4>1
      <4> QED BY <2>1, <4>1, <4>2
    <3>2. CASE caller[c].at \notin {"save", "link", "create", "hook"}
      BY <3>2 DEF IsAt
    <3> QED BY <3>1, <3>2
  <2> QED BY <2>1, <2>3
<1>7. KnownOK'
  <2> SUFFICES ASSUME NEW g \in 1 .. Len(grant')
               PROVE  /\ g \in known =>
                            /\ grant'[g].app = app
                            /\ grant'[g].live \/ InMail("deleted", g)' \/ InHand("deleted", g)'
                      /\ Answers(app, g)' =>
                            g \in known \/ InMail("created", g)' \/ InHand("created", g)'
    BY DEF KnownOK, Answers
  <2>1. CASE g \in 1 .. Len(grant)
    <3>1. /\ g \in known =>
                /\ grant[g].app = app
                /\ grant[g].live \/ InMail("deleted", g) \/ InHand("deleted", g)
          /\ Answers(app, g) => g \in known \/ InMail("created", g) \/ InHand("created", g)
      BY <2>1 DEF AppOK, KnownOK
    <3>2. Answers(app, g)' => Answers(app, g)
      BY <2>1 DEF Answers
    <3> QED BY <1>2, <1>3, <1>4, <2>1, <3>1, <3>2
  <2>2. CASE g \notin 1 .. Len(grant)
    <3>1. g \in Len(grant) + 1 .. Len(grant') /\ g \notin known
      BY <1>f, <2>2
    <3> QED BY <3>1 DEF InMail
  <2> QED BY <2>1, <2>2
<1>8. OwedOK'
  <2>1. ASSUME NEW p \in owed, Reached'
        PROVE  \/ p \in deployed
               \/ \E i \in 1 .. Len(mail') :
                     mail'[i].kind = "push" /\ mail'[i].push = p /\ mail'[i].app = app
               \/ \E c \in Caller : IsAt(c, "hook") /\ caller[c].kind = "push" /\ caller[c].push = p
    <3>1. \/ p \in deployed
          \/ \E i \in 1 .. Len(mail) :
                mail[i].kind = "push" /\ mail[i].push = p /\ mail[i].app = app
          \/ \E c \in Caller : IsAt(c, "hook") /\ caller[c].kind = "push" /\ caller[c].push = p
      BY DEF AppOK, OwedOK
    <3>2. ASSUME NEW i \in 1 .. Len(mail)
          PROVE  i \in 1 .. Len(mail') /\ mail'[i] = mail[i]
      BY <1>f
    <3> QED BY <3>1, <3>2
  <2>2. owed' # {} => Reached'
    OBVIOUS
  <2> QED BY <2>1, <2>2 DEF OwedOK, IsAt
<1> QED BY <1>1, <1>5, <1>6, <1>7, <1>8 DEF AppOK

LEMMA InstallsOK ==
    ASSUME AppOK, NEW a \in App, Installs(a), Noting(FALSE), ~muddled'
    PROVE  AppOK'
<1> DEFINE one == [app |-> a, live |-> TRUE]
           told == [kind |-> "created", app |-> a, grant |-> Len(grant'), push |-> 0]
<1>f. /\ Len(grant) \in Nat /\ Len(mail) \in Nat /\ apps \in Nat /\ pushes \in Nat
      /\ grant \in Seq(Installation) /\ mail \in Seq(Delivery)
      /\ \A g \in 1 .. Len(grant) : grant[g].app \in 1 .. apps
  BY AppFacts
<1>a. a \in 1 .. apps /\ a \in Nat
  BY <1>f, GitHubAssumption DEF Installs, App
<1>1. one \in Installation /\ one.app = a /\ one.live
  BY <1>a DEF Installation
<1>2. grant' = Append(grant, one) /\ mail' = Append(mail, told)
      /\ UNCHANGED <<apps, app, known, project, caller, deployed>>
  BY DEF Installs
<1> HIDE DEF one
<1>3. /\ grant' \in Seq(Installation) /\ Len(grant') = Len(grant) + 1
      /\ \A i \in 1 .. Len(grant) : grant'[i] = grant[i]
      /\ grant'[Len(grant) + 1] = one
  BY <1>f, <1>1, <1>2, AppendProperties
<1>4. /\ told \in Delivery /\ told.kind = "created" /\ told.app = a
      /\ told.grant = Len(grant) + 1 /\ told.push = 0
  BY <1>a, <1>3, <1>f DEF Delivery
<1> HIDE DEF told
<1>5. /\ mail' \in Seq(Delivery) /\ Len(mail') = Len(mail) + 1
      /\ \A i \in 1 .. Len(mail) : mail'[i] = mail[i]
      /\ mail'[Len(mail) + 1] = told
  BY <1>f, <1>2, <1>4, AppendProperties
<1>6. /\ pushes' = pushes /\ (pushes + 1) .. pushes' = {}
      /\ owed' = IF Reached' THEN owed \cup ((pushes + 1) .. pushes') ELSE {}
      /\ ~Collides'
  <2>1. pushes' = pushes
    BY DEF Installs
  <2>2. (pushes + 1) .. pushes = {}
    BY <1>f
  <2>3. owed' = (IF Reached' THEN owed \cup ((pushes + 1) .. pushes') ELSE {}) /\ ~Collides'
    BY DEF Noting
  <2> QED BY <2>1, <2>2, <2>3
<1>7. \A g \in 1 .. Len(grant') : grant'[g].app \in 1 .. apps
  BY <1>f, <1>a, <1>1, <1>3
<1>8. /\ \A g \in Len(grant) + 1 .. Len(grant') : g = Len(grant) + 1
      /\ \A j \in Len(mail) + 1 .. Len(mail') : j = Len(mail) + 1
      /\ Len(mail) + 1 \in 1 .. Len(mail') /\ Len(grant) + 1 \in 1 .. Len(grant')
      /\ Len(mail) <= Len(mail') /\ Len(grant) <= Len(grant')
  BY <1>f, <1>3, <1>5
<1>9. \A g \in Len(grant) + 1 .. Len(grant') :
         \E j \in 1 .. Len(mail') : mail'[j].kind = "created" /\ mail'[j].grant = g
  BY <1>4, <1>5, <1>8
<1>10. \A i \in Len(mail) + 1 .. Len(mail') :
          /\ mail'[i].grant \in 1 .. Len(grant') /\ mail'[i].app = grant'[mail'[i].grant].app
          /\ mail'[i].kind = "deleted" => ~grant'[mail'[i].grant].live
          /\ mail'[i].kind = "created" => grant'[mail'[i].grant].live
  BY <1>1, <1>3, <1>4, <1>5, <1>8
<1>11. \A g \in 1 .. Len(grant) :
          /\ grant'[g].app = grant[g].app
          /\ grant'[g].live => grant[g].live
          /\ grant[g].live =>
                grant'[g].live \/ \E j \in Len(mail) + 1 .. Len(mail') :
                                     mail'[j].kind = "deleted" /\ mail'[j].grant = g
  BY <1>3
<1>12. pushes' \in Nat
  BY <1>6, <1>f
<1> QED BY MailGrows, <1>2, <1>3, <1>5, <1>6, <1>7, <1>8, <1>9, <1>10, <1>11, <1>12

LEMMA UninstallsOK ==
    ASSUME AppOK, NEW g \in Grant, Uninstalls(g), Noting(FALSE), ~muddled'
    PROVE  AppOK'
<1> DEFINE gone == [grant[g] EXCEPT !.live = FALSE]
           told == [kind |-> "deleted", app |-> grant[g].app, grant |-> g, push |-> 0]
<1>f. /\ Len(grant) \in Nat /\ Len(mail) \in Nat /\ apps \in Nat /\ pushes \in Nat
      /\ grant \in Seq(Installation) /\ mail \in Seq(Delivery)
      /\ \A h \in 1 .. Len(grant) : grant[h] \in Installation /\ grant[h].app \in 1 .. apps
      /\ Granted = 1 .. Len(grant)
  BY AppFacts
<1>a. g \in 1 .. Len(grant) /\ g \in Nat /\ grant[g] \in Installation /\ grant[g].app \in Nat
  BY <1>f DEF Uninstalls, Installation
<1>1. gone \in Installation /\ gone.app = grant[g].app /\ ~gone.live
  BY <1>a DEF Installation
<1>2. grant' = [grant EXCEPT ![g] = gone] /\ mail' = Append(mail, told)
      /\ UNCHANGED <<apps, app, known, project, caller, deployed>>
  BY DEF Uninstalls
<1> HIDE DEF gone
<1>3. /\ grant' \in Seq(Installation) /\ Len(grant') = Len(grant)
      /\ \A i \in 1 .. Len(grant) : grant'[i] = IF i = g THEN gone ELSE grant[i]
  BY <1>f, <1>a, <1>1, <1>2, ExceptSeq
<1>4. /\ told \in Delivery /\ told.kind = "deleted" /\ told.app = grant[g].app
      /\ told.grant = g /\ told.push = 0
  BY <1>a, <1>f DEF Delivery
<1> HIDE DEF told
<1>5. /\ mail' \in Seq(Delivery) /\ Len(mail') = Len(mail) + 1
      /\ \A i \in 1 .. Len(mail) : mail'[i] = mail[i]
      /\ mail'[Len(mail) + 1] = told
  BY <1>f, <1>2, <1>4, AppendProperties
<1>6. /\ pushes' = pushes /\ (pushes + 1) .. pushes' = {}
      /\ owed' = IF Reached' THEN owed \cup ((pushes + 1) .. pushes') ELSE {}
      /\ ~Collides'
  <2>1. pushes' = pushes
    BY DEF Uninstalls
  <2>2. (pushes + 1) .. pushes = {}
    BY <1>f
  <2>3. owed' = (IF Reached' THEN owed \cup ((pushes + 1) .. pushes') ELSE {}) /\ ~Collides'
    BY DEF Noting
  <2> QED BY <2>1, <2>2, <2>3
<1>7. \A h \in 1 .. Len(grant') : grant'[h].app \in 1 .. apps
  BY <1>f, <1>a, <1>1, <1>3
<1>8. /\ Len(grant) + 1 .. Len(grant') = {}
      /\ \A j \in Len(mail) + 1 .. Len(mail') : j = Len(mail) + 1
      /\ Len(mail) + 1 \in 1 .. Len(mail') /\ Len(mail) + 1 \in Len(mail) + 1 .. Len(mail')
      /\ Len(mail) <= Len(mail') /\ Len(grant) <= Len(grant')
  BY <1>f, <1>3, <1>5
<1>9. \A h \in Len(grant) + 1 .. Len(grant') :
         \E j \in 1 .. Len(mail') : mail'[j].kind = "created" /\ mail'[j].grant = h
  BY <1>8
<1>10. \A i \in Len(mail) + 1 .. Len(mail') :
          /\ mail'[i].grant \in 1 .. Len(grant') /\ mail'[i].app = grant'[mail'[i].grant].app
          /\ mail'[i].kind = "deleted" => ~grant'[mail'[i].grant].live
          /\ mail'[i].kind = "created" => grant'[mail'[i].grant].live
  BY <1>a, <1>1, <1>3, <1>4, <1>5, <1>8
<1>11. \A h \in 1 .. Len(grant) :
          /\ grant'[h].app = grant[h].app
          /\ grant'[h].live => grant[h].live
          /\ grant[h].live =>
                grant'[h].live \/ \E j \in Len(mail) + 1 .. Len(mail') :
                                     mail'[j].kind = "deleted" /\ mail'[j].grant = h
  <2> TAKE h \in 1 .. Len(grant)
  <2>1. CASE h = g
    <3>1. grant'[h] = gone
      BY <1>3, <2>1
    <3>2. mail'[Len(mail) + 1].kind = "deleted" /\ mail'[Len(mail) + 1].grant = h
      BY <1>4, <1>5, <2>1
    <3> QED BY <1>1, <1>8, <2>1, <3>1, <3>2
  <2>2. CASE h # g
    BY <1>3, <2>2
  <2> QED BY <2>1, <2>2
<1>12. pushes' \in Nat
  BY <1>6, <1>f
<1> QED BY MailGrows, <1>2, <1>3, <1>5, <1>6, <1>7, <1>8, <1>9, <1>10, <1>11, <1>12

LEMMA PushesOK ==
    ASSUME AppOK, Pushes, Noting(FALSE), ~muddled'
    PROVE  AppOK'
<1>f. /\ Len(grant) \in Nat /\ Len(mail) \in Nat /\ apps \in Nat /\ pushes \in Nat
      /\ grant \in Seq(Installation) /\ mail \in Seq(Delivery)
      /\ \A h \in 1 .. Len(grant) : grant[h] \in Installation /\ grant[h].app \in 1 .. apps
      /\ Granted = 1 .. Len(grant) /\ known \subseteq 1 .. Len(grant)
      /\ project \in [there : BOOLEAN, link : {0} \cup known]
  BY AppFacts
<1>1. /\ pushes' = pushes + 1
      /\ UNCHANGED <<apps, app, grant, known, project, caller, deployed>>
  BY DEF Pushes
<1> DEFINE Tell(g) == [kind |-> "push", app |-> grant[g].app, grant |-> g, push |-> pushes']
<1>n. PICK n \in 0 .. Len(grant) : \E told \in [1 .. n -> Live] :
         /\ \A g \in Live : \E k \in 1 .. n : told[k] = g
         /\ mail' = mail \o [k \in 1 .. n |-> Tell(told[k])]
  BY DEF Pushes
<1>2. PICK told \in [1 .. n -> Live] :
         /\ \A g \in Live : \E k \in 1 .. n : told[k] = g
         /\ mail' = mail \o [k \in 1 .. n |-> Tell(told[k])]
  BY <1>n
<1>3. n \in Nat /\ \A k \in 1 .. n : told[k] \in 1 .. Len(grant) /\ grant[told[k]].live
  BY <1>f, <1>2 DEF Live
<1>4. \A g \in 1 .. Len(grant) :
         /\ Tell(g) \in Delivery /\ Tell(g).kind = "push" /\ Tell(g).push = pushes + 1
         /\ Tell(g).app = grant[g].app /\ Tell(g).grant = g
  BY <1>f, <1>1 DEF Delivery, Installation
<1> HIDE DEF Tell
<1> DEFINE news == [k \in 1 .. n |-> Tell(told[k])]
<1>5. /\ news \in Seq(Delivery) /\ Len(news) = n
      /\ \A k \in 1 .. n : news[k] = Tell(told[k])
  BY <1>3, <1>4
<1>6. mail' = mail \o news
  BY <1>2
<1> HIDE DEF news
<1>7. /\ mail' \in Seq(Delivery) /\ Len(mail') = Len(mail) + n
      /\ \A i \in 1 .. Len(mail) + n :
            mail'[i] = IF i <= Len(mail) THEN mail[i] ELSE news[i - Len(mail)]
  BY <1>5, <1>6, <1>f, ConcatProperties
<1>8. \A i \in 1 .. Len(mail) : mail'[i] = mail[i]
  BY <1>f, <1>3, <1>7
<1>9. \A i \in Len(mail) + 1 .. Len(mail') :
         i - Len(mail) \in 1 .. n /\ mail'[i] = Tell(told[i - Len(mail)])
  BY <1>f, <1>3, <1>5, <1>7
<1>10. \A i \in Len(mail) + 1 .. Len(mail') :
          /\ mail'[i].grant \in 1 .. Len(grant') /\ mail'[i].app = grant'[mail'[i].grant].app
          /\ mail'[i].kind = "deleted" => ~grant'[mail'[i].grant].live
          /\ mail'[i].kind = "created" => grant'[mail'[i].grant].live
  BY <1>1, <1>3, <1>4, <1>9
<1>11. /\ owed' = IF Reached' THEN owed \cup ((pushes + 1) .. pushes') ELSE {}
       /\ ~Collides'
  BY DEF Noting
<1>12. ASSUME Reached', NEW p \in (pushes + 1) .. pushes'
       PROVE  \E i \in 1 .. Len(mail') :
                 mail'[i].kind = "push" /\ mail'[i].push = p /\ mail'[i].app = app
  <2>1. p = pushes + 1
    BY <1>1, <1>f
  <2>2. project.link \in known /\ grant[project.link].live
    BY <1>1, <1>12, <1>f DEF Reached
  <2>3. PICK g \in 1 .. Len(grant) : g = project.link
    BY <2>2, <1>f
  <2>4. g \in Live /\ grant[g].app = app
    BY <2>2, <2>3, <1>f DEF Live, AppOK, KnownOK
  <2>5. PICK k \in 1 .. n : told[k] = g
    BY <1>2, <2>4
  <2>6. Len(mail) + k \in 1 .. Len(mail') /\ mail'[Len(mail) + k] = Tell(g)
    <3>1. /\ Len(mail) + k \in 1 .. Len(mail) + n /\ ~(Len(mail) + k <= Len(mail))
          /\ (Len(mail) + k) - Len(mail) = k
      BY <1>f, <1>3
    <3> QED BY <1>5, <1>7, <2>5, <3>1
  <2> QED BY <1>4, <2>1, <2>4, <2>6
<1>13. /\ Len(mail) <= Len(mail') /\ Len(grant) <= Len(grant') /\ grant' = grant
       /\ Len(grant) + 1 .. Len(grant') = {} /\ pushes' \in Nat
  BY <1>1, <1>f, <1>3, <1>7
<1>14. /\ grant' \in Seq(Installation)
       /\ \A g \in 1 .. Len(grant') : grant'[g].app \in 1 .. apps
       /\ \A g \in 1 .. Len(grant) :
             /\ grant'[g].app = grant[g].app
             /\ grant'[g].live => grant[g].live
             /\ grant[g].live => grant'[g].live
       /\ \A g \in Len(grant) + 1 .. Len(grant') :
             \E j \in 1 .. Len(mail') : mail'[j].kind = "created" /\ mail'[j].grant = g
  BY <1>13, <1>f
<1> QED BY MailGrows, <1>1, <1>7, <1>8, <1>10, <1>11, <1>12, <1>13, <1>14

\* A request that is not a delivery goes on: what it will write, and what it
\* writes, is of the connected app's installations.
LEMMA PageMoves ==
    ASSUME AppOK, NEW c \in Caller, NEW r \in Request,
           UNCHANGED <<grant, mail, pushes, app, deployed>>,
           caller' = [caller EXCEPT ![c] = r],
           ~IsAt(c, "hook"), r.at # "hook",
           apps' \in Nat, apps <= apps',
           r.at = "rest" => r = Rest,
           r.at = "keep" => r.app \in 1 .. apps',
           r.at \in {"save", "link", "create"} =>
              /\ r.grant \in 1 .. Len(grant) /\ grant[r.grant].app = app
              /\ grant[r.grant].live \/ InMail("deleted", r.grant),
           known \subseteq known',
           \A g \in known' \ known :
              /\ g \in 1 .. Len(grant) /\ grant[g].app = app
              /\ grant[g].live \/ InMail("deleted", g),
           project' \in [there : BOOLEAN, link : {0} \cup known'],
           owed' = IF Reached' THEN owed \cup ((pushes + 1) .. pushes') ELSE {},
           ~Collides'
    PROVE  AppOK'
<1>f. /\ apps \in Nat /\ app \in Nat /\ app <= apps /\ pushes \in Nat
      /\ grant \in Seq(Installation) /\ mail \in Seq(Delivery)
      /\ \A g \in 1 .. Len(grant) : grant[g].app \in 1 .. apps
      /\ caller \in [Caller -> Request] /\ known \subseteq 1 .. Len(grant)
  BY AppFacts
<1>c. \A d \in Caller : caller'[d] = IF d = c THEN r ELSE caller[d]
  BY <1>f
<1>m. \A kind, g : InMail(kind, g)' <=> InMail(kind, g)
  BY DEF InMail
<1>h. \A kind, g : InHand(kind, g) => InHand(kind, g)'
  BY <1>c DEF InHand, IsAt
<1>1. GitHubShape'
  <2>1. known' \subseteq 1 .. Len(grant)
    BY <1>f
  <2>2. app \in 0 .. apps' /\ \A g \in 1 .. Len(grant) : grant[g].app \in 1 .. apps'
    BY <1>f
  <2>3. caller' \in [Caller -> Request]
    BY <1>f
  <2> QED BY <1>f, <2>1, <2>2, <2>3 DEF GitHubShape
<1>2. Mailed'
  BY DEF AppOK, Mailed
<1>3. InHands'
  <2> SUFFICES ASSUME NEW d \in Caller, NEW s, s = caller'[d]
               PROVE  /\ s.at = "rest" => s = Rest
                      /\ s.at = "keep" => s.app \in 1 .. apps'
                      /\ s.at \in {"save", "link", "create", "hook"} =>
                            s.grant \in 1 .. Len(grant) /\ grant[s.grant].app = app
                      /\ s.at \in {"save", "link", "create"}
                            \/ (s.at = "hook" /\ s.kind = "created") =>
                            grant[s.grant].live \/ InMail("deleted", s.grant)
                      /\ s.at = "hook" /\ s.kind = "deleted" => ~grant[s.grant].live
    BY <1>m DEF InHands, IsAt, InMail
  <2>1. CASE d = c
    BY <1>c, <2>1
  <2>2. CASE d # c
    <3>1. s = caller[d]
      BY <1>c, <2>2
    <3>2. s.at = "keep" => s.app \in 1 .. apps
      BY <3>1 DEF AppOK, InHands, IsAt
    <3>3. 1 .. apps \subseteq 1 .. apps'
      BY <1>f
    <3> QED BY <3>1, <3>2, <3>3 DEF AppOK, InHands, IsAt
  <2> QED BY <2>1, <2>2
<1>4. KnownOK'
  <2> SUFFICES ASSUME NEW g \in 1 .. Len(grant)
               PROVE  /\ g \in known' =>
                            /\ grant[g].app = app
                            /\ grant[g].live \/ InMail("deleted", g) \/ InHand("deleted", g)'
                      /\ Answers(app, g) =>
                            g \in known' \/ InMail("created", g) \/ InHand("created", g)'
    BY <1>m DEF KnownOK, Answers
  <2>1. /\ g \in known =>
              /\ grant[g].app = app
              /\ grant[g].live \/ InMail("deleted", g) \/ InHand("deleted", g)
        /\ Answers(app, g) => g \in known \/ InMail("created", g) \/ InHand("created", g)
    BY DEF AppOK, KnownOK
  <2> QED BY <1>h, <2>1
<1>5. OwedOK'
  <2>1. (pushes + 1) .. pushes' = {}
    <3>1. (pushes + 1) .. pushes = {}
      BY <1>f
    <3> QED BY <3>1
  <2>2. owed' # {} => Reached' /\ owed' = owed
    BY <2>1
  <2>3. ASSUME NEW p \in owed
        PROVE  \/ p \in deployed
               \/ \E i \in 1 .. Len(mail) :
                     mail[i].kind = "push" /\ mail[i].push = p /\ mail[i].app = app
               \/ \E d \in Caller :
                     caller'[d].at = "hook" /\ caller'[d].kind = "push" /\ caller'[d].push = p
    BY <1>c DEF AppOK, OwedOK, IsAt
  <2> QED BY <2>2, <2>3 DEF OwedOK, IsAt
<1> QED BY <1>1, <1>2, <1>3, <1>4, <1>5 DEF AppOK

LEMMA AskedIs ==
    ASSUME NEW at, NEW g, NEW kind
    PROVE  [Rest EXCEPT !.at = at, !.grant = g, !.kind = kind] =
              [at |-> at, app |-> 0, grant |-> g, kind |-> kind, push |-> 0]
<1> DEFINE mid1 == [Rest EXCEPT !.at = at]
           mid2 == [mid1 EXCEPT !.grant = g]
<1>1. mid1 = [at |-> at, app |-> 0, grant |-> 0, kind |-> "none", push |-> 0]
  BY DEF Rest
<1> HIDE DEF mid1
<1>2. mid2 = [at |-> at, app |-> 0, grant |-> g, kind |-> "none", push |-> 0]
  BY <1>1
<1> HIDE DEF mid2
<1>3. [mid2 EXCEPT !.kind = kind] = [at |-> at, app |-> 0, grant |-> g, kind |-> kind, push |-> 0]
  BY <1>2
<1> QED BY <1>3 DEF mid1, mid2

LEMMA KeepIs ==
    ASSUME NEW a
    PROVE  [Rest EXCEPT !.at = "keep", !.app = a] =
              [at |-> "keep", app |-> a, grant |-> 0, kind |-> "none", push |-> 0]
<1> DEFINE mid1 == [Rest EXCEPT !.at = "keep"]
<1>1. mid1 = [at |-> "keep", app |-> 0, grant |-> 0, kind |-> "none", push |-> 0]
  BY DEF Rest
<1> HIDE DEF mid1
<1>2. [mid1 EXCEPT !.app = a] = [at |-> "keep", app |-> a, grant |-> 0, kind |-> "none", push |-> 0]
  BY <1>1
<1> QED BY <1>2 DEF mid1

\* The same, when the request writes no installation.
LEMMA PageGoesOn ==
    ASSUME AppOK, NEW c \in Caller, NEW r \in Request,
           UNCHANGED <<grant, mail, pushes, apps, app, known, deployed>>,
           caller' = [caller EXCEPT ![c] = r],
           ~IsAt(c, "hook"), r = Rest \/ r.at \in {"save", "link", "create"},
           r.at \in {"save", "link", "create"} =>
              /\ r.grant \in 1 .. Len(grant) /\ grant[r.grant].app = app
              /\ grant[r.grant].live \/ InMail("deleted", r.grant),
           project' \in [there : BOOLEAN, link : {0} \cup known],
           owed' = IF Reached' THEN owed \cup ((pushes + 1) .. pushes') ELSE {},
           ~Collides'
    PROVE  AppOK'
<1>1. /\ r.at # "hook" /\ (r.at = "rest" => r = Rest)
      /\ (r.at = "keep" => r.app \in 1 .. apps')
  BY RestIs
<1>2. /\ apps' \in Nat /\ apps <= apps' /\ known \subseteq known'
      /\ \A g \in known' \ known :
            /\ g \in 1 .. Len(grant) /\ grant[g].app = app
            /\ grant[g].live \/ InMail("deleted", g)
      /\ project' \in [there : BOOLEAN, link : {0} \cup known']
  BY AppFacts
<1> QED BY <1>1, <1>2, PageMoves

LEMMA PageOK ==
    ASSUME AppOK, NEW c \in Caller, Page(c), Noting(FALSE), ~muddled'
    PROVE  AppOK'
<1>f. /\ apps \in Nat /\ app \in Nat /\ app <= apps /\ Len(grant) \in Nat
      /\ \A g \in 1 .. Len(grant) : grant[g] \in Installation /\ grant[g].app \in 1 .. apps
      /\ caller \in [Caller -> Request] /\ known \subseteq 1 .. Len(grant)
      /\ project \in [there : BOOLEAN, link : {0} \cup known]
      /\ Granted = 1 .. Len(grant)
  BY AppFacts
<1>n. /\ owed' = IF Reached' THEN owed \cup ((pushes + 1) .. pushes') ELSE {}
      /\ ~Collides'
  BY DEF Noting
<1>c. /\ caller[c] \in Request
      /\ IsAt(c, "rest") => caller[c] = Rest
      /\ caller[c].at \in {"save", "link", "create"} =>
            /\ caller[c].grant \in 1 .. Len(grant) /\ grant[caller[c].grant].app = app
            /\ grant[caller[c].grant].live \/ InMail("deleted", caller[c].grant)
  BY <1>f DEF AppOK, InHands, IsAt
<1>r. caller[c] = Rest => ~IsAt(c, "hook")
  BY RestIs DEF IsAt
<1>1. CASE AppCreated(c)
  <2> DEFINE r == [at |-> "keep", app |-> apps', grant |-> 0, kind |-> "none", push |-> 0]
  <2>1. /\ caller[c] = Rest /\ caller' = [caller EXCEPT ![c] = r] /\ apps' = apps + 1
        /\ UNCHANGED <<grant, mail, pushes, app, known, project, deployed>>
    BY <1>1, KeepIs DEF AppCreated, Begins, onGitHub
  <2>2. r \in Request /\ r.at = "keep" /\ r.app \in 1 .. apps'
    BY <2>1, <1>f DEF Request
  <2> HIDE DEF r
  <2>3. apps' \in Nat /\ apps <= apps'
    BY <2>1, <1>f
  <2> QED BY <1>f, <1>n, <1>r, <2>1, <2>2, <2>3, PageMoves
<1>b. ASSUME NEW g \in Granted, Answers(app, g), NEW at \in {"save", "create"},
             NEW kind \in {"record", "link", "import"},
             Begins(c, [Rest EXCEPT !.at = at, !.grant = g, !.kind = kind]),
             UNCHANGED <<onGitHub, apps, app, known, project, deployed>>
      PROVE  AppOK'
  <2> DEFINE r == [at |-> at, app |-> 0, grant |-> g, kind |-> kind, push |-> 0]
  <2>1. /\ caller[c] = Rest /\ caller' = [caller EXCEPT ![c] = r]
        /\ UNCHANGED <<grant, mail, pushes, apps, app, known, project, deployed>>
    <3>1. PICK s : s = [Rest EXCEPT !.at = at, !.grant = g, !.kind = kind]
      OBVIOUS
    <3>2. caller[c] = Rest /\ caller' = [caller EXCEPT ![c] = s]
      BY <1>b, <3>1 DEF Begins
    <3>3. s = r
      BY <3>1, AskedIs
    <3>4. UNCHANGED <<grant, mail, pushes, apps, app, known, project, deployed>>
      BY <1>b DEF onGitHub
    <3> QED BY <3>2, <3>3, <3>4
  <2>2. r \in Request /\ r.at = at /\ r.grant = g /\ r.at \in {"save", "create"}
    BY <1>f DEF Request
  <2> HIDE DEF r
  <2>3. g \in 1 .. Len(grant) /\ grant[g].app = app /\ grant[g].live
    BY <1>b, <1>f DEF Answers
  <2>4. project' \in [there : BOOLEAN, link : {0} \cup known]
    BY <1>f, <2>1
  <2> QED BY <1>n, <1>r, <2>1, <2>2, <2>3, <2>4, PageGoesOn
<1>2. CASE AppInstalled(c)
  BY <1>2, <1>b DEF AppInstalled
<1>3. CASE Links(c)
  BY <1>3, <1>b DEF Links
<1>6. CASE Imports(c)
  BY <1>6, <1>b, <1>f DEF Imports
<1>p. ASSUME NEW at, NEW r, r = [caller[c] EXCEPT !.at = at], at = "link"
      PROVE  r \in Request /\ r.at = at /\ r.grant = caller[c].grant
  BY <1>c, <1>p DEF Request
<1>4. CASE SavesInstallation(c)
  <2>1. /\ IsAt(c, "save") /\ ~IsAt(c, "hook") /\ known' = known \cup {caller[c].grant}
        /\ UNCHANGED <<grant, mail, pushes, apps, app, project, deployed>>
    BY <1>4 DEF SavesInstallation, onGitHub, IsAt
  <2>2. /\ caller[c].grant \in 1 .. Len(grant) /\ grant[caller[c].grant].app = app
        /\ grant[caller[c].grant].live \/ InMail("deleted", caller[c].grant)
    BY <1>c, <2>1 DEF IsAt
  <2>3. /\ known \subseteq known' /\ project' \in [there : BOOLEAN, link : {0} \cup known']
        /\ \A g \in known' \ known :
              /\ g \in 1 .. Len(grant) /\ grant[g].app = app
              /\ grant[g].live \/ InMail("deleted", g)
        /\ apps' \in Nat /\ apps <= apps'
    BY <1>f, <2>1, <2>2
  <2>4. CASE caller' = [caller EXCEPT ![c] = Rest]
    <3>1. /\ Rest.at # "hook" /\ (Rest.at = "keep" => Rest.app \in 1 .. apps')
          /\ Rest.at \notin {"save", "link", "create"}
      BY RestIs
    <3> QED BY <1>n, <2>1, <2>3, <2>4, <3>1, RestIs, PageMoves
  <2>5. CASE caller' = [caller EXCEPT ![c].at = "link"]
    <3>1. PICK r : r = [caller[c] EXCEPT !.at = "link"]
      OBVIOUS
    <3>2. caller' = [caller EXCEPT ![c] = r]
      BY <2>5, <3>1
    <3>3. r \in Request /\ r.at = "link" /\ r.grant = caller[c].grant
      BY <1>p, <3>1
    <3>4. /\ r.at # "hook" /\ (r.at = "rest" => r = Rest)
          /\ (r.at = "keep" => r.app \in 1 .. apps')
      BY <3>3
    <3> QED BY <1>n, <2>1, <2>2, <2>3, <3>2, <3>3, <3>4, PageMoves
  <2> QED BY <1>4, <2>4, <2>5 DEF SavesInstallation, Ends, Proceeds
<1>5. CASE LinksProject(c)
  <2>1. /\ IsAt(c, "link") /\ ~IsAt(c, "hook") /\ caller' = [caller EXCEPT ![c] = Rest]
        /\ UNCHANGED <<grant, mail, pushes, apps, app, known, deployed>>
    BY <1>5 DEF LinksProject, Ends, onGitHub, IsAt
  <2>2. project' \in [there : BOOLEAN, link : {0} \cup known]
    <3>1. CASE caller[c].grant \in known
      <4>1. project' = [project EXCEPT !.link = caller[c].grant]
        BY <1>5, <3>1 DEF LinksProject
      <4> QED BY <1>f, <2>1, <3>1, <4>1
    <3>2. CASE caller[c].grant \notin known
      BY <1>5, <1>f, <2>1, <3>2 DEF LinksProject
    <3> QED BY <3>1, <3>2
  <2>3. Rest.at \notin {"save", "link", "create"}
    BY RestIs
  <2> QED BY <1>n, <2>1, <2>2, <2>3, RestIs, PageGoesOn
<1>7. CASE CreatesProject(c)
  <2>1. /\ IsAt(c, "create") /\ ~IsAt(c, "hook")
        /\ UNCHANGED <<grant, mail, pushes, apps, app, known, deployed>>
    BY <1>7 DEF CreatesProject, onGitHub, IsAt
  <2>2. CASE project.there
    <3>1. caller' = [caller EXCEPT ![c] = Rest] /\ project' = project
      BY <1>7, <2>2 DEF CreatesProject, Ends
    <3>2. Rest.at \notin {"save", "link", "create"}
      BY RestIs
    <3> QED BY <1>f, <1>n, <2>1, <3>1, <3>2, RestIs, PageGoesOn
  <2>3. CASE ~project.there
    <3>1. PICK r : r = [caller[c] EXCEPT !.at = "link"]
      OBVIOUS
    <3>2. caller' = [caller EXCEPT ![c] = r] /\ project' = [there |-> TRUE, link |-> 0]
      BY <1>7, <2>3, <3>1 DEF CreatesProject, Proceeds
    <3>3. r \in Request /\ r.at = "link" /\ r.grant = caller[c].grant
      BY <1>p, <3>1
    <3>4. /\ caller[c].grant \in 1 .. Len(grant) /\ grant[caller[c].grant].app = app
          /\ grant[caller[c].grant].live \/ InMail("deleted", caller[c].grant)
      BY <1>c, <2>1 DEF IsAt
    <3>5. project' \in [there : BOOLEAN, link : {0} \cup known]
      BY <3>2
    <3> QED BY <1>f, <1>n, <2>1, <3>2, <3>3, <3>4, <3>5, PageGoesOn
  <2> QED BY <2>2, <2>3
<1> QED BY <1>1, <1>2, <1>3, <1>4, <1>5, <1>6, <1>7 DEF Page

LEMMA FailsOK ==
    ASSUME AppOK, NEW c \in Caller, RequestFails(c), Noting(IsAt(c, "hook")), ~muddled'
    PROVE  AppOK'
<1>1. /\ caller' = [caller EXCEPT ![c] = Rest] /\ ~IsAt(c, "hook")
      /\ UNCHANGED <<grant, mail, pushes, apps, app, known, project, deployed>>
  BY DEF RequestFails, Ends, onGitHub, Noting
<1>2. project' \in [there : BOOLEAN, link : {0} \cup known]
  BY <1>1, AppFacts
<1>3. owed' = (IF Reached' THEN owed \cup ((pushes + 1) .. pushes') ELSE {}) /\ ~Collides'
  BY DEF Noting
<1>4. Rest.at \notin {"save", "link", "create"}
  BY RestIs
<1> QED BY <1>1, <1>2, <1>3, <1>4, RestIs, PageGoesOn

LEMMA UnlinksOK ==
    ASSUME AppOK, Unlinks, Noting(FALSE), ~muddled'
    PROVE  AppOK'
<1>1. /\ project' = [project EXCEPT !.link = 0]
      /\ UNCHANGED <<grant, mail, pushes, apps, app, known, caller, deployed>>
  BY DEF Unlinks, onGitHub
<1>2. project' \in [there : BOOLEAN, link : {0} \cup known] /\ project'.link = 0
  BY <1>1, AppFacts
<1>3. owed' = {} /\ ~Collides'
  BY <1>2 DEF Noting, Reached
<1>4. GitHubShape'
  BY <1>1, <1>2 DEF AppOK, GitHubShape
<1>5. Mailed' /\ InHands' /\ KnownOK'
  BY <1>1 DEF AppOK, Mailed, InHands, KnownOK, IsAt, InMail, InHand, Answers
<1>6. OwedOK'
  BY <1>3 DEF OwedOK
<1> QED BY <1>3, <1>4, <1>5, <1>6 DEF AppOK

LEMMA DisconnectsOK ==
    ASSUME AppOK, Disconnects, Noting(Busy # {}), ~muddled'
    PROVE  AppOK'
<1>f. /\ apps \in Nat /\ \A g \in 1 .. Len(grant) : grant[g].app \in 1 .. apps
      /\ caller \in [Caller -> Request]
  BY AppFacts
<1>1. /\ app' = 0 /\ known' = {} /\ project' = [project EXCEPT !.link = 0]
      /\ UNCHANGED <<grant, mail, pushes, apps, caller, deployed>>
  BY DEF Disconnects, onGitHub
<1>2. project' \in [there : BOOLEAN, link : {0} \cup known'] /\ project'.link = 0
  BY <1>1, AppFacts
<1>3. owed' = {} /\ ~Collides' /\ Busy = {}
  BY <1>2 DEF Noting, Reached
<1>4. GitHubShape'
  BY <1>1, <1>2, <1>f DEF AppOK, GitHubShape
<1>5. Mailed'
  BY <1>1 DEF AppOK, Mailed
<1>6. \A c \in Caller : caller'[c] = Rest
  BY <1>1, <1>3 DEF Busy
<1>7. InHands'
  BY <1>6, RestIs DEF InHands, IsAt
<1>8. KnownOK'
  BY <1>1, <1>f DEF KnownOK, Answers
<1>9. OwedOK'
  BY <1>3 DEF OwedOK
<1> QED BY <1>3, <1>4, <1>5, <1>7, <1>8, <1>9 DEF AppOK

LEMMA KeepsOK ==
    ASSUME AppOK, NEW c \in Caller, KeepsApp(c),
           Noting(\E g \in Granted : Answers(app', g)), ~muddled'
    PROVE  AppOK'
<1>f. /\ apps \in Nat /\ app \in Nat /\ pushes \in Nat /\ Granted = 1 .. Len(grant)
      /\ \A g \in 1 .. Len(grant) : grant[g].app \in 1 .. apps
      /\ caller \in [Caller -> Request] /\ known \subseteq 1 .. Len(grant)
      /\ project \in [there : BOOLEAN, link : {0} \cup known]
  BY AppFacts
<1>1. /\ IsAt(c, "keep") /\ ~IsAt(c, "hook") /\ caller' = [caller EXCEPT ![c] = Rest]
      /\ app' = (IF app = 0 THEN caller[c].app ELSE app)
      /\ UNCHANGED <<grant, mail, pushes, apps, known, project, deployed>>
  BY DEF KeepsApp, Ends, onGitHub, IsAt
<1>2. /\ owed' = IF Reached' THEN owed \cup ((pushes + 1) .. pushes') ELSE {}
      /\ ~Collides' /\ \A g \in Granted : ~Answers(app', g)
  BY DEF Noting
<1>3. CASE app # 0
  <2>1. app' = app /\ project' \in [there : BOOLEAN, link : {0} \cup known]
    BY <1>1, <1>3, <1>f
  <2>2. Rest.at \notin {"save", "link", "create"}
    BY RestIs
  <2> QED BY <1>1, <1>2, <2>1, <2>2, RestIs, PageGoesOn
<1>4. CASE app = 0
  <2>1. \A g \in 1 .. Len(grant) : grant[g].app # app
    BY <1>4, <1>f
  <2>2. known = {} /\ project.link = 0
    <3>1. known = {}
      BY <1>f, <2>1 DEF AppOK, KnownOK
    <3> QED BY <1>f, <3>1
  <2>3. owed' = {}
    BY <1>1, <1>2, <2>2 DEF Reached
  <2>4. app' \in 1 .. apps
    BY <1>1, <1>4 DEF AppOK, InHands
  <2>5. GitHubShape'
    <3>1. app' \in 0 .. apps'
      BY <1>1, <1>f, <2>4
    <3>2. caller' \in [Caller -> Request]
      BY <1>1, <1>f, RestIs
    <3> QED BY <1>1, <3>1, <3>2 DEF AppOK, GitHubShape
  <2>6. Mailed'
    BY <1>1 DEF AppOK, Mailed
  <2>7. ASSUME NEW d \in Caller
        PROVE  caller[d].at \notin {"save", "link", "create", "hook"}
    BY <2>1 DEF AppOK, InHands
  <2>8. InHands'
    <3> SUFFICES ASSUME NEW d \in Caller
                 PROVE  /\ caller'[d].at = "rest" => caller'[d] = Rest
                        /\ caller'[d].at = "keep" => caller'[d].app \in 1 .. apps
                        /\ caller'[d].at \notin {"save", "link", "create", "hook"}
      BY <1>1 DEF InHands, IsAt
    <3>1. CASE d = c
      BY <1>1, <1>f, <3>1, RestIs
    <3>2. CASE d # c
      <4>1. caller'[d] = caller[d]
        BY <1>1, <1>f, <3>2
      <4> QED BY <2>7, <4>1 DEF AppOK, InHands, IsAt
    <3> QED BY <3>1, <3>2
  <2>9. KnownOK'
    BY <1>1, <1>2, <1>f, <2>2 DEF KnownOK, Answers
  <2>10. OwedOK'
    BY <2>3 DEF OwedOK
  <2> QED BY <1>2, <2>5, <2>6, <2>8, <2>9, <2>10 DEF AppOK
<1> QED BY <1>3, <1>4

LEMMA WithoutIs ==
    ASSUME NEW S, NEW q \in Seq(S), NEW i \in 1 .. Len(q), q = mail
    PROVE  /\ Without(i) \in Seq(S) /\ Len(Without(i)) = Len(q) - 1
           /\ \A k \in 1 .. Len(q) - 1 : Without(i)[k] = IF k < i THEN q[k] ELSE q[k + 1]
<1> DEFINE front == SubSeq(mail, 1, i - 1)
           back == SubSeq(mail, i + 1, Len(mail))
<1>1. Len(q) \in Nat /\ \A k \in 1 .. Len(q) : q[k] \in S
  BY LenProperties, ElementOfSeq
<1>2. /\ 1 \in Int /\ i - 1 \in Int /\ i + 1 \in Int /\ Len(mail) \in Int
      /\ \A k \in 1 .. i - 1 : mail[k] \in S
      /\ \A k \in i + 1 .. Len(mail) : mail[k] \in S
  BY <1>1
<1>3. /\ front \in Seq(S) /\ Len(front) = (IF 1 <= i - 1 THEN (i - 1) - 1 + 1 ELSE 0)
      /\ \A k \in 1 .. (i - 1) - 1 + 1 : front[k] = mail[1 + k - 1]
  BY <1>2, SubSeqProperties
<1>4. /\ back \in Seq(S)
      /\ Len(back) = (IF i + 1 <= Len(mail) THEN Len(mail) - (i + 1) + 1 ELSE 0)
      /\ \A k \in 1 .. Len(mail) - (i + 1) + 1 : back[k] = mail[(i + 1) + k - 1]
  BY <1>2, SubSeqProperties
<1>w. Without(i) = front \o back
  BY DEF Without
<1> HIDE DEF front, back
<1>5. Len(front) = i - 1 /\ \A k \in 1 .. i - 1 : front[k] = mail[k]
  BY <1>1, <1>3
<1>6. Len(back) = Len(mail) - i /\ \A k \in 1 .. Len(mail) - i : back[k] = mail[i + k]
  BY <1>1, <1>4
<1>7. /\ Without(i) \in Seq(S) /\ Len(Without(i)) = Len(front) + Len(back)
      /\ \A k \in 1 .. Len(front) + Len(back) :
            Without(i)[k] = IF k <= Len(front) THEN front[k] ELSE back[k - Len(front)]
  <2>1. front \in Seq(S) /\ back \in Seq(S)
    BY <1>3, <1>4
  <2> QED BY <2>1, <1>w, ConcatProperties
<1>8. Len(front) + Len(back) = Len(q) - 1
  BY <1>1, <1>5, <1>6
<1>9. ASSUME NEW k \in 1 .. Len(q) - 1
      PROVE  Without(i)[k] = IF k < i THEN q[k] ELSE q[k + 1]
  <2>1. CASE k < i
    BY <1>1, <1>5, <1>7, <1>8, <2>1
  <2>2. CASE ~(k < i)
    <3>1. /\ ~(k <= Len(front)) /\ k - Len(front) \in 1 .. Len(mail) - i
          /\ i + (k - Len(front)) = k + 1
      BY <1>1, <1>5, <2>2
    <3> QED BY <1>6, <1>7, <1>8, <2>2, <3>1
  <2> QED BY <2>1, <2>2
<1> QED BY <1>7, <1>8, <1>9

\* The oldest delivery of an installation is handed to a request, or refused
\* because it is not the connected app's.
LEMMA Delivers ==
    ASSUME AppOK, NEW c \in Caller, NEW i \in 1 .. Len(mail), ~Overtakes(i),
           mail' = Without(i),
           UNCHANGED <<apps, grant, pushes, app, known, project, deployed>>,
           caller[c] = Rest, caller' \in [Caller -> Request],
           \A d \in Caller \ {c} : caller'[d] = caller[d],
           IF mail[i].app = app
           THEN /\ IsAt(c, "hook")' /\ caller'[c].grant = mail[i].grant
                /\ caller'[c].kind = mail[i].kind /\ caller'[c].push = mail[i].push
           ELSE caller'[c] = Rest,
           owed' = IF Reached' THEN owed \cup ((pushes + 1) .. pushes') ELSE {},
           ~Collides'
    PROVE  AppOK'
<1>f. /\ pushes \in Nat /\ Len(mail) \in Nat /\ mail \in Seq(Delivery)
      /\ \A g \in 1 .. Len(grant) : grant[g].app \in 1 .. apps
  BY AppFacts
<1>1. /\ mail' \in Seq(Delivery) /\ Len(mail') = Len(mail) - 1
      /\ \A k \in 1 .. Len(mail') : mail'[k] = IF k < i THEN mail[k] ELSE mail[k + 1]
  BY <1>f, WithoutIs
<1>2. ASSUME NEW j \in 1 .. Len(mail), j # i
      PROVE  \E k \in 1 .. Len(mail') :
                mail'[k] = mail[j] /\ (j < i => k = j) /\ (i < j => k = j - 1)
  <2>1. CASE j < i
    BY <1>1, <1>f, <2>1
  <2>2. CASE i < j
    <3>1. j - 1 \in 1 .. Len(mail') /\ ~(j - 1 < i) /\ (j - 1) + 1 = j
      BY <1>1, <1>f, <2>2
    <3> QED BY <1>1, <2>2, <3>1
  <2> QED BY <1>2, <2>1, <2>2, <1>f
<1>3. ASSUME NEW kind, NEW g, InMail(kind, g)
      PROVE  InMail(kind, g)' \/ (mail[i].kind = kind /\ mail[i].grant = g)
  BY <1>2, <1>3 DEF InMail
<1>4. ASSUME NEW kind, NEW g, InHand(kind, g)
      PROVE  InHand(kind, g)'
  BY <1>4, RestIs DEF InHand, IsAt
<1>m. /\ mail[i].grant \in 1 .. Len(grant) /\ mail[i].app = grant[mail[i].grant].app
      /\ mail[i].kind = "deleted" => ~grant[mail[i].grant].live
      /\ mail[i].kind = "created" =>
            grant[mail[i].grant].live \/ \E j \in i + 1 .. Len(mail) :
                                mail[j].kind = "deleted" /\ mail[j].grant = mail[i].grant
  BY DEF AppOK, Mailed
<1>5. GitHubShape'
  BY <1>1 DEF AppOK, GitHubShape
<1>6. Mailed'
  <2> SUFFICES ASSUME NEW k \in 1 .. Len(mail')
               PROVE  /\ mail'[k].grant \in 1 .. Len(grant)
                      /\ mail'[k].app = grant[mail'[k].grant].app
                      /\ mail'[k].kind = "deleted" => ~grant[mail'[k].grant].live
                      /\ mail'[k].kind = "created" =>
                            grant[mail'[k].grant].live
                               \/ \E j \in k + 1 .. Len(mail') :
                                     mail'[j].kind = "deleted" /\ mail'[j].grant = mail'[k].grant
    BY DEF Mailed
  <2>1. PICK j \in 1 .. Len(mail) :
           mail'[k] = mail[j] /\ (j < i => j = k) /\ (i < j => j = k + 1) /\ j # i
    <3>1. CASE k < i
      <4>1. k \in 1 .. Len(mail) /\ ~(i < k) /\ k # i
        BY <1>1, <1>f, <3>1
      <4> QED BY <1>1, <3>1, <4>1
    <3>2. CASE ~(k < i)
      <4>1. k + 1 \in 1 .. Len(mail) /\ i < k + 1 /\ ~(k + 1 < i) /\ k + 1 # i
        BY <1>1, <1>f, <3>2
      <4> QED BY <1>1, <3>2, <4>1
    <3> QED BY <3>1, <3>2
  <2>2. /\ mail[j].grant \in 1 .. Len(grant) /\ mail[j].app = grant[mail[j].grant].app
        /\ mail[j].kind = "deleted" => ~grant[mail[j].grant].live
        /\ mail[j].kind = "created" =>
              grant[mail[j].grant].live \/ \E l \in j + 1 .. Len(mail) :
                                  mail[l].kind = "deleted" /\ mail[l].grant = mail[j].grant
    BY DEF AppOK, Mailed
  <2>3. ASSUME NEW l \in j + 1 .. Len(mail), mail[l].kind = "deleted",
               mail[l].grant = mail[j].grant
        PROVE  \E n \in k + 1 .. Len(mail') :
                  mail'[n].kind = "deleted" /\ mail'[n].grant = mail'[k].grant
    <3>1. l # i
      BY <2>3, <1>f DEF Overtakes
    <3>2. l \in 1 .. Len(mail)
      BY <1>f
    <3>3. PICK n \in 1 .. Len(mail') :
             mail'[n] = mail[l] /\ (l < i => n = l) /\ (i < l => n = l - 1)
      BY <1>2, <3>1, <3>2
    <3>4. n \in k + 1 .. Len(mail')
      BY <1>f, <1>1, <2>1, <3>1, <3>3
    <3> QED BY <2>1, <2>3, <3>3, <3>4
  <2> QED BY <2>1, <2>2, <2>3
<1>7. ASSUME NEW d \in Caller \ {c},
             caller[d].at \in {"save", "link", "create"}
                \/ (IsAt(d, "hook") /\ caller[d].kind = "created")
      PROVE  \A g : g = caller[d].grant => grant[g].live \/ InMail("deleted", g)'
  <2> TAKE g
  <2> HAVE g = caller[d].grant
  <2>1. /\ grant[g].live \/ InMail("deleted", g)
        /\ grant[g].app = app
    BY <1>7 DEF AppOK, InHands, IsAt
  <2>2. ~(mail[i].kind = "deleted" /\ mail[i].grant = g)
    <3> SUFFICES ASSUME mail[i].kind = "deleted", mail[i].grant = g
                 PROVE  FALSE
      OBVIOUS
    <3>1. IsAt(c, "hook")' /\ caller'[c].grant = g /\ caller'[c].kind = "deleted"
      BY <1>m, <2>1
    <3>2. c \in Busy' /\ d \in Busy'
      BY <1>7, <3>1, RestIs DEF Busy, IsAt
    <3>3. caller'[d].grant = g
      OBVIOUS
    <3> QED BY <3>1, <3>2, <3>3 DEF Collides, IsAt
  <2> QED BY <1>3, <2>1, <2>2
<1>8. ASSUME IsAt(c, "hook")', caller'[c].kind = "created"
      PROVE  \A g : g = caller'[c].grant => grant[g].live \/ InMail("deleted", g)'
  <2>1. mail[i].app = app /\ mail[i].kind = "created" /\ caller'[c].grant = mail[i].grant
    BY <1>8, RestIs DEF IsAt
  <2>2. ASSUME NEW j \in i + 1 .. Len(mail), mail[j].kind = "deleted",
               mail[j].grant = mail[i].grant
        PROVE  \A g : g = mail[i].grant => InMail("deleted", g)'
    <3>1. j \in 1 .. Len(mail) /\ j # i
      BY <1>f
    <3> QED BY <1>2, <2>2, <3>1 DEF InMail
  <2> QED BY <1>m, <2>1, <2>2
<1>9. InHands'
  <2> SUFFICES ASSUME NEW d \in Caller
               PROVE  /\ caller'[d].at = "rest" => caller'[d] = Rest
                      /\ caller'[d].at = "keep" => caller'[d].app \in 1 .. apps
                      /\ caller'[d].at \in {"save", "link", "create", "hook"} =>
                            /\ caller'[d].grant \in 1 .. Len(grant)
                            /\ grant[caller'[d].grant].app = app
                      /\ caller'[d].at \in {"save", "link", "create"}
                            \/ (caller'[d].at = "hook" /\ caller'[d].kind = "created") =>
                            \A g : g = caller'[d].grant =>
                               grant[g].live \/ InMail("deleted", g)'
                      /\ caller'[d].at = "hook" /\ caller'[d].kind = "deleted" =>
                            ~grant[caller'[d].grant].live
    BY DEF InHands, IsAt
  <2>1. CASE d # c
    BY <1>7, <2>1 DEF AppOK, InHands, IsAt
  <2>2. CASE d = c
    <3>1. CASE mail[i].app = app
      BY <1>8, <1>m, <2>2, <3>1 DEF IsAt
    <3>2. CASE mail[i].app # app
      BY <2>2, <3>2, RestIs
    <3> QED BY <3>1, <3>2
  <2> QED BY <2>1, <2>2
<1>10. KnownOK'
  <2> SUFFICES ASSUME NEW g \in 1 .. Len(grant)
               PROVE  /\ g \in known =>
                            /\ grant[g].app = app
                            /\ grant[g].live \/ InMail("deleted", g)' \/ InHand("deleted", g)'
                      /\ Answers(app, g) =>
                            g \in known \/ InMail("created", g)' \/ InHand("created", g)'
    BY DEF KnownOK, Answers
  <2>1. /\ g \in known =>
              /\ grant[g].app = app
              /\ grant[g].live \/ InMail("deleted", g) \/ InHand("deleted", g)
        /\ Answers(app, g) => g \in known \/ InMail("created", g) \/ InHand("created", g)
    BY DEF AppOK, KnownOK
  <2>2. ASSUME grant[g].app = app, NEW kind, mail[i].kind = kind /\ mail[i].grant = g
        PROVE  InHand(kind, g)'
    BY <1>m, <2>2 DEF InHand, IsAt
  <2>3. Answers(app, g) => grant[g].app = app
    BY DEF Answers
  <2> QED BY <1>3, <1>4, <2>1, <2>2, <2>3
<1>11. OwedOK'
  <2>1. owed' # {} => Reached' /\ owed' = owed
    <3>1. (pushes + 1) .. pushes = {}
      BY <1>f
    <3> QED BY <3>1
  <2>2. ASSUME NEW p \in owed
        PROVE  \/ p \in deployed
               \/ \E k \in 1 .. Len(mail') :
                     mail'[k].kind = "push" /\ mail'[k].push = p /\ mail'[k].app = app
               \/ \E d \in Caller :
                     caller'[d].at = "hook" /\ caller'[d].kind = "push" /\ caller'[d].push = p
    <3>1. \/ p \in deployed
          \/ \E k \in 1 .. Len(mail) :
                mail[k].kind = "push" /\ mail[k].push = p /\ mail[k].app = app
          \/ \E d \in Caller \ {c} : IsAt(d, "hook") /\ caller[d].kind = "push" /\ caller[d].push = p
      BY RestIs DEF AppOK, OwedOK, IsAt
    <3>2. ASSUME NEW k \in 1 .. Len(mail), mail[k].kind = "push", mail[k].push = p,
                 mail[k].app = app
          PROVE  \/ \E j \in 1 .. Len(mail') :
                       mail'[j].kind = "push" /\ mail'[j].push = p /\ mail'[j].app = app
                 \/ \E d \in Caller :
                       caller'[d].at = "hook" /\ caller'[d].kind = "push" /\ caller'[d].push = p
      <4>1. CASE k = i
        BY <3>2, <4>1 DEF IsAt
      <4>2. CASE k # i
        BY <1>2, <3>2, <4>2
      <4> QED BY <4>1, <4>2
    <3> QED BY <3>1, <3>2 DEF IsAt
  <2> QED BY <2>1, <2>2 DEF OwedOK, IsAt
<1> QED BY <1>5, <1>6, <1>9, <1>10, <1>11 DEF AppOK

LEMMA ArrivesOK ==
    ASSUME AppOK, NEW c \in Caller, NEW i \in DOMAIN mail, Arrives(c, i),
           Noting(Overtakes(i)), ~muddled'
    PROVE  AppOK'
<1>f. /\ i \in 1 .. Len(mail) /\ caller \in [Caller -> Request]
      /\ \A j \in 1 .. Len(mail) : mail[j] \in Delivery
      /\ app \in Nat
  BY AppFacts
<1>1. /\ caller[c] = Rest /\ mail' = Without(i)
      /\ UNCHANGED <<apps, grant, pushes, app, known, project, deployed>>
  BY DEF Arrives
<1>2. /\ owed' = IF Reached' THEN owed \cup ((pushes + 1) .. pushes') ELSE {}
      /\ ~Collides' /\ ~Overtakes(i)
  BY DEF Noting
<1>3. CASE mail[i].app = app
  <2> DEFINE r == [at |-> "hook", app |-> app, grant |-> mail[i].grant,
                   kind |-> mail[i].kind, push |-> mail[i].push]
  <2>1. caller' = [caller EXCEPT ![c] = r]
    BY <1>3 DEF Arrives, Begins
  <2>2. /\ r \in Request /\ r.at = "hook" /\ r.grant = mail[i].grant
        /\ r.kind = mail[i].kind /\ r.push = mail[i].push
    BY <1>f DEF Delivery, Request
  <2> HIDE DEF r
  <2>3. /\ caller' \in [Caller -> Request] /\ caller'[c] = r
        /\ \A d \in Caller \ {c} : caller'[d] = caller[d]
    BY <1>f, <2>1, <2>2
  <2>4. /\ IsAt(c, "hook")' /\ caller'[c].grant = mail[i].grant
        /\ caller'[c].kind = mail[i].kind /\ caller'[c].push = mail[i].push
    BY <2>2, <2>3 DEF IsAt
  <2> QED BY <1>f, <1>1, <1>2, <1>3, <2>3, <2>4, Delivers
<1>4. CASE mail[i].app # app
  <2>1. caller' = caller
    BY <1>4 DEF Arrives
  <2>2. /\ caller' \in [Caller -> Request] /\ caller'[c] = Rest
        /\ \A d \in Caller \ {c} : caller'[d] = caller[d]
    BY <1>1, <1>f, <2>1
  <2> QED BY <1>f, <1>1, <1>2, <1>4, <2>2, Delivers
<1> QED BY <1>3, <1>4

\* A request writes what it was told.
LEMMA Heard ==
    ASSUME AppOK, NEW c \in Caller, IsAt(c, "hook"), caller' = [caller EXCEPT ![c] = Rest],
           UNCHANGED <<grant, mail, pushes, apps, app>>,
           known' \subseteq 1 .. Len(grant),
           project' \in [there : BOOLEAN, link : {0} \cup known'],
           Reached' => Reached, deployed \subseteq deployed',
           Reached' /\ caller[c].kind = "push" => caller[c].push \in deployed',
           \A g \in 1 .. Len(grant) :
              /\ g \in known' =>
                    /\ grant[g].app = app
                    /\ grant[g].live \/ InMail("deleted", g) \/ InHand("deleted", g)'
              /\ Answers(app, g) =>
                    g \in known' \/ InMail("created", g) \/ InHand("created", g)',
           owed' = IF Reached' THEN owed \cup ((pushes + 1) .. pushes') ELSE {},
           ~Collides'
    PROVE  AppOK'
<1>f. /\ pushes \in Nat /\ caller \in [Caller -> Request]
  BY AppFacts
<1>c. /\ caller'[c] = Rest /\ caller' \in [Caller -> Request]
      /\ \A d \in Caller \ {c} : caller'[d] = caller[d]
  BY <1>f, RestIs
<1>m. \A kind, g : InMail(kind, g)' <=> InMail(kind, g)
  BY DEF InMail
<1>1. GitHubShape'
  BY <1>c DEF AppOK, GitHubShape
<1>2. Mailed'
  BY DEF AppOK, Mailed
<1>3. InHands'
  <2> SUFFICES ASSUME NEW d \in Caller
               PROVE  /\ caller'[d].at = "rest" => caller'[d] = Rest
                      /\ caller'[d].at = "keep" => caller'[d].app \in 1 .. apps
                      /\ caller'[d].at \in {"save", "link", "create", "hook"} =>
                            /\ caller'[d].grant \in 1 .. Len(grant)
                            /\ grant[caller'[d].grant].app = app
                      /\ caller'[d].at \in {"save", "link", "create"}
                            \/ (caller'[d].at = "hook" /\ caller'[d].kind = "created") =>
                            \A g : g = caller'[d].grant => grant[g].live \/ InMail("deleted", g)
                      /\ caller'[d].at = "hook" /\ caller'[d].kind = "deleted" =>
                            ~grant[caller'[d].grant].live
    BY <1>m DEF InHands, IsAt
  <2>1. CASE d = c
    BY <1>c, <2>1, RestIs
  <2>2. CASE d # c
    BY <1>c, <2>2 DEF AppOK, InHands, IsAt
  <2> QED BY <2>1, <2>2
<1>4. KnownOK'
  BY <1>m DEF KnownOK, Answers
<1>5. OwedOK'
  <2>1. owed' # {} => Reached' /\ owed' = owed
    <3>1. (pushes + 1) .. pushes = {}
      BY <1>f
    <3> QED BY <3>1
  <2>2. ASSUME NEW p \in owed, Reached'
        PROVE  \/ p \in deployed'
               \/ \E k \in 1 .. Len(mail) :
                     mail[k].kind = "push" /\ mail[k].push = p /\ mail[k].app = app
               \/ \E d \in Caller :
                     caller'[d].at = "hook" /\ caller'[d].kind = "push" /\ caller'[d].push = p
    BY <1>c, <2>2 DEF AppOK, OwedOK, IsAt
  <2> QED BY <2>1, <2>2 DEF OwedOK, IsAt
<1> QED BY <1>1, <1>2, <1>3, <1>4, <1>5 DEF AppOK

LEMMA AppliesOK ==
    ASSUME AppOK, NEW c \in Caller, Applies(c), Noting(FALSE), ~muddled'
    PROVE  AppOK'
<1>f. /\ known \subseteq 1 .. Len(grant) /\ caller \in [Caller -> Request]
      /\ project \in [there : BOOLEAN, link : {0} \cup known]
      /\ Len(grant) \in Nat
  BY AppFacts
<1> PICK g : g = caller[c].grant
  OBVIOUS
<1>1. /\ IsAt(c, "hook") /\ caller' = [caller EXCEPT ![c] = Rest]
      /\ UNCHANGED <<grant, mail, pushes, apps, app>>
      /\ known' = CASE caller[c].kind = "created" -> known \cup {g}
                    [] caller[c].kind = "deleted" -> known \ {g}
                    [] OTHER -> known
      /\ project' = [project EXCEPT !.link = IF @ \in known' THEN @ ELSE 0]
      /\ deployed' = IF caller[c].kind = "push" /\ project.link # 0
                     THEN deployed \cup {caller[c].push} ELSE deployed
  BY DEF Applies, Ends, onGitHub
<1>2. /\ owed' = IF Reached' THEN owed \cup ((pushes + 1) .. pushes') ELSE {}
      /\ ~Collides'
  BY DEF Noting
<1>3. /\ g \in 1 .. Len(grant) /\ grant[g].app = app
      /\ caller[c].kind = "created" => grant[g].live \/ InMail("deleted", g)
      /\ caller[c].kind = "deleted" => ~grant[g].live
  BY <1>1 DEF AppOK, InHands, IsAt
<1>4. known' \subseteq 1 .. Len(grant)
  BY <1>1, <1>3, <1>f
<1>5. /\ project' \in [there : BOOLEAN, link : {0} \cup known']
      /\ project'.link \in {0, project.link}
  BY <1>1, <1>f
<1>6. /\ Reached' => Reached
      /\ deployed \subseteq deployed'
      /\ Reached' /\ caller[c].kind = "push" => caller[c].push \in deployed'
  <2>1. Reached' => Reached
    BY <1>1, <1>5 DEF Reached
  <2>2. Reached => project.link # 0
    BY DEF Reached
  <2> QED BY <1>1, <2>1, <2>2
<1>7. ASSUME NEW kind, NEW h, InHand(kind, h), kind # caller[c].kind \/ h # g
      PROVE  InHand(kind, h)'
  BY <1>1, <1>7, <1>f DEF InHand, IsAt
<1>8. ASSUME NEW h \in 1 .. Len(grant)
      PROVE  /\ h \in known' =>
                   /\ grant[h].app = app
                   /\ grant[h].live \/ InMail("deleted", h) \/ InHand("deleted", h)'
             /\ Answers(app, h) =>
                   h \in known' \/ InMail("created", h) \/ InHand("created", h)'
  <2>1. /\ h \in known =>
              /\ grant[h].app = app
              /\ grant[h].live \/ InMail("deleted", h) \/ InHand("deleted", h)
        /\ Answers(app, h) => h \in known \/ InMail("created", h) \/ InHand("created", h)
        /\ Answers(app, h) => grant[h].live
    BY DEF AppOK, KnownOK, Answers
  <2>2. CASE caller[c].kind = "created"
    <3>1. known' = known \cup {g}
      BY <1>1, <2>2
    <3>2. InHand("deleted", h) => InHand("deleted", h)'
      BY <1>7, <2>2
    <3>3. h # g => (InHand("created", h) => InHand("created", h)')
      BY <1>7
    <3> QED BY <1>3, <2>1, <2>2, <3>1, <3>2, <3>3
  <2>3. CASE caller[c].kind = "deleted"
    <3>1. known' = known \ {g}
      BY <1>1, <2>3
    <3>2. InHand("created", h) => InHand("created", h)'
      BY <1>7, <2>3
    <3>3. h # g => (InHand("deleted", h) => InHand("deleted", h)')
      BY <1>7
    <3> QED BY <1>3, <2>1, <2>3, <3>1, <3>2, <3>3
  <2>4. CASE caller[c].kind \notin {"created", "deleted"}
    <3>1. known' = known
      BY <1>1, <2>4
    <3>2. /\ InHand("created", h) => InHand("created", h)'
          /\ InHand("deleted", h) => InHand("deleted", h)'
      BY <1>7, <2>4
    <3> QED BY <2>1, <3>1, <3>2
  <2> QED BY <2>2, <2>3, <2>4
<1> QED BY <1>1, <1>2, <1>4, <1>5, <1>6, <1>8, Heard

LEMMA AppStart ==
    ASSUME GitHubInit
    PROVE  AppInv
<1>1. /\ apps = 0 /\ app = 0 /\ grant = <<>> /\ known = {} /\ mail = <<>> /\ pushes = 0
      /\ owed = {} /\ muddled = FALSE /\ caller = [c \in Caller |-> Rest]
      /\ project \in [there : BOOLEAN, link : {0}]
  BY DEF GitHubInit
<1>2. /\ Len(grant) = 0 /\ Len(mail) = 0 /\ 1 .. 0 = {} /\ 0 \in 0 .. 0 /\ 0 \in Nat
      /\ grant \in Seq(Installation) /\ mail \in Seq(Delivery)
  BY <1>1, EmptySeq
<1>3. /\ caller \in [Caller -> Request] /\ \A c \in Caller : caller[c] = Rest
  BY <1>1, RestIs
<1>4. GitHubShape
  <2>1. project \in [there : BOOLEAN, link : {0} \cup known]
    BY <1>1
  <2> QED BY <1>1, <1>2, <1>3, <2>1 DEF GitHubShape
<1>5. Mailed /\ KnownOK /\ OwedOK
  BY <1>1, <1>2 DEF Mailed, KnownOK, OwedOK
<1>6. InHands
  BY <1>3, RestIs DEF InHands, IsAt
<1>7. ~Collides
  BY <1>3 DEF Collides, Busy
<1> QED BY <1>1, <1>4, <1>5, <1>6, <1>7 DEF AppInv, AppOK

LEMMA AppRests ==
    ASSUME AppInv, UNCHANGED gitHubVars
    PROVE  AppInv'
<1>1. UNCHANGED <<apps, app, grant, known, project, mail, caller, pushes, deployed, owed, muddled>>
  BY DEF gitHubVars
<1>2. AppOK => AppOK'
  BY <1>1 DEF AppOK, GitHubShape, Mailed, InHands, KnownOK, OwedOK, Collides, Busy, IsAt,
              InMail, InHand, Answers, Reached
<1> QED BY <1>1, <1>2 DEF AppInv

LEMMA AppStep ==
    ASSUME AppInv, GitHubNext
    PROVE  AppInv'
<1>1. AppOK
  BY DEF AppInv, GitHubNext
<1>2. muddled' \in BOOLEAN
  BY DEF GitHubNext, Noting
<1> SUFFICES ASSUME ~muddled'
             PROVE  AppOK'
  BY <1>2 DEF AppInv
<1>3. ASSUME NEW i \in DOMAIN mail, Lost(i), Noting(TRUE)
      PROVE  FALSE
  BY <1>3 DEF Noting
<1> QED BY <1>1, <1>3, InstallsOK, UninstallsOK, PushesOK, PageOK, KeepsOK, UnlinksOK,
           DisconnectsOK, FailsOK, ArrivesOK, AppliesOK DEF GitHubNext

LEMMA AppIsInStep ==
    ASSUME AppInv
    PROVE  AppInStep
<1>1. ASSUME ~muddled, project.link # 0
      PROVE  grant[project.link].app = app
  <2>1. AppOK
    BY <1>1 DEF AppInv
  <2>2. project.link \in known /\ known \subseteq 1 .. Len(grant)
    BY <1>1, <2>1, AppFacts
  <2> QED BY <2>1, <2>2 DEF AppOK, KnownOK
<1>2. ASSUME Quiet
      PROVE  known = {g \in Granted : Answers(app, g)} /\ owed \subseteq deployed
  <2>1. AppOK
    BY <1>2 DEF AppInv, Quiet
  <2>2. Granted = 1 .. Len(grant) /\ known \subseteq 1 .. Len(grant)
    BY <2>1, AppFacts
  <2>3. 1 .. Len(mail) = {}
    BY <1>2 DEF Quiet
  <2>4. \A c \in Caller : ~IsAt(c, "hook")
    BY <1>2, RestIs DEF Quiet, Busy, IsAt
  <2>5. \A kind, g : ~InMail(kind, g) /\ ~InHand(kind, g)
    BY <2>3, <2>4 DEF InMail, InHand
  <2>6. \A g \in 1 .. Len(grant) : g \in known <=> Answers(app, g)
    BY <2>1, <2>5 DEF AppOK, KnownOK, Answers
  <2>7. owed \subseteq deployed
    BY <2>1, <2>3, <2>4 DEF AppOK, OwedOK
  <2> QED BY <2>2, <2>6, <2>7
<1> QED BY <1>1, <1>2 DEF AppInStep, InstallationsInStep, PushesDeploy, LinkedToTheApp

-----------------------------------------------------------------------------
(* The types, which hold of what is muddled too *)

\* Pushes are numbered as they are made, and so are those on their way.
Numbered ==
    /\ pushes \in 0 .. MaxPushes
    /\ \A i \in 1 .. Len(mail) : mail[i].kind = "push" => mail[i].push \in Push
    /\ \A c \in Caller : IsAt(c, "hook") /\ caller[c].kind = "push" => caller[c].push \in Push

\* A step of a request, or of none.
LEMMA RequestTyped ==
    ASSUME AppOK, GitHubTypeOK, Numbered, NEW c, UNCHANGED <<grant, mail, pushes>>,
           apps' \in 0 .. MaxApps, app' \in 0 .. apps',
           known' \subseteq Granted, project' \in [there : BOOLEAN, link : {0} \cup known'],
           \A d \in Caller \ {c} : caller'[d] = caller[d],
           c \in Caller => /\ caller'[c].grant \in {0} \cup Granted
                           /\ caller'[c].at = "hook" /\ caller'[c].kind = "push"
                                 => caller'[c].push \in Push,
           deployed' \subseteq Push, muddled' \in BOOLEAN,
           owed' = IF Reached' THEN owed \cup ((pushes + 1) .. pushes') ELSE {}
    PROVE  GitHubTypeOK' /\ Numbered'
<1>1. owed' \subseteq Push
  <2>1. pushes' = pushes /\ (pushes + 1) .. pushes = {}
    BY DEF Numbered
  <2> QED BY <2>1 DEF GitHubTypeOK
<1>2. Granted' = Granted
  BY DEF Granted
<1>3. \A d \in Caller : caller'[d].grant \in {0} \cup Granted
  BY DEF GitHubTypeOK
<1>4. GitHubTypeOK'
  BY <1>1, <1>2, <1>3 DEF GitHubTypeOK
<1>5. \A d \in Caller : caller'[d].at = "hook" /\ caller'[d].kind = "push"
                          => caller'[d].push \in Push
  BY DEF Numbered, IsAt
<1>6. Numbered'
  BY <1>5 DEF Numbered, IsAt
<1> QED BY <1>4, <1>6

LEMMA InstallsTyped ==
    ASSUME AppOK, GitHubTypeOK, Numbered, NEW a \in App, Installs(a), Noting(FALSE)
    PROVE  GitHubTypeOK' /\ Numbered'
<1>f. /\ Len(grant) \in Nat /\ Len(mail) \in Nat /\ grant \in Seq(Installation)
      /\ mail \in Seq(Delivery) /\ Granted = 1 .. Len(grant) /\ a \in Nat
      /\ project \in [there : BOOLEAN, link : {0} \cup known]
  BY AppFacts, GitHubAssumption DEF App
<1> DEFINE one == [app |-> a, live |-> TRUE]
           told == [kind |-> "created", app |-> a, grant |-> Len(grant'), push |-> 0]
<1>1. /\ grant' = Append(grant, one) /\ mail' = Append(mail, told) /\ Len(grant) < MaxGrants
      /\ UNCHANGED <<apps, app, known, project, caller, pushes, deployed>>
  BY DEF Installs
<1>2. one \in Installation /\ one \in [app : App, live : BOOLEAN] /\ told.kind = "created"
  BY <1>f DEF Installation
<1> HIDE DEF one
<1>3. /\ grant' \in Seq(Installation) /\ Len(grant') = Len(grant) + 1
      /\ \A g \in 1 .. Len(grant) : grant'[g] = grant[g]
      /\ grant'[Len(grant) + 1] = one
  BY <1>f, <1>1, <1>2, AppendProperties
<1>4. told \in Delivery
  BY <1>3, <1>f DEF Delivery
<1> HIDE DEF told
<1>5. /\ Len(mail') = Len(mail) + 1 /\ \A i \in 1 .. Len(mail) : mail'[i] = mail[i]
      /\ mail'[Len(mail) + 1] = told
  BY <1>f, <1>1, <1>4, AppendProperties
<1>6. Granted' = 1 .. Len(grant) + 1
  BY <1>3, <1>f DEF Granted
<1>7. owed' \subseteq Push /\ muddled' \in BOOLEAN
  <2>1. pushes' = pushes /\ (pushes + 1) .. pushes = {}
    BY <1>1 DEF Numbered
  <2> QED BY <2>1 DEF Noting, GitHubTypeOK
<1>8. /\ Len(grant') <= MaxGrants
      /\ \A g \in 1 .. Len(grant) + 1 : grant'[g] \in [app : App, live : BOOLEAN]
  BY <1>1, <1>2, <1>3, <1>f, GitHubAssumption DEF GitHubTypeOK
<1>9. GitHubTypeOK'
  BY <1>1, <1>6, <1>7, <1>8, <1>f DEF GitHubTypeOK
<1>10. Numbered'
  BY <1>1, <1>2, <1>5, <1>f DEF Numbered, IsAt
<1> QED BY <1>9, <1>10

LEMMA UninstallsTyped ==
    ASSUME AppOK, GitHubTypeOK, Numbered, NEW g \in Grant, Uninstalls(g), Noting(FALSE)
    PROVE  GitHubTypeOK' /\ Numbered'
<1>f. /\ Len(grant) \in Nat /\ Len(mail) \in Nat /\ grant \in Seq(Installation)
      /\ mail \in Seq(Delivery) /\ Granted = 1 .. Len(grant)
      /\ \A h \in 1 .. Len(grant) : grant[h] \in Installation
  BY AppFacts
<1> DEFINE gone == [grant[g] EXCEPT !.live = FALSE]
           told == [kind |-> "deleted", app |-> grant[g].app, grant |-> g, push |-> 0]
<1>1. /\ grant' = [grant EXCEPT ![g].live = FALSE] /\ mail' = Append(mail, told)
      /\ g \in 1 .. Len(grant)
      /\ UNCHANGED <<apps, app, known, project, caller, pushes, deployed>>
  BY <1>f DEF Uninstalls
<1>2. /\ grant' = [grant EXCEPT ![g] = gone]
      /\ gone \in Installation /\ gone \in [app : App, live : BOOLEAN]
  BY <1>1, <1>f DEF GitHubTypeOK, Installation
<1> HIDE DEF gone
<1>3. /\ Granted' = 1 .. Len(grant) /\ Len(grant') = Len(grant)
      /\ \A h \in 1 .. Len(grant) : grant'[h] \in [app : App, live : BOOLEAN]
  <2>1. grant \in Seq(Installation) /\ g \in 1 .. Len(grant) /\ gone \in Installation
        /\ grant' = [grant EXCEPT ![g] = gone]
    BY <1>1, <1>2, <1>f
  <2>2. /\ grant' \in Seq(Installation) /\ Len(grant') = Len(grant)
        /\ \A h \in 1 .. Len(grant) : grant'[h] = IF h = g THEN gone ELSE grant[h]
    BY <2>1, ExceptSeq
  <2> QED BY <1>2, <1>f, <2>2 DEF GitHubTypeOK, Granted
<1>4. told \in Delivery /\ told.kind = "deleted"
  BY <1>1, <1>f DEF Delivery, Installation
<1> HIDE DEF told
<1>5. /\ Len(mail') = Len(mail) + 1 /\ \A i \in 1 .. Len(mail) : mail'[i] = mail[i]
      /\ mail'[Len(mail) + 1] = told
  BY <1>f, <1>1, <1>4, AppendProperties
<1>7. owed' \subseteq Push /\ muddled' \in BOOLEAN
  <2>1. pushes' = pushes /\ (pushes + 1) .. pushes = {}
    BY <1>1 DEF Numbered
  <2> QED BY <2>1 DEF Noting, GitHubTypeOK
<1>9. GitHubTypeOK'
  BY <1>1, <1>3, <1>7, <1>f DEF GitHubTypeOK
<1>10. Numbered'
  BY <1>1, <1>4, <1>5, <1>f DEF Numbered, IsAt
<1> QED BY <1>9, <1>10

LEMMA PushesTyped ==
    ASSUME AppOK, GitHubTypeOK, Numbered, Pushes, Noting(FALSE)
    PROVE  GitHubTypeOK' /\ Numbered'
<1>f. /\ Len(grant) \in Nat /\ Len(mail) \in Nat /\ grant \in Seq(Installation)
      /\ mail \in Seq(Delivery) /\ Granted = 1 .. Len(grant)
      /\ \A h \in 1 .. Len(grant) : grant[h] \in Installation
  BY AppFacts
<1>1. /\ pushes' = pushes + 1 /\ pushes < MaxPushes
      /\ UNCHANGED <<apps, app, grant, known, project, caller, deployed>>
  BY DEF Pushes
<1> DEFINE Tell(g) == [kind |-> "push", app |-> grant[g].app, grant |-> g, push |-> pushes']
<1>n. PICK n \in 0 .. Len(grant) : \E told \in [1 .. n -> Live] :
         mail' = mail \o [k \in 1 .. n |-> Tell(told[k])]
  BY DEF Pushes
<1>2. PICK told \in [1 .. n -> Live] : mail' = mail \o [k \in 1 .. n |-> Tell(told[k])]
  BY <1>n
<1>3. pushes' \in 0 .. MaxPushes /\ pushes' \in Push /\ pushes' \in Nat
  BY <1>1, GitHubAssumption DEF Numbered, Push
<1>4. \A g \in 1 .. Len(grant) : Tell(g) \in Delivery /\ Tell(g).push \in Push
  BY <1>f, <1>3 DEF Delivery, Installation
<1>5. n \in Nat /\ \A k \in 1 .. n : told[k] \in 1 .. Len(grant)
  BY <1>f, <1>2 DEF Live
<1> HIDE DEF Tell
<1> DEFINE news == [k \in 1 .. n |-> Tell(told[k])]
<1>6. news \in Seq(Delivery) /\ Len(news) = n /\ \A k \in 1 .. n : news[k].push \in Push
  BY <1>4, <1>5
<1>7. mail' = mail \o news
  BY <1>2
<1> HIDE DEF news
<1>8. /\ Len(mail') = Len(mail) + n
      /\ \A i \in 1 .. Len(mail) + n :
            mail'[i] = IF i <= Len(mail) THEN mail[i] ELSE news[i - Len(mail)]
  BY <1>5, <1>6, <1>7, <1>f, ConcatProperties
<1>9. \A i \in 1 .. Len(mail') : mail'[i].kind = "push" => mail'[i].push \in Push
  <2> TAKE i \in 1 .. Len(mail')
  <2>1. CASE i <= Len(mail)
    BY <1>5, <1>8, <1>f, <2>1 DEF Numbered
  <2>2. CASE ~(i <= Len(mail))
    <3>1. i - Len(mail) \in 1 .. n
      BY <1>5, <1>8, <1>f, <2>2
    <3> QED BY <1>5, <1>6, <1>8, <1>f, <2>2, <3>1
  <2> QED BY <2>1, <2>2
<1>10. owed' \subseteq Push /\ muddled' \in BOOLEAN
  <2>1. (pushes + 1) .. pushes' = {pushes'}
    BY <1>1, <1>3 DEF Numbered
  <2> QED BY <1>3, <2>1 DEF Noting, GitHubTypeOK
<1>11. GitHubTypeOK'
  BY <1>1, <1>10 DEF GitHubTypeOK, Granted
<1>12. Numbered'
  BY <1>1, <1>3, <1>9 DEF Numbered, IsAt
<1> QED BY <1>11, <1>12

LEMMA PageTyped ==
    ASSUME AppOK, GitHubTypeOK, Numbered, NEW c \in Caller, Page(c), Noting(FALSE)
    PROVE  GitHubTypeOK' /\ Numbered'
<1>f. /\ apps \in Nat /\ app \in Nat /\ app <= apps /\ apps <= MaxApps
      /\ caller \in [Caller -> Request] /\ known \subseteq Granted
      /\ project \in [there : BOOLEAN, link : {0} \cup known]
      /\ deployed \subseteq Push /\ caller[c].grant \in {0} \cup Granted
      /\ MaxApps \in Nat
  BY AppFacts, GitHubAssumption DEF GitHubTypeOK
<1>n. /\ owed' = IF Reached' THEN owed \cup ((pushes + 1) .. pushes') ELSE {}
      /\ muddled' \in BOOLEAN
  BY DEF Noting
<1>p. UNCHANGED <<grant, mail, pushes, deployed>> /\ app' = app
  BY DEF Page, AppCreated, AppInstalled, Links, SavesInstallation, LinksProject, Imports,
         CreatesProject, onGitHub
<1>a. apps' \in 0 .. MaxApps /\ apps <= apps'
  <2>1. apps' = apps \/ (apps < MaxApps /\ apps' = apps + 1)
    BY DEF Page, AppCreated, AppInstalled, Links, SavesInstallation, LinksProject, Imports,
           CreatesProject
  <2> QED BY <1>f, <2>1
<1>c. ASSUME NEW r, caller' = [caller EXCEPT ![c] = r], r.grant \in {0} \cup Granted,
             r.at # "hook", known' \subseteq Granted,
             project' \in [there : BOOLEAN, link : {0} \cup known']
      PROVE  GitHubTypeOK' /\ Numbered'
  <2>1. caller'[c] = r /\ \A d \in Caller \ {c} : caller'[d] = caller[d]
    BY <1>c, <1>f
  <2>2. apps' \in 0 .. MaxApps /\ app' \in 0 .. apps' /\ deployed' \subseteq Push
    BY <1>a, <1>f, <1>p
  <2> QED BY <1>c, <1>n, <1>p, <2>1, <2>2, RequestTyped
<1>r. Rest.at # "hook" /\ Rest.grant = 0
  BY DEF Rest
<1>1. CASE AppCreated(c)
  <2>1. PICK r : r = [at |-> "keep", app |-> apps', grant |-> 0, kind |-> "none", push |-> 0]
    OBVIOUS
  <2>2. caller' = [caller EXCEPT ![c] = r] /\ UNCHANGED <<known, project>>
    BY <1>1, <2>1, KeepIs DEF AppCreated, Begins
  <2>3. r.grant = 0 /\ r.at # "hook"
    BY <2>1
  <2> QED BY <1>c, <1>f, <2>2, <2>3
<1>b. ASSUME NEW g \in Granted, NEW at \in {"save", "create"}, NEW kind,
             Begins(c, [Rest EXCEPT !.at = at, !.grant = g, !.kind = kind]),
             UNCHANGED <<known, project>>
      PROVE  GitHubTypeOK' /\ Numbered'
  <2>1. PICK r : r = [Rest EXCEPT !.at = at, !.grant = g, !.kind = kind]
    OBVIOUS
  <2>2. caller' = [caller EXCEPT ![c] = r]
    BY <1>b, <2>1 DEF Begins
  <2>3. r.grant = g /\ r.at = at
    BY <2>1, AskedIs
  <2> QED BY <1>b, <1>c, <1>f, <2>2, <2>3
<1>2. CASE AppInstalled(c)
  BY <1>2, <1>b DEF AppInstalled
<1>3. CASE Links(c)
  BY <1>3, <1>b DEF Links
<1>4. CASE Imports(c)
  BY <1>4, <1>b, <1>f DEF Imports
<1>l. PICK onward : onward = [caller[c] EXCEPT !.at = "link"]
  OBVIOUS
<1>m. onward.grant = caller[c].grant /\ onward.at = "link"
  BY <1>l, <1>f DEF Request
<1>5. CASE SavesInstallation(c)
  <2>1. /\ known' = known \cup {caller[c].grant} /\ project' = project /\ IsAt(c, "save")
        /\ caller' = [caller EXCEPT ![c] = onward] \/ caller' = [caller EXCEPT ![c] = Rest]
    BY <1>5, <1>l DEF SavesInstallation, Proceeds, Ends
  <2>2. caller[c].grant \in Granted
    BY <2>1, AppFacts DEF AppOK, InHands, IsAt
  <2>3. /\ known' \subseteq Granted
        /\ project' \in [there : BOOLEAN, link : {0} \cup known']
    BY <1>f, <2>1, <2>2
  <2>4. CASE caller' = [caller EXCEPT ![c] = onward]
    BY <1>c, <1>f, <1>m, <2>3, <2>4
  <2>5. CASE caller' = [caller EXCEPT ![c] = Rest]
    BY <1>c, <1>r, <2>3, <2>5
  <2> QED BY <2>1, <2>4, <2>5
<1>6. CASE LinksProject(c)
  <2>1. caller' = [caller EXCEPT ![c] = Rest] /\ known' = known
    BY <1>6 DEF LinksProject, Ends
  <2>2. project' \in [there : BOOLEAN, link : {0} \cup known]
    <3>1. CASE caller[c].grant \in known
      <4>1. project' = [project EXCEPT !.link = caller[c].grant]
        BY <1>6, <3>1 DEF LinksProject
      <4> QED BY <1>f, <3>1, <4>1
    <3>2. CASE caller[c].grant \notin known
      BY <1>6, <1>f, <3>2 DEF LinksProject
    <3> QED BY <3>1, <3>2
  <2> QED BY <1>c, <1>f, <1>r, <2>1, <2>2
<1>7. CASE CreatesProject(c)
  <2>1. known' = known
    BY <1>7 DEF CreatesProject
  <2>2. CASE project.there
    <3>1. caller' = [caller EXCEPT ![c] = Rest] /\ project' = project
      BY <1>7, <2>2 DEF CreatesProject, Ends
    <3> QED BY <1>c, <1>f, <1>r, <2>1, <3>1
  <2>3. CASE ~project.there
    <3>1. /\ caller' = [caller EXCEPT ![c] = onward]
          /\ project' = [there |-> TRUE, link |-> 0]
      BY <1>7, <1>l, <2>3 DEF CreatesProject, Proceeds
    <3>2. project' \in [there : BOOLEAN, link : {0} \cup known']
      BY <3>1
    <3> QED BY <1>c, <1>f, <1>m, <2>1, <3>1, <3>2
  <2> QED BY <2>2, <2>3
<1> QED BY <1>1, <1>2, <1>3, <1>4, <1>5, <1>6, <1>7 DEF Page

LEMMA HookTyped ==
    ASSUME AppOK, GitHubTypeOK, Numbered, NEW c \in Caller, Applies(c), Noting(FALSE)
    PROVE  GitHubTypeOK' /\ Numbered'
<1>f. /\ apps \in Nat /\ app \in Nat /\ app <= apps /\ apps <= MaxApps /\ MaxApps \in Nat
      /\ caller \in [Caller -> Request] /\ known \subseteq Granted
      /\ project \in [there : BOOLEAN, link : {0} \cup known] /\ deployed \subseteq Push
  BY AppFacts, GitHubAssumption DEF GitHubTypeOK
<1> PICK g : g = caller[c].grant
  OBVIOUS
<1>1. /\ IsAt(c, "hook") /\ caller' = [caller EXCEPT ![c] = Rest]
      /\ UNCHANGED <<grant, mail, pushes, apps, app>>
      /\ known' = CASE caller[c].kind = "created" -> known \cup {g}
                    [] caller[c].kind = "deleted" -> known \ {g}
                    [] OTHER -> known
      /\ project' = [project EXCEPT !.link = IF @ \in known' THEN @ ELSE 0]
      /\ deployed' = IF caller[c].kind = "push" /\ project.link # 0
                     THEN deployed \cup {caller[c].push} ELSE deployed
  BY DEF Applies, Ends, onGitHub
<1>2. g \in Granted
  BY <1>1, AppFacts DEF AppOK, InHands, IsAt
<1>3. known' \subseteq Granted
  BY <1>1, <1>2, <1>f
<1>4. project' \in [there : BOOLEAN, link : {0} \cup known']
  BY <1>1, <1>f
<1>5. deployed' \subseteq Push
  BY <1>1, <1>f DEF Numbered
<1>6. caller'[c] = Rest /\ \A d \in Caller \ {c} : caller'[d] = caller[d]
  BY <1>1, <1>f
<1>7. Rest.at # "hook" /\ Rest.grant = 0
  BY DEF Rest
<1>8. /\ owed' = IF Reached' THEN owed \cup ((pushes + 1) .. pushes') ELSE {}
      /\ muddled' \in BOOLEAN
  BY DEF Noting
<1>9. apps' \in 0 .. MaxApps /\ app' \in 0 .. apps'
  BY <1>1, <1>f
<1> QED BY <1>1, <1>3, <1>4, <1>5, <1>6, <1>7, <1>8, <1>9, RequestTyped

LEMMA EndsTyped ==
    ASSUME AppOK, GitHubTypeOK, Numbered, NEW upset \in BOOLEAN, Noting(upset), NEW c \in Caller,
           KeepsApp(c) \/ RequestFails(c)
    PROVE  GitHubTypeOK' /\ Numbered'
<1>f. /\ apps \in Nat /\ app \in Nat /\ app <= apps /\ apps <= MaxApps /\ MaxApps \in Nat
      /\ caller \in [Caller -> Request] /\ known \subseteq Granted
      /\ project \in [there : BOOLEAN, link : {0} \cup known] /\ deployed \subseteq Push
  BY AppFacts, GitHubAssumption DEF GitHubTypeOK
<1>1. /\ caller' = [caller EXCEPT ![c] = Rest]
      /\ UNCHANGED <<grant, mail, pushes, apps, known, project, deployed>>
  BY DEF KeepsApp, RequestFails, Ends, onGitHub
<1>2. app' \in 0 .. apps
  <2>1. IsAt(c, "keep") => caller[c].app \in 1 .. apps
    BY DEF AppOK, InHands
  <2>2. CASE KeepsApp(c)
    BY <1>f, <2>1, <2>2 DEF KeepsApp
  <2>3. CASE RequestFails(c)
    BY <1>f, <2>3 DEF RequestFails
  <2> QED BY <2>2, <2>3
<1>3. caller'[c] = Rest /\ \A d \in Caller \ {c} : caller'[d] = caller[d]
  BY <1>1, <1>f
<1>4. Rest.at # "hook" /\ Rest.grant = 0
  BY DEF Rest
<1>5. /\ owed' = IF Reached' THEN owed \cup ((pushes + 1) .. pushes') ELSE {}
      /\ muddled' \in BOOLEAN
  BY DEF Noting
<1>6. /\ apps' \in 0 .. MaxApps /\ app' \in 0 .. apps' /\ known' \subseteq Granted
      /\ project' \in [there : BOOLEAN, link : {0} \cup known'] /\ deployed' \subseteq Push
  BY <1>1, <1>2, <1>f
<1> QED BY <1>1, <1>3, <1>4, <1>5, <1>6, RequestTyped

LEMMA OwnerTyped ==
    ASSUME AppOK, GitHubTypeOK, Numbered, NEW upset \in BOOLEAN, Noting(upset),
           Unlinks \/ Disconnects
    PROVE  GitHubTypeOK' /\ Numbered'
<1>f. /\ apps \in Nat /\ app \in Nat /\ app <= apps /\ apps <= MaxApps /\ MaxApps \in Nat
      /\ known \subseteq Granted
      /\ project \in [there : BOOLEAN, link : {0} \cup known] /\ deployed \subseteq Push
  BY AppFacts, GitHubAssumption DEF GitHubTypeOK
<1>1. /\ project' = [project EXCEPT !.link = 0]
      /\ known' = known \/ known' = {}
      /\ app' = app \/ app' = 0
      /\ UNCHANGED <<grant, mail, pushes, apps, caller, deployed>>
  BY DEF Unlinks, Disconnects, onGitHub
<1>2. /\ owed' = IF Reached' THEN owed \cup ((pushes + 1) .. pushes') ELSE {}
      /\ muddled' \in BOOLEAN
  BY DEF Noting
<1>3. /\ apps' \in 0 .. MaxApps /\ app' \in 0 .. apps' /\ known' \subseteq Granted
      /\ project' \in [there : BOOLEAN, link : {0} \cup known'] /\ deployed' \subseteq Push
  BY <1>1, <1>f
<1>4. PICK c : c \notin Caller
  BY NoSetContainsEverything
<1>5. \A d \in Caller \ {c} : caller'[d] = caller[d]
  BY <1>1
<1> QED BY <1>1, <1>2, <1>3, <1>4, <1>5, RequestTyped

LEMMA DeliveryTyped ==
    ASSUME AppOK, GitHubTypeOK, Numbered, NEW upset \in BOOLEAN, Noting(upset),
           NEW i \in DOMAIN mail,
           Lost(i) \/ \E c \in Caller : Arrives(c, i)
    PROVE  GitHubTypeOK' /\ Numbered'
<1>f. /\ i \in 1 .. Len(mail) /\ mail \in Seq(Delivery) /\ Len(mail) \in Nat
      /\ caller \in [Caller -> Request] /\ Granted = 1 .. Len(grant)
  BY AppFacts
<1>1. /\ mail' = Without(i)
      /\ UNCHANGED <<apps, grant, pushes, app, known, project, deployed>>
  BY DEF Lost, Arrives
<1>2. /\ Len(mail') = Len(mail) - 1
      /\ \A k \in 1 .. Len(mail) - 1 : mail'[k] = IF k < i THEN mail[k] ELSE mail[k + 1]
  BY <1>1, <1>f, WithoutIs
<1>3. \A k \in 1 .. Len(mail') : mail'[k].kind = "push" => mail'[k].push \in Push
  <2> TAKE k \in 1 .. Len(mail')
  <2>1. k \in 1 .. Len(mail) /\ k + 1 \in 1 .. Len(mail) /\ k \in 1 .. Len(mail) - 1
    BY <1>2, <1>f
  <2> QED BY <1>2, <2>1 DEF Numbered
<1>4. \A d \in Caller : /\ caller'[d].grant \in {0} \cup Granted
                        /\ caller'[d].at = "hook" /\ caller'[d].kind = "push"
                              => caller'[d].push \in Push
  <2>0. \A d \in Caller : /\ caller[d].grant \in {0} \cup Granted
                          /\ caller[d].at = "hook" /\ caller[d].kind = "push"
                                => caller[d].push \in Push
    BY DEF GitHubTypeOK, Numbered, IsAt
  <2>1. CASE caller' = caller
    BY <2>0, <2>1
  <2>2. CASE caller' # caller
    <3>1. PICK c \in Caller : Arrives(c, i)
      BY <2>2 DEF Lost
    <3>2. PICK r : r = [at |-> "hook", app |-> app, grant |-> mail[i].grant,
                        kind |-> mail[i].kind, push |-> mail[i].push]
      OBVIOUS
    <3>3. caller' = [caller EXCEPT ![c] = r]
      BY <2>2, <3>1, <3>2 DEF Arrives, Begins
    <3>4. r.grant \in Granted /\ (r.kind = "push" => r.push \in Push)
      BY <1>f, <3>2 DEF AppOK, Mailed, Numbered
    <3> QED BY <1>f, <2>0, <3>3, <3>4
  <2> QED BY <2>1, <2>2
<1>5. owed' \subseteq Push /\ muddled' \in BOOLEAN
  <2>1. pushes' = pushes /\ (pushes + 1) .. pushes = {}
    BY <1>1 DEF Numbered
  <2> QED BY <2>1 DEF Noting, GitHubTypeOK
<1>6. GitHubTypeOK'
  BY <1>1, <1>4, <1>5 DEF GitHubTypeOK, Granted
<1>7. Numbered'
  BY <1>1, <1>3, <1>4 DEF Numbered, IsAt
<1> QED BY <1>6, <1>7

LEMMA AppTyped ==
    ASSUME AppInv, GitHubTypeOK, Numbered, GitHubNext
    PROVE  GitHubTypeOK' /\ Numbered'
<1>1. AppOK
  BY DEF AppInv, GitHubNext
<1>2. ASSUME NEW c \in Caller, KeepsApp(c), Noting(\E g \in Granted : Answers(app', g))
      PROVE  GitHubTypeOK' /\ Numbered'
  <2>1. PICK upset \in BOOLEAN : upset = (\E g \in Granted : Answers(app', g))
    OBVIOUS
  <2> QED BY <1>1, <1>2, <2>1, EndsTyped DEF Noting
<1>3. ASSUME NEW c \in Caller, RequestFails(c), Noting(IsAt(c, "hook"))
      PROVE  GitHubTypeOK' /\ Numbered'
  <2>1. PICK upset \in BOOLEAN : upset = IsAt(c, "hook")
    BY DEF IsAt
  <2> QED BY <1>1, <1>3, <2>1, EndsTyped DEF Noting
<1>4. Unlinks /\ Noting(FALSE) => GitHubTypeOK' /\ Numbered'
  BY <1>1, OwnerTyped
<1>5. ASSUME Disconnects, Noting(Busy # {})
      PROVE  GitHubTypeOK' /\ Numbered'
  <2>1. PICK upset \in BOOLEAN : upset = (Busy # {})
    OBVIOUS
  <2> QED BY <1>1, <1>5, <2>1, OwnerTyped DEF Noting
<1>6. ASSUME NEW c \in Caller, NEW i \in DOMAIN mail, Arrives(c, i), Noting(Overtakes(i))
      PROVE  GitHubTypeOK' /\ Numbered'
  <2>1. PICK upset \in BOOLEAN : upset = Overtakes(i)
    BY DEF Overtakes
  <2> QED BY <1>1, <1>6, <2>1, DeliveryTyped DEF Noting
<1>7. ASSUME NEW i \in DOMAIN mail, Lost(i), Noting(TRUE)
      PROVE  GitHubTypeOK' /\ Numbered'
  BY <1>1, <1>7, DeliveryTyped
<1> QED BY <1>1, <1>2, <1>3, <1>4, <1>5, <1>6, <1>7, InstallsTyped, UninstallsTyped,
           PushesTyped, PageTyped, HookTyped DEF GitHubNext

LEMMA AppStartsTyped == GitHubInit => GitHubTypeOK /\ Numbered
<1> SUFFICES ASSUME GitHubInit PROVE GitHubTypeOK /\ Numbered
  OBVIOUS
<1>1. /\ apps = 0 /\ app = 0 /\ grant = <<>> /\ known = {} /\ mail = <<>> /\ pushes = 0
      /\ owed = {} /\ deployed = {} /\ muddled = FALSE /\ \A c \in Caller : caller[c] = Rest
      /\ project \in [there : BOOLEAN, link : {0}]
  BY DEF GitHubInit
<1>2. /\ Len(grant) = 0 /\ Len(mail) = 0 /\ 1 .. 0 = {} /\ Granted = {}
      /\ {MaxApps, MaxGrants, MaxPushes} \subseteq Nat
  BY <1>1, GitHubAssumption DEF Granted
<1>3. project \in [there : BOOLEAN, link : {0} \cup known]
  BY <1>1
<1>4. Rest.at # "hook" /\ Rest.grant = 0
  BY DEF Rest
<1>5. GitHubTypeOK
  <2>1. apps \in 0 .. MaxApps /\ app \in 0 .. apps /\ Len(grant) <= MaxGrants
    BY <1>1, <1>2
  <2>2. \A g \in Granted : grant[g] \in [app : App, live : BOOLEAN]
    BY <1>2
  <2>3. \A c \in Caller : caller[c].grant \in {0} \cup Granted
    BY <1>1, <1>4
  <2> QED BY <1>1, <1>3, <2>1, <2>2, <2>3 DEF GitHubTypeOK
<1>6. Numbered
  BY <1>1, <1>2, <1>4 DEF Numbered, IsAt
<1> QED BY <1>5, <1>6
=============================================================================
