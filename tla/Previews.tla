------------------------------ MODULE Previews ------------------------------
(***************************************************************************)
(* The picture of each project's live site: asked for by a promotion or    *)
(* the Refresh button, claimed and taken by a worker, recorded, and the    *)
(* older files swept (engine/previews.py, repositories/previews.py).       *)
(*                                                                         *)
(* A worker takes one picture at a time.  A capture whose worker stopped   *)
(* is claimed again after five minutes.  A pair of files is one file here. *)
(***************************************************************************)
EXTENDS Integers

CONSTANTS
    Site,        \* projects with a live site
    Camera,      \* worker processes
    Under,       \* <<a, b>>: b's slug is a's, a hyphen, and more
    MaxAsks,     \* bound: promotions and refreshes
    MaxFiles,    \* bound: pictures taken
    MaxDeaths    \* bound: workers that stop in a capture

ASSUME PreviewsAssumption ==
    /\ Under \subseteq Site \X Site
    /\ MaxAsks \in Nat /\ MaxFiles \in Nat /\ MaxDeaths \in Nat

VARIABLES
    live,     \* how often each site's production has changed
    preview,  \* the row of each site in site_previews
    camera,   \* what each worker's capture is at
    disk,     \* the previews directory
    taken,    \* pictures so far: the time in a file's name
    asked,    \* asks so far: requested_at
    deaths

previewVars == <<live, preview, camera, disk, taken, asked, deaths>>

PreviewStatus == {"none", "requested", "capturing", "captured", "failed"}

File == [site : Site, no : 1..MaxFiles]
NoFile == [site |-> "none", no |-> 0]

NoPreview == [status |-> "none", of |-> 0, at |-> 0, late |-> FALSE, file |-> NoFile,
              shows |-> 0]

Resting == [at |-> "idle", site |-> NoFile.site, of |-> 0, file |-> NoFile]

CameraIs(k, state) == camera' = [camera EXCEPT ![k] = state]

\* request: the old picture stays until the new one replaces it.
Requested(p, d) ==
    [preview EXCEPT ![p] = [@ EXCEPT !.status = "requested", !.of = d, !.late = FALSE,
                                     !.at = asked + 1]]

\* Variant: the picture is asked for and the promotion then fails.
AskedTooSoon(p) ==
    /\ asked < MaxAsks /\ asked' = asked + 1
    /\ preview' = Requested(p, live[p] + 1)
    /\ UNCHANGED <<live, camera, disk, taken, deaths>>

\* A promotion or rollback changes production and asks.
GoesLive(p) ==
    /\ asked < MaxAsks /\ asked' = asked + 1
    /\ live' = [live EXCEPT ![p] = @ + 1]
    /\ preview' = Requested(p, live[p] + 1)
    /\ UNCHANGED <<camera, disk, taken, deaths>>

\* The Refresh button asks for what is in production.
Refresh(p) ==
    /\ asked < MaxAsks /\ asked' = asked + 1
    /\ live[p] # 0
    /\ preview' = Requested(p, live[p])
    /\ UNCHANGED <<live, camera, disk, taken, deaths>>

\* Variant: what a worker has begun is its own.
WaitingAsked(p) == preview[p].status = "requested"

Waiting(p) ==
    \/ preview[p].status = "requested"
    \/ preview[p].status = "capturing" /\ preview[p].late

\* claim: the oldest request, or one whose worker stopped.
Claim(k, p) ==
    /\ camera[k].at = "idle"
    /\ Waiting(p)
    /\ \A q \in Site : Waiting(q) => preview[p].at <= preview[q].at
    /\ preview' = [preview EXCEPT ![p].status = "capturing", ![p].late = FALSE]
    /\ CameraIs(k, [Resting EXCEPT !.at = "shoot", !.site = p, !.of = preview[p].of])
    /\ UNCHANGED <<live, disk, taken, asked, deaths>>

\* The page does not answer, answers an error, or the browser fails: the
\* row says so and keeps its picture.
Misses(k) ==
    /\ camera[k].at = "shoot"
    /\ preview' = [preview EXCEPT ![camera[k].site].status = "failed"]
    /\ CameraIs(k, Resting)
    /\ UNCHANGED <<live, disk, taken, asked, deaths>>

Shoots(k) ==
    LET file == [site |-> camera[k].site, no |-> taken + 1]
    IN  /\ camera[k].at = "shoot"
        /\ taken < MaxFiles /\ taken' = taken + 1
        /\ disk' = disk \cup {file}
        /\ CameraIs(k, [camera[k] EXCEPT !.at = "record", !.file = file])
        /\ UNCHANGED <<live, preview, asked, deaths>>

\* captured, whatever the row has come to meanwhile.
Records(k) ==
    /\ camera[k].at = "record"
    /\ preview' = [preview EXCEPT ![camera[k].site] =
                      [@ EXCEPT !.status = "captured", !.file = camera[k].file,
                                !.shows = camera[k].of]]
    /\ CameraIs(k, [camera[k] EXCEPT !.at = "sweep"])
    /\ UNCHANGED <<live, disk, taken, asked, deaths>>

\* The glob of _sweep: files whose name begins with the slug and a hyphen.
Matches(p, file) == file.site = p \/ <<p, file.site>> \in Under

Sweeps(k) ==
    /\ camera[k].at = "sweep"
    /\ disk' = {f \in disk : Matches(camera[k].site, f) => f = camera[k].file}
    /\ CameraIs(k, Resting)
    /\ UNCHANGED <<live, preview, taken, asked, deaths>>

Stops(k) ==
    /\ camera[k].at # "idle"
    /\ deaths < MaxDeaths /\ deaths' = deaths + 1
    /\ CameraIs(k, Resting)
    /\ UNCHANGED <<live, preview, disk, taken, asked>>

\* Five minutes have passed since the claim.
GrowsLate(p) ==
    /\ preview[p].status = "capturing" /\ ~preview[p].late
    /\ preview' = [preview EXCEPT ![p].late = TRUE]
    /\ UNCHANGED <<live, camera, disk, taken, asked, deaths>>

CameraStep(k) ==
    Misses(k) \/ Shoots(k) \/ Records(k) \/ Sweeps(k) \/ \E p \in Site : Claim(k, p)

PreviewNext ==
    \/ \E p \in Site : GoesLive(p) \/ Refresh(p) \/ GrowsLate(p)
    \/ \E k \in Camera : CameraStep(k) \/ Stops(k)

PreviewInit ==
    /\ live = [p \in Site |-> 0]
    /\ preview = [p \in Site |-> NoPreview]
    /\ camera = [k \in Camera |-> Resting]
    /\ disk = {}
    /\ taken = 0 /\ asked = 0 /\ deaths = 0

PreviewTypeOK ==
    /\ live \in [Site -> 0..MaxAsks]
    /\ preview \in [Site -> [status : PreviewStatus, of : 0..MaxAsks, at : 0..MaxAsks,
                            late : BOOLEAN, file : File \cup {NoFile}, shows : 0..MaxAsks]]
    /\ \A p \in Site : preview[p].of <= live[p] /\ preview[p].shows <= live[p]
    /\ camera \in [Camera -> [at : {"idle", "shoot", "record", "sweep"},
                              site : Site \cup {NoFile.site}, of : 0..MaxAsks,
                              file : File \cup {NoFile}]]
    /\ disk \subseteq File
    /\ taken \in 0..MaxFiles /\ asked \in 0..MaxAsks /\ deaths \in 0..MaxDeaths

-----------------------------------------------------------------------------
\* A picture that is asked for comes, or its failure does: a request does not
\* stay in progress because the worker that claimed it stopped.
RequestsEnd ==
    \A p \in Site :
        preview[p].status \in {"requested", "capturing"}
            ~> preview[p].status \in {"captured", "failed"}
=============================================================================
