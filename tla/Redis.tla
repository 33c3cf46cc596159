------------------------------- MODULE Redis -------------------------------
(***************************************************************************)
(* The built-in Redis of one project: its row, its container and its       *)
(* volume, the Redis page's operations and the monitor's pass that keeps   *)
(* the container running (engine/redis.py, repositories/redis.py).         *)
(*                                                                         *)
(* Nothing locks the container: each operation, and the pass, works from   *)
(* the row as it read or wrote it, one Docker command after another.  Both *)
(* memory and policy are the size here; the image does not change.         *)
(***************************************************************************)
EXTENDS Integers

CONSTANTS
    Clerk,     \* requests to the Redis page
    Pass,      \* the monitor's pass: one actor
    Size,      \* memory and policy: what the digest is taken of
    NoRedis,   \* no row, no container
    MaxClicks, \* bound: requests
    MaxUpsets  \* bound: stops by hand, Docker's failures, processes that die

ASSUME RedisAssumption ==
    /\ Pass \notin Clerk
    /\ MaxClicks \in Nat /\ MaxUpsets \in Nat

VARIABLES
    config,  \* the row of project_redis
    box,     \* the container
    volume,  \* the data volume is there
    hand,    \* what each actor is at, and the row it has
    clicks,  \* requests so far; one that adds Redis makes that password
    upsets,
    raced    \* history: a removal has overlapped with something else

redisVars == <<config, box, volume, hand, clicks, upsets, raced>>

Actor == Clerk \cup {Pass}

RedisConfig == [secret : 1..MaxClicks, size : Size]
Box == [secret : 1..MaxClicks, size : Size, up : BOOLEAN]

ASSUME NoRedisAssumption == NoRedis \notin RedisConfig \cup Box

Free == [at |-> "idle", row |-> NoRedis, wipe |-> FALSE]

HandState ==
    [at : {"idle", "state", "label up", "label down", "start", "volume", "clear", "run",
           "remove", "forget", "wipe"},
     row : RedisConfig \cup {NoRedis}, wipe : BOOLEAN]

At(a, step) == hand' = [hand EXCEPT ![a].at = step]
Done(a) == hand' = [hand EXCEPT ![a] = Free]

Click(a) ==
    /\ a \in Clerk
    /\ hand[a] = Free
    /\ clicks < MaxClicks /\ clicks' = clicks + 1

-----------------------------------------------------------------------------
(* Where the operations begin *)

With(a, row, step) == hand' = [hand EXCEPT ![a] = [Free EXCEPT !.at = step, !.row = row]]

\* enable: a row with a new password; a second one is a conflict.
Enable(a, size) ==
    /\ Click(a)
    /\ config = NoRedis
    /\ config' = [secret |-> clicks + 1, size |-> size]
    /\ With(a, config', "state")
    /\ UNCHANGED <<box, volume, upsets>>

\* update: memory and policy, never the password.
Update(a, size) ==
    /\ Click(a)
    /\ config # NoRedis
    /\ config' = [config EXCEPT !.size = size]
    /\ With(a, config', "state")
    /\ UNCHANGED <<box, volume, upsets>>

RestartAsked(a) ==
    /\ Click(a)
    /\ config # NoRedis
    /\ With(a, config, "volume")
    /\ UNCHANGED <<config, box, volume, upsets>>

\* disable, once there is a row; the data goes only when that was ticked.
Disable(a, wipe) ==
    /\ Click(a)
    /\ config # NoRedis
    /\ hand' = [hand EXCEPT ![a] = [at |-> "remove", row |-> config, wipe |-> wipe]]
    /\ UNCHANGED <<config, box, volume, upsets>>

\* _check_redis: every minute, each row.
PassBegins ==
    /\ hand[Pass] = Free
    /\ config # NoRedis
    /\ With(Pass, config, "state")
    /\ UNCHANGED <<config, box, volume, clicks, upsets>>

-----------------------------------------------------------------------------
(* ensure_running *)

\* Docker's word for it; a container that is not there is started.
State(a) ==
    /\ hand[a].at = "state"
    /\ At(a, CASE box = NoRedis -> "volume"
               [] box # NoRedis /\ box.up -> "label up"
               [] OTHER -> "label down")
    /\ UNCHANGED <<config, box, volume, clicks, upsets>>

\* Variant: a container that is there will do.
AnyBox(row) == box # NoRedis

\* The digest of the settings, which the password is not in.
Agrees(row) == box # NoRedis /\ box.size = row.size

Label(a) ==
    /\ hand[a].at \in {"label up", "label down"}
    /\ \/ /\ ~Agrees(hand[a].row)
          /\ At(a, "volume")
       \/ /\ Agrees(hand[a].row)
          /\ IF hand[a].at = "label up" THEN Done(a) ELSE At(a, "start")
    /\ UNCHANGED <<config, box, volume, clicks, upsets>>

\* docker start, which raises when the container has gone.
StartsAgain(a) ==
    /\ hand[a].at = "start"
    /\ box' = IF box = NoRedis THEN box ELSE [box EXCEPT !.up = TRUE]
    /\ Done(a)
    /\ UNCHANGED <<config, volume, clicks, upsets>>

\* _start: ensure_volume, then run_service clears the name and runs.
EnsureVolume(a) ==
    /\ hand[a].at = "volume"
    /\ volume' = TRUE
    /\ At(a, "clear")
    /\ UNCHANGED <<config, box, clicks, upsets>>

Clears(a) ==
    /\ hand[a].at = "clear"
    /\ box' = NoRedis
    /\ At(a, "run")
    /\ UNCHANGED <<config, volume, clicks, upsets>>

\* docker run raises when the name is taken, and makes a volume it misses.
RunsService(a) ==
    /\ hand[a].at = "run"
    /\ \/ /\ box = NoRedis
          /\ box' = [secret |-> hand[a].row.secret, size |-> hand[a].row.size,
                     up |-> TRUE]
          /\ volume' = TRUE
       \/ /\ box # NoRedis
          /\ UNCHANGED <<box, volume>>
    /\ Done(a)
    /\ UNCHANGED <<config, clicks, upsets>>

-----------------------------------------------------------------------------
(* disable *)

\* Variant: the container is left to the next pass.
BoxLeft == box

Removed == NoRedis

Removes(a) ==
    /\ hand[a].at = "remove"
    /\ box' = Removed
    /\ At(a, "forget")
    /\ UNCHANGED <<config, volume, clicks, upsets>>

Forgets(a) ==
    /\ hand[a].at = "forget"
    /\ config' = NoRedis
    /\ IF hand[a].wipe THEN At(a, "wipe") ELSE Done(a)
    /\ UNCHANGED <<box, volume, clicks, upsets>>

\* Docker refuses to remove a volume a container has.
Wipes(a) ==
    /\ hand[a].at = "wipe"
    /\ volume' = (volume /\ box # NoRedis)
    /\ Done(a)
    /\ UNCHANGED <<config, box, clicks, upsets>>

-----------------------------------------------------------------------------
(* Faults *)

Upset == upsets < MaxUpsets /\ upsets' = upsets + 1

\* A Docker command or the pull fails, or the process ends.
BreaksOff(a) ==
    /\ hand[a] # Free
    /\ Upset
    /\ Done(a)
    /\ UNCHANGED <<config, box, volume, clicks>>

\* Inspecting a container that is there may fail; it then counts as missing.
NotSeen(a) ==
    /\ hand[a].at = "state"
    /\ box # NoRedis
    /\ Upset
    /\ At(a, "volume")
    /\ UNCHANGED <<config, box, volume, clicks>>

\* docker stop, by hand or a restart of the host.
StoppedByHand ==
    /\ box # NoRedis /\ box.up
    /\ Upset
    /\ box' = [box EXCEPT !.up = FALSE]
    /\ UNCHANGED <<config, volume, hand, clicks>>

RedisStep(a) ==
    \/ State(a) \/ Label(a) \/ StartsAgain(a)
    \/ EnsureVolume(a) \/ Clears(a) \/ RunsService(a)
    \/ Removes(a) \/ Forgets(a) \/ Wipes(a)

Removing(a) == hand[a].at \in {"remove", "forget", "wipe"}

Overlap == \E a, b \in Actor : a # b /\ Removing(a) /\ hand[b] # Free

RedisSteps ==
    \/ \E a \in Clerk, size \in Size : Enable(a, size) \/ Update(a, size)
    \/ \E a \in Clerk : RestartAsked(a)
    \/ \E a \in Clerk, wipe \in BOOLEAN : Disable(a, wipe)
    \/ PassBegins
    \/ \E a \in Actor : RedisStep(a) \/ BreaksOff(a) \/ NotSeen(a)
    \/ StoppedByHand

\* A step, and the history it makes.
Recorded(Step) == Step /\ raced' = (raced \/ Overlap')

RedisNext == Recorded(RedisSteps)

RedisInit ==
    /\ config = NoRedis
    /\ box = NoRedis
    /\ volume = FALSE
    /\ hand = [a \in Actor |-> Free]
    /\ clicks = 0 /\ upsets = 0
    /\ raced = FALSE

RedisTypeOK ==
    /\ config \in RedisConfig \cup {NoRedis}
    /\ box \in Box \cup {NoRedis}
    /\ volume \in BOOLEAN /\ raced \in BOOLEAN
    /\ hand \in [Actor -> HandState]
    /\ clicks \in 0..MaxClicks /\ upsets \in 0..MaxUpsets

-----------------------------------------------------------------------------
\* Redis is kept running: while a project has one, its container comes to run
\* with the memory and policy last asked for, whatever passes with an older
\* row, requests that overlapped and processes that died did in between.
RedisConverges ==
    config # NoRedis ~>
        \/ config = NoRedis
        \/ box # NoRedis /\ box.up /\ box.size = config.size

\* The container that is up has the password of the row, which the app
\* connects with ("The password is left out on purpose ... and never changes
\* anyway", domain/redis.py:150), as long as no removal overlapped with a pass
\* or another request.
PasswordKept ==
    ~raced /\ config # NoRedis /\ box # NoRedis /\ (\A a \in Actor : hand[a] = Free)
        => box.secret = config.secret
=============================================================================
