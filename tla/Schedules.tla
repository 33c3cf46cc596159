----------------------------- MODULE Schedules -----------------------------
(***************************************************************************)
(* Cron schedules (domain/schedule.py): how an expression is read, which   *)
(* minute the scheduler finds due, and which the dashboard announces.  The *)
(* two searches are written separately and walk in opposite directions;    *)
(* the announcement skips whole days, the scheduler does not.              *)
(*                                                                         *)
(* The calendar is a parameter: hours of MinutesInHour minutes, days of    *)
(* HoursInDay hours, months of the given lengths that repeat each year.    *)
(* Weekdays are the seven there are, Sunday first.                         *)
(***************************************************************************)
EXTENDS Naturals, FiniteSets, Sequences

CONSTANTS
    MinutesInHour, HoursInDay,
    DaysIn,      \* the length of each month, in order
    MaxCatchup,  \* how far back a missed minute is still run
    MaxLookahead,\* how far ahead the next one is looked for
    Expressions, \* the schedules people write: five fields
    MaxClock,    \* bound: where the clock stops
    Never        \* no minute

ASSUME SchedulesAssumption ==
    /\ MinutesInHour \in Nat \ {0} /\ HoursInDay \in Nat \ {0}
    /\ DaysIn \in Seq(Nat \ {0}) /\ DaysIn # <<>>
    /\ MaxCatchup \in Nat /\ MaxLookahead \in Nat /\ MaxClock \in Nat
    /\ Never \notin Nat

\* Five fields of one chunk or more (see ChunkEnds).
Chunk ==
    [form : {"star"}, step : Nat] \cup [form : {"one"}, from : Nat, step : Nat]
        \cup [form : {"range"}, from : Nat, to : Nat, step : Nat]

ASSUME ExpressionsAssumption ==
    \A e \in Expressions : \A f \in 1 .. 5 : e[f] # {} /\ e[f] \subseteq Chunk

VARIABLES
    cron,     \* the schedule of the process, as parsed
    clock,    \* minutes since the worker's host began to count
    announced \* the next run the dashboard showed, and when it did

scheduleVars == <<cron, clock, announced>>

\* The fields in the order they are written, with their ranges.
Fields == <<[low |-> 0, high |-> MinutesInHour - 1],
            [low |-> 0, high |-> HoursInDay - 1],
            [low |-> 1, high |-> 31],
            [low |-> 1, high |-> Len(DaysIn)],
            [low |-> 0, high |-> 6]>>

Weekday == 5

\* A number in a field; cron has always taken 7 for Sunday too.
Value(v, f) == IF f = Weekday /\ v = 7 THEN 0 ELSE v

InRange(v, f) == Fields[f].low <= Value(v, f) /\ Value(v, f) <= Fields[f].high

\* A chunk is "*", a number or a range (from and to), with or without a step
\* (0 when there is none).  A number with a step is open-ended.
ChunkEnds(c, f) ==
    CASE c.form = "star" -> <<Fields[f].low, Fields[f].high>>
      [] c.form = "range" -> <<Value(c.from, f), Value(c.to, f)>>
      [] c.form = "one" ->
            <<Value(c.from, f), IF c.step = 0 THEN Value(c.from, f) ELSE Fields[f].high>>

\* Refused: out of range, or running backwards.
ChunkIsValid(c, f) ==
    \/ c.form = "star"
    \/ c.form = "one" /\ InRange(c.from, f)
    \/ /\ c.form = "range" /\ InRange(c.from, f) /\ InRange(c.to, f)
       /\ Value(c.from, f) <= Value(c.to, f)

ChunkValues(c, f) ==
    LET ends == ChunkEnds(c, f)
        step == IF c.step = 0 THEN 1 ELSE c.step
    IN  {v \in ends[1] .. ends[2] : (v - ends[1]) % step = 0}

Star == [form |-> "star", step |-> 0]

Parses(e) == \A f \in 1 .. 5 : \A c \in e[f] : ChunkIsValid(c, f)

\* A day field is restricted unless it is the star alone.
Parse(e) ==
    [values |-> [f \in 1 .. 5 |-> UNION {ChunkValues(c, f) : c \in e[f]}],
     restricted |-> [f \in {3, 5} |-> e[f] # {Star}]]

\* The calendar.
DayOf(t) == t \div (MinutesInHour * HoursInDay)

DaysBefore == [m \in 0 .. Len(DaysIn) |->
                  LET sum[i \in 0 .. m] == IF i = 0 THEN 0 ELSE sum[i - 1] + DaysIn[i]
                  IN  sum[m]]

DayOfYear(t) == DayOf(t) % DaysBefore[Len(DaysIn)]

MonthOf(t) ==
    CHOOSE m \in 1 .. Len(DaysIn) :
        DaysBefore[m - 1] <= DayOfYear(t) /\ DayOfYear(t) < DaysBefore[m]

\* Minute, hour, day of the month, month and weekday of a minute.
Date(t) == <<t % MinutesInHour, (t \div MinutesInHour) % HoursInDay,
             DayOfYear(t) - DaysBefore[MonthOf(t) - 1] + 1, MonthOf(t), DayOf(t) % 7>>

\* Day of month and weekday are a union when both are restricted, and are
\* intersected like the rest otherwise.
DayMatches(s, t) ==
    LET day == Date(t)[3] \in s.values[3]
        weekday == Date(t)[5] \in s.values[5]
    IN  IF s.restricted[3] /\ s.restricted[5] THEN day \/ weekday ELSE day /\ weekday

Matches(s, t) ==
    /\ Date(t)[1] \in s.values[1]
    /\ Date(t)[2] \in s.values[2]
    /\ Date(t)[4] \in s.values[4]
    /\ DayMatches(s, t)

\* The most recent minute the schedule names, now included.
DueSlot(s, now) ==
    LET early == IF now > MaxCatchup THEN now - MaxCatchup ELSE 0
        back[t \in early .. now] ==
            IF Matches(s, t) THEN t ELSE IF t = early THEN Never ELSE back[t - 1]
    IN  back[now]

\* Variant: every field must match before a day is worth walking through.
DateIntersects(s, t) ==
    /\ Date(t)[4] \in s.values[4]
    /\ Date(t)[3] \in s.values[3]
    /\ Date(t)[5] \in s.values[5]

\* A day no minute of which the schedule can name is skipped whole.
DateCouldMatch(s, t) == Date(t)[4] \in s.values[4] /\ DayMatches(s, t)

NextMidnight(t) == (DayOf(t) + 1) * MinutesInHour * HoursInDay

\* The first minute after this one that the schedule names.
NextSlot(s, after) ==
    LET deadline == after + 1 + MaxLookahead
        forward[t \in Nat] ==
            IF t > deadline THEN Never
            ELSE IF Matches(s, t) THEN t
            ELSE IF ~DateCouldMatch(s, t) THEN forward[NextMidnight(t)]
            ELSE forward[t + 1]
    IN  forward[after + 1]

\* The process page shows when the job will next run.
Announce ==
    /\ announced = Never
    /\ announced' = [at |-> clock, slot |-> NextSlot(cron, clock)]
    /\ UNCHANGED <<cron, clock>>

Minute ==
    /\ clock < MaxClock
    /\ clock' = clock + 1
    /\ UNCHANGED <<cron, announced>>

SchedulesInit ==
    /\ cron \in {Parse(e) : e \in {x \in Expressions : Parses(x)}}
    /\ clock = 0 /\ announced = Never

SchedulesNext == Announce \/ Minute

SchedulesTypeOK ==
    /\ DOMAIN cron = {"values", "restricted"}
    /\ \A f \in 1 .. 5 : cron.values[f] # {}
    /\ clock \in 0 .. MaxClock
    /\ announced = Never \/ announced.at \in 0 .. clock

\* The run the dashboard announced is the one that happens: until then the
\* scheduler finds nothing newer than what was due when it was announced, and
\* then it finds that very minute or a later one (next_slot against due_slot,
\* which never predicts).  An announcement of "never" says that nothing comes
\* due for as long as next_slot looked.
AnnouncedRunHappens ==
    announced # Never =>
        LET due == DueSlot(cron, clock)
            until == IF announced.slot = Never THEN announced.at + MaxLookahead + 2
                     ELSE announced.slot
        IN  IF clock < until THEN due = Never \/ due <= announced.at
            ELSE announced.slot # Never /\ clock - announced.slot <= MaxCatchup =>
                     due # Never /\ due >= announced.slot /\ Matches(cron, announced.slot)
=============================================================================
