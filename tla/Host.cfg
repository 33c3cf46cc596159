SPECIFICATION Spec
CONSTANTS
    Deployment = {1, 2, 3}
    Ref = {main}
    ProductionBranch = main
    Worker = {w1}
    None = None
    MaxRuns = 1
    Sha = {a, b}
    Console = {cli}
    KeepImages = 1
    KeepWarm = 0
    MinutesInHour = 3
    HoursInDay = 2
    DaysIn <- Months
    MaxCatchup = 7
    MaxLookahead = 80
    Expressions <- Written
    MaxClock = 36
    Never = Never
    Checkouts <- Projects
    Settings <- Overriding
    Unset = Unset
    Broken = Broken
    Visitor = {v1, v2}
    Addresses = {a4, a6}
    MaxRecords = 3
    MaxAdds = 2
    Nothing = Nothing
    Release = {d1, d2}
    Commit = {x}
    MaxEdits = 3
    Nobody = Nobody
    Caller = {c1, c2}
    MaxApps = 2
    MaxGrants = 2
    MaxPushes = 1
SYMMETRY Symmetric
INVARIANTS TypeOK  AnnouncedRunHappens  ZoneRespected  AppInStep
CHECK_DEADLOCK FALSE
