SPECIFICATION FairSpec
CONSTANTS
    w1 = w1
    Worker = {w1}
    Server = {s1}
    Request = {r1}
    Copier <- Tasks
    MaxName = 3
    MaxRuns = 2
    MaxAsks = 1
    Keep = 1
    LastMoment = 1
    MaxFaults = 1
    None = None
INVARIANTS TypeOK OneWriter LastCopyIsThere
PROPERTIES KeepsEnough EveryRunCloses
CHECK_DEADLOCK FALSE
