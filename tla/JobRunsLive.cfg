SPECIFICATION FairSpec
CONSTANTS
    Process = {"nightly"}
    Schedule <- TwoJobs
    Worker = {w1}
    Horizon = 1
    Retention = 2
    JobConcurrency = 1
    Slow = {}
    Pressed = {1}
    LastMinute = 3
    MaxFaults = 1
    None = None
PROPERTIES EveryRunEnds 
CHECK_DEADLOCK FALSE
