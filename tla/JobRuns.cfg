SPECIFICATION Spec
CONSTANTS
    Process = {"nightly"}
    Schedule <- TwoJobs
    Worker = {w1, w2}
    Horizon = 1
    Retention = 2
    JobConcurrency = 1
    Slow = {}
    Pressed = {1}
    LastMinute = 3
    MaxFaults = 1
    None = None
INVARIANTS TypeOK ExactlyOnce TasksHoldTheirRuns
 
SYMMETRY Symmetric
CHECK_DEADLOCK FALSE
