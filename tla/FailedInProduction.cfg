SPECIFICATION Spec
CONSTANTS
    Deployment = {1}
    Ref = {main}
    ProductionBranch = main
    Worker = {w1}
    Request = {r1}
    None = None
    MaxRuns = 1
    KeepWarm = 1
    MaxTasks = 0
    MaxFaults = 1
    Asks = {}
    Stalls = FALSE
INVARIANT FailedIsNotProduction
CHECK_DEADLOCK FALSE
