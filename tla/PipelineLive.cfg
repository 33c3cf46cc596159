SPECIFICATION FairSpec
CONSTANTS
    Deployment = {1, 2}
    Ref = {main, topic}
    ProductionBranch = main
    Worker = {w1}
    Request = {r1}
    None = None
    MaxRuns = 2
    KeepWarm = 0
    MaxTasks = 1
    MaxFaults = 1
    Asks = {"cancel", "domains"}
    Stalls = FALSE
PROPERTIES Settles AbandonedWasNotDeployed ProductionMovesForward
CHECK_DEADLOCK FALSE
