SPECIFICATION PromotionSpec
CONSTANTS
    Deployment = {1, 2, 3}
    Ref = {main}
    ProductionBranch = main
    Worker = {w1}
    Request = {r1, r2}
    None = None
    MaxRuns = 2
    KeepWarm = 1
    MaxTasks = 2
    MaxFaults = 1
SYMMETRY Symmetric
INVARIANTS TypeOK CleanWork
PROPERTY CleanRefresh
CHECK_DEADLOCK FALSE
