SPECIFICATION Spec
CONSTANTS
    Deployment = {1, 2}
    Ref = {main}
    ProductionBranch = main
    Worker = {w1, w2}
    Request = {r1}
    None = None
    MaxRuns = 1
    KeepWarm = 0
    MaxTasks = 1
    MaxFaults = 1
    Asks = {"promote", "cancel"}
    Stalls = TRUE
SYMMETRY Symmetric
INVARIANTS TypeOK OneBuilder ProductionWasReady ReplacedNeverStarted
PROPERTY Lifecycles
CHECK_DEADLOCK FALSE
