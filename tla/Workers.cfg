SPECIFICATION FairSpec
CONSTANTS
    Op = {o1, o2}
    MaxReplicas = 2
    MaxDeployments = 2
    MaxBoxes = 3
    MaxAsks = 3
    MaxFaults = 1
    None = None
INVARIANT TypeOK
PROPERTIES RollConverges  DrainingEnds DeletedRunsNothing
CHECK_DEADLOCK FALSE
