CONSTANTS
    WhoAmI = FALSE
    Suppress = FALSE
    NetworkRetries = 0
    MaxInstances = 1
    Env = {"early"}
SPECIFICATION FairSpec
PROPERTY StartedCycleEnds
CHECK_DEADLOCK FALSE
