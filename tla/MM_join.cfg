CONSTANTS
    WhoAmI = FALSE
    Suppress = FALSE
    NetworkRetries = 0
    MaxInstances = 1
    Env = {"start", "early"}
SPECIFICATION Spec
INVARIANT JoinedWorkerCanFinish
CHECK_DEADLOCK FALSE
