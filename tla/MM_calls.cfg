CONSTANTS
    WhoAmI = FALSE
    Suppress = TRUE
    NetworkRetries = 0
    MaxInstances = 1
    Env = {"start", "stop", "deinit", "early", "die", "NEW_START_TIME"}
SPECIFICATION Spec
INVARIANTS TypeOK FinishedMeansQuiescent TasksOnlyWhileStarted BootCycleFirst
CHECK_DEADLOCK FALSE
