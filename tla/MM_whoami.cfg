CONSTANTS
    WhoAmI = TRUE
    Suppress = FALSE
    NetworkRetries = 0
    MaxInstances = 1
    Env = {"start", "stop", "early", "INPROGRESS"}
SPECIFICATION Spec
INVARIANTS TasksOnlyWhileStarted BootCycleFirst
PROPERTY CycleSpec
CHECK_DEADLOCK FALSE
