\* The build with both task lists, three network checks, and mode requests at every point.
CONSTANTS
    WhoAmI = FALSE
    Suppress = TRUE
    NetworkRetries = 2
    MaxInstances = 1
    Env = {"start", "NEW_START_TIME"}
    Requests <- const_Requests
SPECIFICATION ModeFairSpec
INVARIANTS
    ModeTypeOK
    SomebodyToWaitFor
PROPERTIES
    ModeFrozenDuringTasks
    StartedCycleEnds
    BootEnds
\* A script may be all that is left to wait for.
CHECK_DEADLOCK FALSE
