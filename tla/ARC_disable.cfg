\* An InitiateArc message, Deinitialize() and another InitiateArc message.
CONSTANTS
    MaxOps = 3
    Env = {"initiate", "deinitialize"}
SPECIFICATION FairSpec
PROPERTY DisableEnds
\* No more may come.
CHECK_DEADLOCK FALSE
