\* Any three calls, events and messages, at every point of each other, of the timer and of
\* the routing thread.
CONSTANTS
    MaxOps = 3
    Env = {"setup", "power", "unplug", "audioOff", "initiate", "terminate", "enable", "setEnabled", "deinitialize"}
SPECIFICATION FairSpec
INVARIANTS
    TypeOK
    NoStateForgotten
    RequestIsTimed
PROPERTIES
    RequestEnds
    StateIsReported
\* No more may come.
CHECK_DEADLOCK FALSE
