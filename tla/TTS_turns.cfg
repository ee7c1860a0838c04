\* Two speeches, so that each race is between one and the one that pre-empts it, and
\* another call at every point of them.
CONSTANTS
    MaxSpeeches = 2
    MaxCalls = 1
    LocalEndpoint = TRUE
    MaxFailures = 1
SPECIFICATION FairSpec
INVARIANTS
    TypeOK
    CallbackSpeechAlive
    LatestNotLost
    AsleepMeansNothingToDo
PROPERTIES
    TurnsSpec
    LatestSpeechEnds
    DisabledReleases
\* The calls are used up.
CHECK_DEADLOCK FALSE
