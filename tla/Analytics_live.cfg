\* Two events, one of which the latest row leaves out, and a retry.  One activation that may
\* end, and the process with it.
CONSTANTS
    EventsLimit = 1
    MaxEventsInPost = 1
    MaxRetries = 1
    NumEvents = 2
    Dated = {2}
    Restarts = 0
    Activations = 1
SPECIFICATION FairSpec
PROPERTIES
    StoredIsAnswered
    NothingWaitsForTime
    UploaderStops
\* The process may have ended.
CHECK_DEADLOCK FALSE
