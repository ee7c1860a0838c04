\* Two events with an epoch time, and one activation.
CONSTANTS
    EventsLimit = 1
    MaxEventsInPost = 1
    MaxRetries = 0
    NumEvents = 2
    Dated = {1, 2}
    Restarts = 0
    Activations = 1
SPECIFICATION FairFlushSpec
PROPERTY QueuedIsWritten
\* The process may have ended.
CHECK_DEADLOCK FALSE
