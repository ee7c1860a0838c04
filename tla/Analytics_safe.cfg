\* Three events, one of them with an epoch time; two rows are the latest, and a batch of two
\* may grow while it is collected.  Two activations, in one process or after a restart.
CONSTANTS
    EventsLimit = 2
    MaxEventsInPost = 2
    MaxRetries = 0
    NumEvents = 3
    Dated = {2}
    Restarts = 1
    Activations = 2
SPECIFICATION Spec
INVARIANTS
    TypeOK
    KeptUntilAnswered
    DeletedWithinLimit
    UndatedKeepOrder
PROPERTY DeliverySpec
\* The process may have ended, or be idle with no activation left.
CHECK_DEADLOCK FALSE
