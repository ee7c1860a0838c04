CONSTANTS
    MaxSpeeches = 2
    MaxCalls = 1
    LocalEndpoint = FALSE
    MaxFailures = 1
SPECIFICATION Spec
INVARIANT NoEmptyDequeue
CHECK_DEADLOCK FALSE
