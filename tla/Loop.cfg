SPECIFICATION Spec
CONSTANTS
    Fds <- TwoFds
    MaxFiles = 2
    MaxSources = 3
    MaxBatch = 2
    Masks <- SomeMasks
    Timeout = 1
    Backend = "kqueue"
    Faults <- AllFaults
INVARIANTS
    TypeOK
    TableMatchesKernel
PROPERTIES
    StopEndsRun
    BoundedRunReturns
