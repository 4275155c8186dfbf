SPECIFICATION SafeSpec
CONSTANTS
    Fds <- TwoFds
    MaxFiles = 3
    MaxSources = 3
    MaxBatch = 2
    Masks <- InOnly
    Timeout = 1
    Backend = "kqueue"
    Faults <- NoFaults
INVARIANTS
    NoStaleEvent
CHECK_DEADLOCK FALSE
