SPECIFICATION Spec
CONSTANTS
    Lookups <- TwoLookups
    Timeout = 2
    Faults <- AllFaults
INVARIANTS
    TypeOK
    NothingLeaks
    BusyIffOwed
    VerdictFaithful
PROPERTIES
    Completes
