SPECIFICATION SafeSpec
CONSTANTS
    Lookups <- TwoLookups
    Timeout = 2
    Faults <- NoFaults
INVARIANT
    AnswerNotLost
