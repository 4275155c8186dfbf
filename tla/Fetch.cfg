SPECIFICATION Spec
CONSTANTS
    Requests <- TwoRequests
    Jobs <- SomeJobs
    Replies <- SomeReplies
    MaxAddresses = 2
    MaxRedirects = 1
    ReadsPerTurn = 2
    Idle = 2
INVARIANTS
    ResourcesOwned
    ExchangeFaithful
PROPERTIES
    IdleMeansSilence
    Completes
