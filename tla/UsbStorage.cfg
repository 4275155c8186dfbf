SPECIFICATION Spec
CONSTANTS
    p1 = p1
    Chunks = 2
    Timeout = 2
    Sources <- Spellings
    Points <- OnePoint
    MountsMax = 2
    Attempts = 3
    MaxMounts = 3
    MaxWrites = 2
INVARIANTS
    DriveOwned
    ProgressIsSynced
PROPERTIES
    WriteEnds
