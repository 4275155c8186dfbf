SPECIFICATION OutSpec
CONSTANTS
    MaxPackets = 7
    OutSize = 7
INVARIANTS
    StreamIntact
    RetryContract
PROPERTIES
    QueueDrains
