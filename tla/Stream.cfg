SPECIFICATION StreamSpec
CONSTANTS
    MaxFrames = 3
    SlotCount = 2
    SlotBytes = 2
    ReadsPerTurn = 2
    SendsFromDrop = FALSE
INVARIANTS
    ArmedWhileQueued
PROPERTIES
    DeliversFrames
    FramesLeave
