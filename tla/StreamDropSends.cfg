SPECIFICATION StreamSpec
CONSTANTS
    MaxFrames = 3
    SlotCount = 2
    SlotBytes = 1
    ReadsPerTurn = 1
    SendsFromDrop = TRUE
PROPERTIES
    DroppedStaysDropped
