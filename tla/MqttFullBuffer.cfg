SPECIFICATION OutSafeSpec
CONSTANTS
    MaxPackets = 7
    OutSize = 7
INVARIANTS
    FullIsNotFatal
