SPECIFICATION SafeSpec
CONSTANTS
    Slots <- AllSlots
    Uses <- Pairing
    Handles = {h1, h2}
    Devices = {d1, d2}
    None = None
    MaxTraffic <- Traffic
    Adapter = Adapter
    Listed = {d1}
INVARIANTS
    OnlyPairAnswered
