SPECIFICATION Spec
CONSTANTS
    Slots <- AllSlots
    Uses <- Early
    Handles = {h1, h2}
    Devices = {d1, d2}
    None = None
    MaxTraffic <- Once
    Adapter = Adapter
    Listed = {d1}
PROPERTIES
    DeadlineKept
