SPECIFICATION Spec
CONSTANTS
    Slots <- AllSlots
    Uses <- InTurn
    Handles = {h1, h2}
    Devices = {d1, d2}
    None = None
    MaxTraffic <- Traffic
    Adapter = Adapter
    Listed = {d1}
INVARIANTS
    CentralOwns
    AnswersAreOwn
    LinkCanFinish
    MirrorConverges
PROPERTY
    EverythingEnds
