SPECIFICATION SessionSpec
CONSTANTS
    Radix = 4
    LengthMax = 3
    TicketsPerRead = 2
    InMax = 9
    OutMax = 1
    ReadsPerTurn = 2
    Filters <- MCFilters
    FiltersMax = 2
    Refused <- MCRefused
    Messages <- MCMessages
    Topic <- MCTopic
    MaxEvents = 4
INVARIANTS
    FramesIntact
    FiltersAsked
PROPERTIES
    NothingStranded
    FiltersAnswered
CHECK_DEADLOCK FALSE
