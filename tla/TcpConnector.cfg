SPECIFICATION Spec
CONSTANTS
    Attempts <- ThreeAttempts
    Timeout = 2
INVARIANTS
    ResourcesOwned
PROPERTIES
    Completes
