SPECIFICATION Spec
CONSTANTS
    MaxFailures = 3
    MaxStarts = 3
INVARIANTS
    ConnectionOwned
PROPERTIES
    BackoffNotForgiven
    AttemptEnds
