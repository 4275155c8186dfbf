SPECIFICATION SafeSpec
CONSTANTS
    Attempts <- ThreeAttempts
    Timeout = 2
INVARIANTS
    SuccessIsConnected
