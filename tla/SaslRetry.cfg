SPECIFICATION Spec
INVARIANT RetryIsNewNegotiation
CONSTANTS
    MaxOpens = 2
    Rounds = 2
    MaxFaults = 0
