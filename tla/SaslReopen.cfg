SPECIFICATION Spec
INVARIANT IsCompleteIsTrue
CONSTANTS
    MaxOpens = 2
    Rounds = 2
    MaxFaults = 0
