SPECIFICATION FairSpec
INVARIANT UsesAreLive
INVARIANT HoldsItsResults
INVARIANT MonitorIsWhole
PROPERTY CallsReturn
CONSTANTS
    Threads = {t1, t2}
    NoThread = none
    Entries = 2
    MaxCalls = 3
    MaxFaults = 2
