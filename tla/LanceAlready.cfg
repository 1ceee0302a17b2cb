SPECIFICATION Spec
INVARIANT AlreadyMeansUsable
CHECK_DEADLOCK FALSE
CONSTANTS
    Threads = {t1, t2}
    NoThread = NoThread
    Initialisers = {t1, t2}
    Others = FALSE
    MaxVersions = 1
    MaxCalls = 2
    MaxFaults = 0
