SPECIFICATION FairSystemSpec
INVARIANT AckedIsVisible
INVARIANT NoPanic
INVARIANT OneInitialiser
INVARIANT GotInOrder
INVARIANT CommitIsWhole
INVARIANT ReadsInsideCall
PROPERTY IsTable
PROPERTY CallsReturn
PROPERTY StreamReleased
CHECK_DEADLOCK FALSE
CONSTANTS
    Threads = {t1, t2}
    NoThread = NoThread
    Initialisers = {t1, t2}
    Others = TRUE
    MaxVersions = 3
    MaxCalls = 5
    MaxFaults = 1
    Batches = 2
    MaxErrors = 1
    MaxAgain = 1
