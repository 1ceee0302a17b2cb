SPECIFICATION FairSpec
INVARIANT TypeOK
INVARIANT EnvIsReady
INVARIANT ClassesInitOnce
INVARIANT CreatorIsAlone
PROPERTY CallsReturn
CHECK_DEADLOCK FALSE
CONSTANTS
    Threads = {t1, t2, t3}
    NoThread = NoThread
    Classes = 3
    Lookups = {"found", "exception"}
    Foreign = TRUE
    MaxFailures = 2
