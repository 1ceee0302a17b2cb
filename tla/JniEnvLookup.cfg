SPECIFICATION Spec
INVARIANT NoWaitForOneself
CONSTANTS
    Threads = {t1, t2}
    NoThread = NoThread
    Classes = 2
    Lookups = {"found", "exception"}
    Foreign = FALSE
    MaxFailures = 1
