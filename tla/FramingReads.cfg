SPECIFICATION FairSpec
INVARIANT ReadsInOrder
INVARIANT DrainedIsSmall
PROPERTY IsByteStream
PROPERTY AllArrives
CONSTANTS
    MaxBytes = 4
    MaxFrame = 3
    MaxRead = 3
    MaxConns = 2
    DefaultSize = 2
