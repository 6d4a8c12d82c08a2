CONSTANTS
    Buffer = 2
    MaxChunks = 4
SPECIFICATION FairSpec
CHECK_DEADLOCK FALSE
INVARIANT TypeOK
PROPERTIES StreamWindsDown KeepsPromise
