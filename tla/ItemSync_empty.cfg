SPECIFICATION Spec
CONSTANTS
    MaxVersion = 2
    Stamp <- OwnSeconds
    Closed <- ClosedLast
    Threads = {1, 2, 3}
    Syncs = {p}
    MaxManual = 0
    MaxDeletes = 1
    MaxFaults = 1
    NULL = NULL
INVARIANT RetryWritesIntoIt
CHECK_DEADLOCK FALSE
