SPECIFICATION FairSpec
CONSTANTS
    MaxVersion = 2
    Stamp <- OwnSeconds
    Closed <- Reopened
    Threads = {1, 2, 3, 4}
    Syncs = {p, q}
    MaxManual = 1
    MaxDeletes = 1
    MaxFaults = 1
    NULL = NULL
INVARIANTS MirroredWhenQuiet
PROPERTIES EventuallyHandled
CHECK_DEADLOCK FALSE
