SPECIFICATION Spec
CONSTANTS
    Remarks = {comment}
    MaxVersion = 3
    MaxFlips = 0
    Threads = {1}
    Workers = {p}
    MaxFaults = 0
    MaxPeople = 0
    NULL = NULL
INVARIANTS EditNeedsNoGuard
CHECK_DEADLOCK FALSE
