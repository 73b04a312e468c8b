SPECIFICATION Spec
CONSTANTS
    MaxMessages = 2
    Flushers = {f}
    Claims = {k1, k2, k3}
    MaxAttempts = 2
    MaxFaults = 3
    Prompt = TRUE
    NULL = NULL
SYMMETRY Interchangeable
INVARIANTS OwnFailuresOnly
CHECK_DEADLOCK FALSE
