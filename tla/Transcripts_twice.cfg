SPECIFICATION Spec
CONSTANTS
    MaxMessages = 3
    Flushers = {f, g}
    Claims = {k1, k2, k3}
    MaxAttempts = 2
    MaxFaults = 0
    Prompt = TRUE
    NULL = NULL
SYMMETRY Interchangeable
INVARIANTS OncePerFault
CHECK_DEADLOCK FALSE
