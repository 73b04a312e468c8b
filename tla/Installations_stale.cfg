SPECIFICATION Spec
CONSTANTS
    Callers = {c}
    MaxChanges = 2
    MaxCalls = 2
    MaxBreaks = 0
    NULL = NULL
CHECK_DEADLOCK FALSE
INVARIANT StaleRowCostsOneRequest
