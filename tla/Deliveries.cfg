SPECIFICATION DeliveriesSpec
CONSTANTS
    w1 = w1
    w2 = w2
    Workers = {w1, w2}
    Rows = {1, 2}
    BatchSize = 2
    MaxAttempts = 2
    MaxFaults = 2
    Timely = TRUE
    NULL = NULL
    Syncs = {w1, w2}
    MaxCalls = 3
    MaxTroubles = 1
    Callers = {w1, w2}
    MaxChanges = 2
    MaxBreaks = 1
    Commands = {w1, w2}
    MaxOrders = 4
    Messages = {1}
    MaxRestarts = 1
SYMMETRY Replicas
\* Every row pruned and every replica idle: nothing is left to do.
CHECK_DEADLOCK FALSE
INVARIANTS TypeOK Exclusive AttemptsAreFailures
           OthersTypeOK PingedAsAsked TokensServe HeardAsTold
PROPERTIES KeepsThePromise
