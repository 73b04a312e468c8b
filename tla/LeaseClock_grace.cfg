SPECIFICATION Spec
CONSTANTS
    BatchSize = 3
    Timeout = 4
    Grace = 2
    LeaseFor = 12
\* The model ends with the batch.
CHECK_DEADLOCK FALSE
INVARIANTS BatchWithinLease
