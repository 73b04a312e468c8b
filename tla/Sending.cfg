SPECIFICATION EndsSpec
CONSTANTS
    NULL = NULL
    \* A conversation of two messages.
    MaxMessages = 2
    Flushers = {f, g}
    Claims = {k1, k2, k3}
    MaxAttempts = 2
    MaxFaults = 2
    Prompt = TRUE
    \* Two reminders of two senders.
    DueAt <- TwoTogether
    MaxTime = 2
    MostWaiting = 1
    AtOnce = 2
    MostAttempts = 2
    \* A delivery, and two replicas whose leases may be overrun.
    Rows = {1}
    BatchSize = 1
    Timely = FALSE
    MostSpills = 1
INVARIANTS TypeOK NothingLost NothingTwice GivesUpOnItsOwnFailures
PROPERTIES EventuallyOut EventuallyGone EventuallySettled SettledStaysSettled
ACTION_CONSTRAINT FirstUnused
CHECK_DEADLOCK FALSE
