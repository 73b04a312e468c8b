SPECIFICATION ToldSpec
CONSTANTS
    Remarks = {comment}
    MaxVersion = 2
    MaxFlips = 2
    Threads = {1, 2}
    Workers = {p, q}
    MaxFaults = 2
    MaxPeople = 1
    Others = {2}
    LastCommit = 3
    PerPush = 1
    MaxEvents = 2
    MaxUpsets = 2
    MaxSlips = 1
    Logins = {"ann", "ann2", "bob"}
    Account <- AccountOf
    MentionLimit = 1
    WaitsForGitHub = 2
    BackoffFor <- Doubled
    HeldFor <- DoubledSoFar
    MaxAttempts = 3
    LastHour = 3
    MaxComments = 3
    MaxLosses = 1
    NULL = NULL
CONSTRAINT Small
SYMMETRY Interchangeable
INVARIANTS ToldTypeOK OneHolder SaidWhenQuiet ShownAndHeard
PROPERTIES SaidOnce LiveThreadKept
CHECK_DEADLOCK FALSE
