SPECIFICATION ThreadsSpec
CONSTANTS
    MaxVersion = 3
    Stamp <- TiedStamps
    Closed <- ClosedAtLast
    Threads = {1, 2, 3, 4}
    Syncs = {p, q}
    MaxManual = 0
    MaxDeletes = 1
    MaxFaults = 2
    NULL = NULL
    Channels = {c, d}
    Movers = {p, q}
    Visits = {s}
    MaxMappings = 2
    MaxEdits = 1
    MaxBreaks = 1
    MaxThreads = 4
    Apps = {c, d}
    Reviewers = {c, d}
    Handlers = {p, q}
    MaxPushes = 1
    MaxRuns = 2
    MaxMoves = 2
    MaxTurns = 2
    MaxTroubles = 1
    MaxDeaths = 1
    MaxDrops = 1
    Callers = {p, q}
    ProbeEvery = 2
    ProbeTimeout = 2
    LastHour = 6
SYMMETRY Alike
INVARIANTS ThreadsTypeOK MirroredWhenQuiet EveryThreadIsOwned
           PlacedWhenQuiet VerdictsAreSaid EndsAndAnswersWell
PROPERTIES NeverRollsBack
