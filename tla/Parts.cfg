SPECIFICATION PartsSpec
CONSTANTS
    Ids = {1, 2, 3}
    DueAt <- TwoTogether
    MaxTime = 2
    Senders = {s, t}
    MostWaiting = 1
    AtOnce = 2
    MostAttempts = 2
    MaxFaults = 2
    Prompt = TRUE
    NULL = NULL
    Board <- ThreeColumns
    ReadsAs <- AsTaught
    NotReviewed = "not reviewed"
    Done = "done"
    Commands = {command}
    Poller = poller
    MaySetStatus = TRUE
    MaxEvents = 2
    Polling = poll
    Refreshing = refresh
    MaxVersions = 2
    MaxMishaps = 4
    Home = "home"
    Away = "away"
    Us = "us"
    Them = "them"
    NewLogin = "us2"
    Linkers = {"ann", "bob"}
    MaxMoves = 1
    MaxOrders = 2
    People = {"ann", "bob"}
    Holds <- AccountsOf
    FirstName <- AtFirst
    Names = {"ann1", "ann2", "bob1", "new"}
    Claimed <- OldClaim
    MaxLinks = 2
    RequireProved = TRUE
    MaxRenames = 1
    MaxCommands = 1
    AllCards = {1, 2, 3}
    Places = {1, 2, 3, 4}
    PageSize = 2
    MaxPages = 2
    MaxEdits = 2
    MaxMisses = 1
    Issues = {1, 2}
    PerRun = 1
    MaxRuns = 2
    MaxTurns = 2
    MaxActs = 1
    MaxUpsets = 1
INVARIANTS PartsTypeOK NeverTakenOver GoneForAReason CapIsNearlyKept
           MovedWhenQuiet DraftsAreAsTheirCards BoardsAreAsChosen EveryoneIsThemselves
           ReadAndShownWhole
CHECK_DEADLOCK FALSE
