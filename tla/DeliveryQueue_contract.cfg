SPECIFICATION FairSpec
CONSTANTS
    Ids = {d1, d2}
    MaxAttempts = 3
    Backoff <- MCBackoff
    MaxDelay = 2
    BatchSize = 1
    DayLength = 2
    Multipliers = {1, 2}
    Modes = {"normal", "throttled", "drain"}
    CallbackStatuses = {}
    ReplayStates = {"dead_letter"}
    MaxReopened = 1
    MaxCrashes = 1
PROPERTIES
    KeepsThePromise
    EveryPendingRowIsTaken
    EveryMessageSettles
