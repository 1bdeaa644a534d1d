SPECIFICATION Spec
CONSTANTS
    Ids = {d1, d2}
    MaxAttempts = 2
    Backoff <- MCBackoff
    MaxDelay = 1
    BatchSize = 2
    DayLength = 1
    Multipliers = {2}
    Modes = {"normal"}
    CallbackStatuses = {"completed", "failed", "progress"}
    ReplayStates = {"queued", "dispatching", "sent", "failed", "dead_letter"}
    MaxReopened = 2
    MaxCrashes = 1
INVARIANTS
    TypeOK
    OneDispatchAtATime
    SentOnce
    AttemptsBounded
PROPERTIES
    OnlyARestartStrands
SYMMETRY IdSymmetry
