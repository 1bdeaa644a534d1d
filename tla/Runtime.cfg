SPECIFICATION Spec
CONSTANTS
    Slots = {s1, s2}
    Faults = 1
    Keys = {"task-done", "queued-done"}
    Queued = {"queued-done"}
    Deliveries = {1, 2, 3}
    Kinds <- MCKinds
    Allowed = {"owner"}
    Texts <- MCTexts
    MaxMessages = 3
    MinChars = 3
    MaxChars = 10
    BreakOn = "paragraph"
    Coalesce = TRUE
    Lengths = {1, 6, 14}
    MaxSentences = 5
    Servers = {"files", "web"}
    Offers <- MCOffers
    Builtin = {"fetch"}
    Flaky = {"web"}
    FailureThreshold = 2
    SuccessThreshold = 2
    Cooldown = 1
    Jobs = {"heartbeat", "backup"}
    MaxChanges = 3
    MaxRuns = 3
    Clients = {"client"}
    Topics = {"incidents", "health"}
    Produced = {"incidents"}
    MaxSeq = 2
    SNAPSHOT_CONTEXT_LIMIT = 2
    MaxLaunches = 2
    MaxCaptures = 3
    Sessions = {"session"}
    Named <- MCNamed
    BuiltinSkills = {"exec"}
    Global <- MCGlobal
    Overrides <- MCOverrides
    Batches <- MCBatches
    MaxRounds = 2
    RepeatLimit = 2
    MaxPolicies = 1
    Config <- MCConfig
    Sizes = {1, 100, 250}
    TextSizes = {0, 5000}
    MaxHistory = 6
    Claims = {"up", "fast"}
    Contents <- MCContents
    MaxTurns = 2
INVARIANTS
    RuntimeTypeOK
    WebhookOnce
    RepliesWhole
    TurnsSafe
    
PROPERTIES
    McpSafe
    RuntimeLive
CHECK_DEADLOCK FALSE
