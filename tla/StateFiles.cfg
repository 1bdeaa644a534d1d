SPECIFICATION Spec
CONSTANTS
    Clients = {q1, q2}
    Faults = 1
    MaxTime = 2
    Docs <- MCDocs
    Present = {"soul"}
    Targets <- MCTargets
    Holds <- MCHolds
    Kept = 1
    MaxBackups = 2
    MaxRestores = 1
    MaxEvents = 2
    Senders = {"ann", "bob"}
    Configured = {"owner"}
    MaxPending = 1
    Ttl = 1
    MaxCodes = 2
    Secrets = {"API_SECRET", "MODEL_KEY"}
    Window = 1
    MaxValues = 4
    Catalog <- MCCatalog
    Ranges = {{}, {1}}
    MaxWithdrawn = 1
    Assets <- MCAssets
    Directories = {"identity"}
    Retention = 1
    DrillRetention = 2
    MaxSnapshots = 3
    MaxWrites = 2
    Checks <- MCChecks
    MaxChanges = 2
    Sections <- MCSections
    ModelKeys = {"OPENROUTER_API_KEY", "GEMINI_API_KEY"}
    RequiredKeys = {"API_SECRET"}
INVARIANTS
    PersonaSafe
    CodesHonoured
    SavedIsRead
    
    ReleaseSafe

    
CHECK_DEADLOCK FALSE
