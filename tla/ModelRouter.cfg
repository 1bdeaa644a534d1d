CONSTANTS
    Calls = {c1, c2}
    Sessions = {s1}
    Configs <- MCConfigs
    Cooldowns = {2}
    MaxWait = 1
    WarningPacing = 0
    HardPacing = 1
    ProviderCooldown = 1
    DailyLimit = 3
    SessionLimit = 4
    ProviderLimit = 2
    WarningPercent = 50
    MaxEvents = 3
SPECIFICATION Spec
INVARIANTS
    TypeOK
    OvershootBounded
PROPERTIES
    CoolingModelSpared
    BarredProviderSpared
    EveryCompletionEnds
CHECK_DEADLOCK FALSE
