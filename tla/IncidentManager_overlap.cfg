SPECIFICATION FairSpec
CONSTANTS
    Types = {"queue_backpressure", "callback_failure_storm", "model_routing_instability"}
    MaxRemediations = 3
    Cooldown = 1
    Burst = 1
    MaxRejected = 1
    Models = 2
    MaxCrashes = 1
INVARIANTS TypeOK ReversedWhenNested SafeModeEnds RecordsAgree
PROPERTIES PersistentIsEscalated RecoveredIsResolved
