SPECIFICATION Spec
CONSTANTS
    Types = {"queue_backpressure", "callback_failure_storm", "context_budget_degradation", "model_routing_instability"}
    MaxRemediations = 3
    Cooldown = 1
    Burst = 1
    MaxRejected = 2
    Models = 3
    MaxCrashes = 0
INVARIANTS QueueBackToNormal
