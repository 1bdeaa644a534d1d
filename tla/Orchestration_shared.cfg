SPECIFICATION Spec
CONSTANTS
    Delegations = {"d1", "d2"}
    Nodes = {1, 2, 3}
    Requests <- SharedRequests
    MaxConcurrent = 2
    MaxRetry = 1
    Threshold = 2
    MaxGraphNodes = 3
    MaxGraphDepth = 3
    MaxCancels = 1
INVARIANTS ThrowsOnlyAfterCancel
PROPERTIES CancelledForACause BreakerLatches
CHECK_DEADLOCK FALSE
