SPECIFICATION Spec
CONSTANTS
    Delegations = {"d1"}
    Nodes = {1, 2, 3, 4, 5}
    Requests <- ShapeRequests
    MaxConcurrent = 2
    MaxRetry = 1
    Threshold = 3
    MaxGraphNodes = 4
    MaxGraphDepth = 3
    MaxCancels = 0
INVARIANTS AgentsBounded

CHECK_DEADLOCK FALSE
