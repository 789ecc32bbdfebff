SPECIFICATION Spec
CONSTANTS
    Node = {n1}
    Limit = 2
    MaxRetired = 1
    MaxTraffic = 1
    MaxChanges = 2
    MaxFaults = 1
INVARIANT RemovedNodesAreBilled
CHECK_DEADLOCK FALSE
