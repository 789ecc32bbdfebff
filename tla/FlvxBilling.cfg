SPECIFICATION FairSpec
CONSTANTS
    Node = {n1}
    Limit = 1
    MaxRetired = 1
    MaxTraffic = 2
    MaxChanges = 1
    MaxFaults = 1
INVARIANTS FinalCountersBilled
PROPERTIES BillsLikeAMeter OnlyCoreRestartsLoseTraffic DroppedNodesWereBilled OverQuotaCloses
CHECK_DEADLOCK FALSE
