SPECIFICATION Spec
CONSTANTS
    User = {"u", "v"}
    Inbound = {"i1"}
    Access <- Accesses
    Shared = {}
    MaxRequests = 2
    MaxOfficial = 0
    MaxFaults = 0
INVARIANTS DeletedUserHasNoClient
CHECK_DEADLOCK FALSE
