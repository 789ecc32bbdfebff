SPECIFICATION Spec
CONSTANTS
    User = {"u", "v"}
    Inbound = {"i1", "i2"}
    Access <- Accesses
    Shared = {}
    MaxRequests = 2
    MaxOfficial = 1
    MaxFaults = 1
INVARIANTS EnabledIsRestored SwappedHasBackup
PROPERTIES ReplacementsKeepSwaps BlocksFollowTheIntent
CHECK_DEADLOCK FALSE
