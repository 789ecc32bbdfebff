\* One server: an update of its own, then a batch, one failure.
SPECIFICATION FairSpec
CONSTANTS
    Servers = 1
    MaxActive = 1
    BatchTimeout = 1
    CommandTTL = 2
    MaxJobs = 1
    SingleVersions = {"other"}
    MaxSingles = 1
    MaxPosts = 1
    MaxFaults = 1
INVARIANTS
    OneLiveUpdate
    OneCommandPerRow
PROPERTIES
    BatchEnds
    AttemptsEnd
