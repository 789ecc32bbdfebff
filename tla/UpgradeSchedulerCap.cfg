\* Two servers of which one may be upgraded at a time.
SPECIFICATION Spec
CONSTANTS
    Servers = 2
    MaxActive = 1
    BatchTimeout = 1
    CommandTTL = 2
    MaxJobs = 1
    SingleVersions = {"other"}
    MaxSingles = 0
    MaxPosts = 1
    MaxFaults = 1
INVARIANTS
    AtMostActive
