\* Crashes on both sides, damaged files, failed writes, lost and late calls:
\* two of them in any order, at most one of them a lost call.
SPECIFICATION FairSpec
CONSTANTS
    MaxCommands = 2
    Uninstalls <- MCUninstalls
    BatchCommands <- MCBatchCommands
    Cancellable <- MCCancellable
    CommandTTL = 1
    BatchTTL = 1
    ClockSkew = 0
    HelperDrift <- MCHelperDrift
    QueueMax = 2
    HistoryMax = 3
    CompletedMax = 2
    MaxTime = 2
    MaxFaults = 2
    MaxLosses = 1
    MaxMishaps = 2
INVARIANTS
    TypeOK
    ExecutedOncePerRecord
    CompletedIsOwedOrRecorded
    GoneIsRecorded
PROPERTIES
    QueueDrains
    ResultsArrive
