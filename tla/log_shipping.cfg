SPECIFICATION FairSpec
CONSTANTS
    LogBatchSize = 2
    TornWrites = TRUE
    MaxEntries = 4
    MaxVacuums = 1
    MaxFailures = 3
    MaxCrashes = 1
INVARIANTS
    TypeOK
    NothingSkipped
    AtMostOneSpooled
PROPERTIES
    DeliversLogs
    LogsDelivered
