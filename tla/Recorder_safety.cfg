CONSTANTS
    Batches = {b1, b2}
    RecordsPerBatch = 2
    ReplayEntries = 2
    SyncErrorKeepsEntry = FALSE
    MaxCrashes = 1
SPECIFICATION LiveSpec
INVARIANTS CountersMatchCalls DirectOnlyWhenDrained NoBypass AcceptedDurable CommitFits
PROPERTIES DropOnlyDelivered PausedUntilRestart ImplementsPromise AcceptedReachesKafka BarrierComesDown
