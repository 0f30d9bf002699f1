CONSTANTS
    Batches = {b1, b2, b3}
    RecordsPerBatch = 1
    ReplayEntries = 1
    SyncErrorKeepsEntry = TRUE
    MaxCrashes = 0
SPECIFICATION Spec
SYMMETRY BatchSymmetry
INVARIANTS NoBypass
