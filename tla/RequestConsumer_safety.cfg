CONSTANTS
    r1 = r1
    r2 = r2
    r3 = r3
    p1 = p1
    c1 = c1
    c2 = c2
    None = None
    Records = {r1, r2, r3}
    Invalid = {r3}
    ModelCalls = {r1}
    Partitions = {p1}
    PartitionOf <- OnePartition
    Consumers = {c1, c2}
    BatchMax = 2
    Concurrency = 2
    Window = 1
    LateInserts = TRUE
    MaxCopies = 2
    MaxMessages = 3
    MaxFaults = 2
SPECIFICATION LiveSpec
CHECK_DEADLOCK FALSE
INVARIANTS CommittedIsStored NoBareRequest OnePollAhead
PROPERTIES OffsetsOnlyGrow EveryMessagePassed
