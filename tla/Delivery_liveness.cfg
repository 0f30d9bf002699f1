CONSTANTS
    n1 = n1
    n2 = n2
    s1 = s1
    s2 = s2
    s3 = s3
    lds = lds
    cds = cds
    v1 = v1
    v2 = v2
    v3 = v3
    Baseline = Baseline
    None = None
    Nodes = {n2}
    Streams = {s2, s3}
    NodeOf <- StreamOwner
    Types = {lds}
    Versions = {v1, v2}
    Required <- Needs
    Rejects <- Refusals
    MaxCommands = 2
    MaxErrors = 0
    MaxRestarts = 1
SPECIFICATION LiveSpec
CHECK_DEADLOCK FALSE
INVARIANTS OneStreamPerNode
PROPERTIES EnvoysConverge
