CONSTANTS
    p1 = p1
    p2 = p2
    s1 = s1
    s2 = s2
    None = None
    Plugins = {p1, p2}
    Needed = {p1}
    Sources = {s1, s2}
    ModuleOf <- ItsOwn
    Always = {s2}
    SizeOf <- Sizes
    MaxCache = 2
    Invalid = {2}
    MaxEdits = 1
    MaxFaults = 1
SPECIFICATION Spec
CHECK_DEADLOCK FALSE
INVARIANTS ActiveLoadable
