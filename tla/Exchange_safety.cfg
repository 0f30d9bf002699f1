CONSTANTS
    q1 = q1
    q2 = q2
    q3 = q3
    c1 = c1
    c2 = c2
    k1 = k1
    k2 = k2
    None = None
    Requests = {q1, q2, q3}
    Callers = {c1, c2}
    CallerOf <- OneCaller
    Policies = {k1}
    LimitOf <- Limits
    Usages = {1, 2}
    MaxTokens = 1
    MaxOpen = 2
    MaxLate = 0
    MaxAttempts = 2
    MaxPeriods = 1
    MaxEdits = 1
SPECIFICATION LiveSpec
CHECK_DEADLOCK FALSE
INVARIANTS LedgerBalanced OvershootBounded IndexMatchesPolicies
PROPERTIES PoliciesArrive
