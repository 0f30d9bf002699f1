CONSTANTS
    None = None
    e1 = e1
    e2 = e2
    w1 = w1
    w2 = w2
    v1 = v1
    c1 = c1
    c2 = c2
    Executions = {e1}
    Conversations = {v1}
    ConversationOf <- SameConversation
    Workers = {w1, w2}
    Mortal = {w1}
    Calls = {c1, c2}
    Followed = {e1}
    SlowRenewal = TRUE
SPECIFICATION LiveSpec
INVARIANTS OneWorkerEver RowsConsistent ToldTheTruth
PROPERTIES OnlyScanLeavesSteps ImplementsJob EveryExecutionEnds SubscriberServed
CHECK_DEADLOCK FALSE
