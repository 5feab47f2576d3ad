SPECIFICATION LivingSpec
CONSTANTS
    s1 = s1
    k1 = k1
    m1 = m1
    c1 = c1
    None = None
    Commands = {s1, k1}
    Kind <- EntryAndCancel
    Target <- OneOrder
    EntryCapacity = 1
    ControlCapacity = 1
    CompletionCapacity = 1
    MaxAttempts = 1
    MaxReconciliations = 1
    Delays = 1
PROPERTIES
    AcceptedIsAnswered
    StopBecomesDurable
CHECK_DEADLOCK FALSE
