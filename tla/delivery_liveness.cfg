SPECIFICATION FairSpec
CONSTANTS
    e1 = e1
    e2 = e2
    e3 = e3
    NoBody = NoBody
    Events = {e1, e2, e3}
    Bodies = {b1}
    Before <- InOrder
    Poison = {}
    CloudErrors = {"transient", "paused", "auth"}
    GraceCovers = TRUE
    QueueLimit = 2
    BatchEvents = 2
    AgentBatch = 2
    MayStop = FALSE
    MaxHeld = 1
    MaxOffers = 3
    MaxCrashes = 0
    MaxFaults = 1
INVARIANTS
    HandoffConsistent
    NothingStranded
PROPERTIES
    EventuallyDelivered
CHECK_DEADLOCK FALSE
