SPECIFICATION Spec
CONSTANTS
    e1 = e1
    e2 = e2
    e3 = e3
    NoBody = NoBody
    Events = {e1, e2}
    Bodies = {b1, b2}
    Before <- AnyOrder
    Poison = {e2}
    CloudErrors = {"transient", "terminal"}
    GraceCovers = FALSE
    QueueLimit = 2
    BatchEvents = 2
    AgentBatch = 2
    MayStop = TRUE
    MaxHeld = 1
    MaxOffers = 3
    MaxCrashes = 1
    MaxFaults = 1
SYMMETRY Symmetry
CONSTRAINT Budget
INVARIANTS
    NothingLost
    CommittedIsDelivered
    ReceiptIsDurable
    SealedIsComplete
PROPERTIES
    ImplementsLog
CHECK_DEADLOCK FALSE
