SPECIFICATION Spec
CONSTANTS
    e1 = e1
    e2 = e2
    e3 = e3
    NoBody = NoBody
    Events = {e1}
    Bodies = {b1, b2}
    Before <- AnyOrder
    Poison = {}
    CloudErrors = {"transient"}
    GraceCovers = TRUE
    QueueLimit = 2
    BatchEvents = 2
    AgentBatch = 2
    MayStop = FALSE
    MaxHeld = 1
    MaxOffers = 2
    MaxCrashes = 0
    MaxFaults = 0
INVARIANTS
    NothingStranded
CHECK_DEADLOCK FALSE
