CONSTANTS
    p = p
    k = k
    sp = sp
    sp2 = sp2
    xp = xp
    sk = sk
    sk2 = sk2
    xk = xk
    None = None
    Insights = {p, k}
    Parent <- ParentAndChild
    Commands <- TheCommands
    Owner <- TheOwner
    Kind <- TheKind
    CompletionCapacity = 1
    Settings <- DriverSettings
SPECIFICATION FairSpec
INVARIANTS
    RecoveryNeverRefused
    BatchesAreAccepted
    OneEntryEach
    StoppedIsFlat
PROPERTIES
    EntriesAreCovered
    StopCompletes
CHECK_DEADLOCK FALSE
