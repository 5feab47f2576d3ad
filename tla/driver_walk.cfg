CONSTANTS
    p = p
    k = k
    sp = sp
    sp2 = sp2
    xp = xp
    sk = sk
    sk2 = sk2
    xk = xk
    None = None
    Insights = {p, k}
    Parent <- ParentAndChild
    Commands <- TheCommands
    Owner <- TheOwner
    Kind <- TheKind
    CompletionCapacity = 1
    Settings <- WalkSettings
SPECIFICATION Spec
PROPERTIES
    NoResurrection
CHECK_DEADLOCK FALSE
