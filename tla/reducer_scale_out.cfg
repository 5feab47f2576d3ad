SPECIFICATION Spec
CONSTANTS
    x1 = x1
    x2 = x2
    Quantity = 2
    Exits = {x1, x2}
    Settings <- ScaleOut
INVARIANT ClosedIsFlat
CHECK_DEADLOCK FALSE
