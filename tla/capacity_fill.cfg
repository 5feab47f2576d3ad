SPECIFICATION Spec
CONSTANTS
    a = a
    b = b
    x = x
    y = y
    None = None
    Submits = {a, b}
    Margin <- Ones
    MaxReservations = 2
    Settings <- CompleteFills
    MaxTime = 3
INVARIANTS
    ExposureWithinLimit
