SPECIFICATION FairSpec
CONSTANTS
    x1 = x1
    x2 = x2
    Quantity = 2
    Exits = {x1, x2}
    Settings <- BothAdapters
INVARIANT BeliefFollowsVenue
INVARIANT ClosedIsFlat
INVARIANT SettledAgrees
INVARIANT FlagsAreOutstanding
PROPERTY TradesOnlyAdvance
PROPERTY EndIsNoticed
CHECK_DEADLOCK FALSE
