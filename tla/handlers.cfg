SPECIFICATION FairSpec
CONSTANTS
    g1 = g1
    g2 = g2
    g3 = g3
    h1 = h1
    h2 = h2
    h3 = h3
    None = None
    Goroutine = {g1, g2, g3}
    Handler = {h1, h2, h3}
    Initial <- Two
    Waits <- IndependentOrNested
    Registers = {h1, h3}
    Unregisters = {h1, h3}
CHECK_DEADLOCK FALSE
INVARIANTS CalledForEvent
PROPERTIES EventsDelivered
