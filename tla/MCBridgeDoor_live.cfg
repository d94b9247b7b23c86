SPECIFICATION FairSpec
CONSTANTS
    c1 = c1
    c2 = c2
    Conn = {c1, c2}
    NurseryOn = FALSE
    AnchorK = 1
    MinPool = 1
    MaxSends = 2
PROPERTIES ImplementsPresence DepartureHeard SeatFreed
CHECK_DEADLOCK FALSE
