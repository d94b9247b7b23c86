SPECIFICATION NurserySpec
CONSTANTS
    r1 = r1
    r2 = r2
    Conn = {c1, c2, c3, c4, c5}
    Region = {r1, r2}
    NoRegion = NoRegion
    K = 2
    MinUptime = 1
    MinPool = 3
    Steps = {5}
    MaxTime = 10
    MaxArrivals = 6
SYMMETRY ConnSymmetry
PROPERTIES NoPileUp Diverse UnboundLast PlacesFilled
CHECK_DEADLOCK FALSE
