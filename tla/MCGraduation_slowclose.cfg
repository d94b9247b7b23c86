SPECIFICATION Spec
CONSTANTS
    c1 = c1
    c2 = c2
    c3 = c3
    n1 = n1
    n2 = n2
    n3 = n3
    Conn = {c1, c2, c3}
    Node = {n1, n2, n3}
    NoNode = NoNode
    RegionOf <- MCRegionOf
    MaxPeers = 1
    Slack = 0
    Interval = 1
    Cooldown = 3
    VitalityTTL = 2
    SafeFloor = 4
    MinUptime = 1
    MaxNursery = 2
    CohortTime = 1
    GateOn = FALSE
    SampleOn = FALSE
    BootstrapOn = FALSE
    Sizes = {4}
    CloseTime = 2
    MaxTime = 3
SYMMETRY ConnSymmetry
PROPERTIES RegionKeepsOne
CHECK_DEADLOCK FALSE
