SPECIFICATION Spec
CONSTANTS
    c1 = c1
    c2 = c2
    c3 = c3
    Conn = {c1, c2, c3}
    NurseryOn = TRUE
    AnchorK = 1
    MinPool = 1
    MaxSends = 1
SYMMETRY ConnSymmetry
INVARIANTS NoGhosts Introduced GateKeepsApart FirstRolesAgree
CHECK_DEADLOCK FALSE
