SPECIFICATION Spec
CONSTANTS
    c1 = c1
    Conn = {c1}
    HelloTimeout = 3
    IdleTimeout = 4
    IdleCheck = 2
    UnboundKick = 5
    StallMin = 2
    StallSample = 1
    MaxTime = 14
    MaxStalls = 2
    MaxStallLen = 5
INVARIANTS SilentIsKicked GateIsTimed
PROPERTIES NoVerdictForOurStall
CHECK_DEADLOCK FALSE
