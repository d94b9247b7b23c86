SPECIFICATION FairSpec
CONSTANTS
    c1 = c1
    c2 = c2
    c3 = c3
    n1 = n1
    n2 = n2
    Conn = {c1, c2}
    Ident = {n1, n2}
    NoConn = NoConn
    NoIdent = NoIdent
    MaxReqId = 2
INVARIANTS BindingsAgree NobodyForgotten NoOrphanRequest OneIdentityPerConn
PROPERTIES StaleCloseHarmless EveryRequestSettles
CHECK_DEADLOCK FALSE
