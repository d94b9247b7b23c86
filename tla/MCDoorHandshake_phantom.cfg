SPECIFICATION Spec
CONSTANTS
    c1 = c1
    c2 = c2
    n1 = n1
    Conn = {c1, c2}
    Ident = {n1}
    NoConn = NoConn
    NoIdent = NoIdent
    MaxReqId = 1
INVARIANTS NoPhantomBinding
CHECK_DEADLOCK FALSE
