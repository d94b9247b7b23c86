SPECIFICATION Spec
CONSTANTS
    c1 = c1
    c2 = c2
    f1 = f1
    n1 = n1
    n2 = n2
    Conn = {c1, c2}
    Far = {f1}
    Node = {n1, n2}
    NoNode = NoNode
    NoRoute = NoRoute
    Socket = Socket
    Cap = 1
    PerMin = 1
    Window = 2
    Cooldown = 1
    MaxInc = 2
    MaxTime = 3
SYMMETRY Symmetry
INVARIANTS BudgetHolds RefusalSparesRoutes RefusedIsDoomed RoutedIsMarked
CHECK_DEADLOCK FALSE
