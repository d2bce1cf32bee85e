SPECIFICATION Spec
CONSTANTS
    c1 = c1
    c2 = c2
    c3 = c3
    i1 = i1
    i2 = i2
    i3 = i3
    Clients = {c1, c2, c3}
    Ids <- MCIds
    IdOf <- MCIdOf
    LoginOp = {c1}
    Descs <- MCDescs
    NoDesc = NoDesc
    NoClient = NoClient
    Objs = {o1}
    NoGroup = NoGroup
    Watched = {c2}
    Cap = 2
    Present = {c1}
    MaxBudget = 2
    MaxOrders = 0
INVARIANTS
    RosterComplete
    ClosedLeft
PROPERTIES
    KickedLeave
CHECK_DEADLOCK FALSE
