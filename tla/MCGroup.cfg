SPECIFICATION Spec
CONSTANTS
    c1 = c1
    c2 = c2
    c3 = c3
    i1 = i1
    i2 = i2
    Clients <- MCClients
    Ids <- MCIds
    IdOf <- MCIdOf
    LoginOp <- MCLoginOp
    Descs <- MCDescs
    NoDesc = NoDesc
    NoClient = NoClient
    Objs = {o1, o2}
    NoGroup = NoGroup
    Watched = {c1}
    Cap = 1
    MaxBudget = 3
INVARIANTS
    TypeOK
    StaysMember
    NoGhost
    MaxClientsRespected
PROPERTIES
    AutolockEventually
    DescriptionConverges
CHECK_DEADLOCK FALSE
