SPECIFICATION Spec
CONSTANTS
    p = p
    s = s
    u1 = u1
    u2 = u2
    Clients = {p, s}
    Streams = {u1, u2}
    Owner <- MCOwner
    Tracks = {audio, video}
    Choices <- MCChoices
    None = None
    Present = {p, s}
    Asked = {s}
    Kinds = {"join", "leave", "request", "adjust", "fail", "track"}
    MaxBudget = 2
SYMMETRY MCSymmetry
INVARIANTS
    NoOrphan
    BrowserExact
CHECK_DEADLOCK FALSE
