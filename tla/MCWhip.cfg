SPECIFICATION Spec
CONSTANTS
    w1 = w1
    w2 = w2
    v = v
    r = r
    Whips = {w1, w2}
    Ended = {w1}
    Viewers = {v}
    Recorders = {r}
    Attended = TRUE
    Present = {w2, v}
    None = None
INVARIANTS
    TypeOK
    EndedLeft
    SomeoneRuns
    ClosedRecordNothing
PROPERTY
    EveryoneReturns
CHECK_DEADLOCK FALSE
