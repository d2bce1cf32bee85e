SPECIFICATION Spec
SYMMETRY CallerSymmetry
CONSTANTS
    c1 = c1
    c2 = c2
    t1 = t1
    t2 = t2
    message = message
    present = present
    Users = {}
    NoOne = NoOne
    Fields = {}
    Values = {Default}
    Default = Default
    Perms = {}
    Hashes = {}
    NoPassword = NoPassword
    KeySets = {}
    NoKeys = NoKeys
    TokenPerms <- MCTokenPerms
    Times <- MCTimes
    NoChange = NoChange
    Callers <- MCCallers
    Tokens <- MCTokens
    Commands <- MCCommands
    NoToken = NoToken
    InitialTokens <- MCInitialTokens
    NoFile = NoFile
    NoStamp = NoStamp
    Size <- MCSize
    Precise = TRUE
    Week = 1
    MaxTime = 3
    MaxBudget = 2
    MaxEdits = 1
    MaxFaults = 1
INVARIANTS
    TypeOK
    InSync
PROPERTIES
    AtomicTokens
CHECK_DEADLOCK FALSE
