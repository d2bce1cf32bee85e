SPECIFICATION Spec
SYMMETRY AdminSymmetry
CONSTANTS
    a1 = a1
    a2 = a2
    u1 = u1
    f1 = f1
    f2 = f2
    zero = zero
    one = one
    message = message
    op = op
    h1 = h1
    k1 = k1
    Users <- MCUsers
    NoOne = NoOne
    Fields <- MCFields
    Values <- MCValues
    Default = zero
    Perms <- MCPerms
    Hashes <- MCHashes
    NoPassword = NoPassword
    KeySets <- MCKeySets
    NoKeys = NoKeys
    TokenPerms = {}
    Times = {}
    NoChange = NoChange
    Admins <- MCAdmins
    Commands <- MCCommands
    NoDoc = NoDoc
    NoUser = NoUser
    InitialDocs <- MCInitialDocs
    NoFile = NoFile
    NoTag = NoTag
    Size <- MCSize
    Precise = TRUE
    MaxBudget = 3
INVARIANTS
    TypeOK
    TagsFaithful
PROPERTIES
    AtomicUpdates
CHECK_DEADLOCK FALSE
