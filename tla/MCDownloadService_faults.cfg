SPECIFICATION Spec
CONSTANTS
    Users = {u1}
    Keys = {k1}
    Nodes = {n1}
    JobIds = {j1}
    DlIds = {d1}
    Adders = {a1, a2}
    Deleters = {}
    NoJob = NoJob
    NoUser = NoUser
    NoKey = NoKey
    NoDl = NoDl
    NoNode = NoNode
    UploadPending = FALSE
    Faults = TRUE
SYMMETRY Symmetry
INVARIANTS
    TypeOK
    OneClaimPerKey
    QueuedHasDispatcher
PROPERTY ClaimsAreLeases
