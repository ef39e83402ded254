SPECIFICATION RequestSpec
CONSTANTS
    Users = {u1, u2}
    Keys = {k1}
    Nodes = {n1}
    JobIds = {j1, j2}
    DlIds = {d1, d2}
    Adders = {a1}
    Deleters = {x1, x2}
    NoJob = NoJob
    NoUser = NoUser
    NoKey = NoKey
    NoDl = NoDl
    NoNode = NoNode
    UploadPending = FALSE
    Faults = TRUE
SYMMETRY Symmetry
INVARIANT IInv
