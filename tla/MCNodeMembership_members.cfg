SPECIFICATION FairSpec
CONSTANTS
    Keys = {k1}
    Nodes = {n1}
    JobIds = {j1}
    NoNode = NoNode
    Faults = {"answer", "slow", "statement"}
    MaxInFlight = 2
INVARIANT TypeOK
PROPERTIES
    LostWorkEnds
    DeadNodesAreEmptied
CHECK_DEADLOCK FALSE
