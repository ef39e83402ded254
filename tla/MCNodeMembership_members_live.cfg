SPECIFICATION FairSpec
CONSTANTS
    Keys = {k1}
    Nodes = {n1}
    JobIds = {j1}
    NoNode = NoNode
    Faults = {"controller", "disk"}
    MaxInFlight = 2
PROPERTIES
    LiveNodesComeBack
    InactiveComesBack
CHECK_DEADLOCK FALSE
