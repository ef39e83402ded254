SPECIFICATION FairSpec
CONSTANTS
    Keys = {k1}
    Nodes = {w, v, c}
    JobIds = {j1}
    NoNode = NoNode
    Controllers = {c}
    Slots = 1
    MaxUploaders = 2
    Faults = {"crash", "copy"}
INVARIANTS
    TypeOK
    FilesSomewhere
    OneUploader
    RemoteLinksLead
PROPERTY StuckUploadsEnd
CHECK_DEADLOCK FALSE
