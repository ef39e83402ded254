SPECIFICATION FairSpec
CONSTANTS
    Downloads = {d1}
    Nodes = {m, n}
    Homes = {m}
    Tokens = {t1}
    Sizes = {0, 2}
    MaxPos = 3
    ServeMode = "url"
    Faults = {"crash", "call", "rclone"}
INVARIANTS
    TypeOK
    BytesAsAsked
    EndedServesNothing
    
 
CHECK_DEADLOCK FALSE
