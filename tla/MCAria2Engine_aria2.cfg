SPECIFICATION FairSpec
CONSTANTS
    Daemons = {aria2c}
    Aria2c = aria2c
    Pids = {p1, p2}
    Magnets = {m}
    Plain = {h}
    MaxJobs = 1
    Faults = {"die", "hang", "push", "stop"}
INVARIANTS
    TypeOK
    OneProcess
    OutcomesTrue
PROPERTIES
    DaemonsRestarted
    EndsReported
CHECK_DEADLOCK FALSE
