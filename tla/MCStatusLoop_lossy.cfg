SPECIFICATION Spec
CONSTANTS
    YtJobs = {y, z}
    AriaJobs = {}
    Key <- ByPrefix
    Runs = {r1, r2}
    NoRun = NoRun
    Limit = 1
    Faults = {"push", "statement", "crash"}
SYMMETRY Symmetry
INVARIANT TypeOK
PROPERTY ReadOnceAndHeld
CHECK_DEADLOCK FALSE
