SPECIFICATION KeepSpec
CONSTANTS
    YtJobs = {y}
    AriaJobs = {a}
    Key <- ByPrefix
    Runs = {r1, r2}
    NoRun = NoRun
    Limit = 9
    Faults = {"push", "answer", "engine"}
PROPERTY ReadOnceAndHeld
PROPERTY OutcomesDelivered
CHECK_DEADLOCK FALSE
