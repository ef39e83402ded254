SPECIFICATION FairSpec
CONSTANTS
    Jobs = {j1, j2}
    Deleted = {j1}
    MaxRuns = 2
INVARIANTS
    TypeOK
    OneProcess
    OneOutcome
PROPERTIES
    OrphanedOnlyByFailure
    EntriesEnd
CHECK_DEADLOCK FALSE
