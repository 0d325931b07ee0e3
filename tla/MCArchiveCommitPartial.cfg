SPECIFICATION Spec
CONSTANTS
    MaxRuns = 2
INVARIANTS
    NoPartialArchive
CHECK_DEADLOCK FALSE
