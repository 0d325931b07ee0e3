SPECIFICATION Spec
CONSTANTS
    MaxRuns = 3
INVARIANTS
    TypeOK
    NeverLost
    KeptIsChecked
    LeavesNoTrace
PROPERTIES
    ReplacedWithConsent
CHECK_DEADLOCK FALSE
