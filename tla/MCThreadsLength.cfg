SPECIFICATION LengthSpec
CONSTANTS
    t1 = t1
    t2 = t2
    t3 = t3
    Caller = c0
    h1 = h1
    h2 = h2
    NoJob = NoJob
    Workers = 3
    Pool <- MCThree
    ScriptChoices <- MCScripts
    N = 4
    Helpers <- MCHelpers
    Batches <- MCBatches
    Share = 2
    Team = 4
INVARIANTS
    LengthErrorReported
