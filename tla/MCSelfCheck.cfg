CONSTANTS
    Entries = {1, 2, 3}
    Paths = {"p", "q", "r"}
    Cases <- MCSinkings
    LongestFile = 8
    MaxChunk = 3
    MaxTries = 2
    Workers = 2
    MaxQueued = 2
    MaxLen = 2
    Archives <- MCArchives
    Want <- MCWant
    TagBytes = 2
    BlockHeader = 2
    Inputs <- MCInputs
    Parts = {"check"}
    Checks <- SoundChecks
    Width = 8
    Poly = {5, 6, 7}
    Lane = 16
    Stride = 2
    Texts <- MCTexts
    Chunks = {0, 1, 3, 8, 10, 13, 21}
SPECIFICATION ReadersSpec
INVARIANT
    OkReadsBack
