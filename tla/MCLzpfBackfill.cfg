CONSTANTS
    Parts = {"lzpf"}
    Runs <- MCRuns
    Window = 2
    PieceMax = 3
    PieceBound = 2
    Threshold = 2
    TableMax = 2
    BlockMax = 3
    Capacity = 6
    Start = 3
    SparseStep = 2
    SparseMargin = 5
    LongMin = 2
    LongLen = 3
    Alphabet = 4
    Escape = 2
    Align = 2
    Inputs <- MCShortSound
    MaxBlocks = 4
    CountLimit = 6
    Profiles <- MCProfiles
    Families = {"lz", "cm"}
    DriverBlocks = 3
    ExeBlocks <- MCExeBlocks
    MaxExeBlocks = 2
    Word = 8
    BaseWrap = 4
    Recent = 2
    AddEspPer = 4
SPECIFICATION MCSpec
INVARIANTS BackfillStopsInBlock
