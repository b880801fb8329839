CONSTANTS
    b1 = b1  b2 = b2  b3 = b3
    NONE = NONE
    NoOffset = NONE
    Blocks <- MCBlocks
    Size <- MCSize
    Indexes <- MCIndexes
    BinEnd = 3
    BinLens <- MCBinLens
    MaxRows = 4
    BufLen = 3
    Old <- MCOld
SPECIFICATION FairSpec
INVARIANTS
    ReadsWhatIsListed
    NothingLost
    BufferHasRoom
    ExitCodeHonest
PROPERTY Exits
CHECK_DEADLOCK FALSE
