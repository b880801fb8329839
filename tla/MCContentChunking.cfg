CONSTANTS
    Bytes <- MCBytes
    WindowSize = 2
    MinSize = 3
    MaxSize = 5
    Breaks <- MCBreaks
    Capacity = 6
    Slack = 2
    Inputs <- MCInputs
SPECIFICATION FairSpec
INVARIANTS
    ChunksOfContent
    IdsMatchData
    FullHasBlocks
    NotFull
    IInv
PROPERTY CommitEnds
