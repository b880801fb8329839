CONSTANTS
    b1 = b1  b2 = b2  b3 = b3
    h1 = h1  h2 = h2
    r1 = r1  r2 = r2  r3 = r3
    Blocks <- MCBlocks
    Handles <- MCHandles
    Revs <- MCRevs
    Size <- UnitSize
    ReadOnly <- MCNone
    Inputs <- ShortInputs
    Hole <- MCHole
    NoOffset = NoOffset
    NoFile = NoFile
    NoRev = NoRev
    Faults <- CopyOnly
    SerialCommits = FALSE
    KeepAfterThrow = TRUE
    NewfileBound = 2
SPECIFICATION FairSpec
INVARIANTS
    IndexTiled
    CommittedIndexed
PROPERTY CallsEnd
CHECK_DEADLOCK FALSE
