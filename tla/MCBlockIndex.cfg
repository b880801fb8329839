CONSTANTS
    b1 = b1  b2 = b2  b3 = b3
    h1 = h1  h2 = h2  h3 = h3
    Blocks <- MCBlocks
    Handles <- MCHandles
    ReadOnly <- MCReadOnly
    Size <- MCSize
    NoOffset = NONE
SPECIFICATION Spec
SYMMETRY WriterSymmetry
INVARIANTS
    IndexTiled
    OffsetFree
    IInv
PROPERTY AppendOnly
