CONSTANTS
    b1 = b1  b2 = b2  b3 = b3
    h1 = h1  h2 = h2
    r1 = r1  r2 = r2  r3 = r3
    Blocks <- MCBlocks
    Handles <- MCHandles
    Revs <- MCRevs
    Size <- MCSize
    ReadOnly <- MCNone
    Inputs <- MCInputs
    Hole <- MCHole
    NoOffset = NoOffset
    NoFile = NoFile
    NoRev = NoRev
    Faults <- MCNone
    SerialCommits = FALSE
    KeepAfterThrow = FALSE
    NewfileBound = 4
SPECIFICATION Spec
SYMMETRY HandleRevSymmetry
INVARIANT BothCanBeRetrieved
