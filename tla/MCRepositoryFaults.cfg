CONSTANTS
    b1 = b1  b2 = b2  b3 = b3
    h1 = h1  h2 = h2
    r1 = r1  r2 = r2  r3 = r3
    Blocks <- MCBlocks
    Handles <- MCHandles
    Revs <- MCRevs
    Size <- MCSize
    ReadOnly <- MCReadOnly
    Inputs <- MCInputs
    Hole <- MCHole
    NoOffset = NoOffset
    NoFile = NoFile
    NoRev = NoRev
    Faults <- AllFaults
    SerialCommits = TRUE
    KeepAfterThrow = FALSE
    NewfileBound = 4
SPECIFICATION Spec
SYMMETRY RevSymmetry
INVARIANTS
    TypeOK
    CommittedOnDisk
    DamageConfined
    CheckoutExact
    FailedIsPrefix
    LockHeldByCall
PROPERTY ManifestFinal
